----------------------------- MODULE RoundProofs -----------------------------
(***************************************************************************)
(* Proofs about the parts of a round that are studied on their own: the    *)
(* loops of rolling_finality, the message registry and the clock with the  *)
(* header checks that read it.                                             *)
(***************************************************************************)
EXTENDS RollingFinalityLoop, RoundMessages, RoundTime, FiniteSetTheorems, TLAPS

-----------------------------------------------------------------------------
(* The loops of rolling_finality *)

\* The heights the closed form calls Confirmed.
Conf == ConfirmedHeights(lab0, after, lfb, Cur)

LoopTypes ==
  /\ lfb \in 0..(Cur - 1)
  /\ pni \in [0..(Cur - 1) -> Nat]
  /\ lab0 \in [0..(Cur - 1) -> Labels]
  /\ lab \in [0..(Cur - 1) -> Labels]
  /\ i \in Int /\ stable \in Int

\* On the way down everything passed is Confirmed and did not stop the scan.
DownInv ==
  /\ i \in lfb..(Cur - 1) /\ stable = Cur - i
  /\ \A g \in (i + 1)..(Cur - 1) :
       lab[g] = "Confirmed" /\ Stable(lab0, after, g, Cur)
  /\ \A g \in 0..i : lab[g] = lab0[g]

\* On the way up everything passed was Confirmed and is Final.
UpInv ==
  /\ i \in (lfb + 1)..Cur
  /\ \A g \in 0..lfb : lab[g] = lab0[g]
  /\ \A g \in (lfb + 1)..(i - 1) : g \in Conf /\ lab[g] = "Final"
  /\ \A g \in i..(Cur - 1) : lab[g] = IF g \in Conf THEN "Confirmed" ELSE lab0[g]

LoopInv ==
  /\ LoopTypes
  /\ loop = "down" => DownInv
  /\ loop = "up" => UpInv
  /\ LoopsGiveClosedForm

LEMMA LoopStarts == LoopAssumption /\ LoopInit => LoopInv
<1> SUFFICES ASSUME LoopAssumption, LoopInit PROVE LoopInv
  OBVIOUS
<1>1. LoopTypes
  BY DEF LoopInit, LoopAssumption, LoopTypes, Labels
<1>2. DownInv
  BY DEF LoopInit, LoopAssumption, DownInv
<1> QED BY <1>1, <1>2 DEF LoopInit, LoopInv, LoopsGiveClosedForm

\* Where the scan down ends, the labels are those of the closed form so far.
LEMMA DownEnds ==
  ASSUME LoopAssumption, LoopTypes, DownInv,
         i = lfb \/ (lab[i] # "Confirmed" /\ stable < after[i]),
         i' = lfb + 1, UNCHANGED <<lab0, pni, lfb, lab>>
  PROVE  UpInv'
<1>1. Cur \in Nat /\ after = [h \in 0..(Cur - 1) |-> after[h]] /\ after' = after
  BY DEF LoopAssumption, after
<1>2. Conf' = Conf
  BY <1>1 DEF Conf
<1>3. ASSUME NEW g \in (lfb + 1)..(Cur - 1)
      PROVE  g \in Conf <=> (lab0[g] = "Confirmed" \/ g > i)
  <2>1. CASE g > i
    <3>1. \A k \in g..(Cur - 1) : Stable(lab0, after, k, Cur)
      BY <1>1, <1>3, <2>1 DEF DownInv, LoopTypes
    <3> QED BY <2>1, <3>1 DEF Conf, ConfirmedHeights
  <2>2. CASE ~(g > i)
    <3>1. i # lfb /\ i \in g..(Cur - 1) /\ lab0[i] # "Confirmed" /\ Cur - i < after[i]
      BY <1>1, <1>3, <2>2 DEF DownInv, LoopTypes
    <3>2. ~Stable(lab0, after, i, Cur)
      <4>1. after[i] \in Int
        BY <1>1, <3>1 DEF LoopTypes, after, ConfirmedAfter
      <4> QED BY <1>1, <3>1, <4>1 DEF Stable, LoopTypes
    <3> QED BY <2>2, <3>1, <3>2 DEF Conf, ConfirmedHeights
  <2> QED BY <2>1, <2>2
<1>4. \A g \in (lfb + 1)..(Cur - 1) :
        lab[g] = IF g \in Conf THEN "Confirmed" ELSE lab0[g]
  <2> SUFFICES ASSUME NEW g \in (lfb + 1)..(Cur - 1)
               PROVE  lab[g] = IF g \in Conf THEN "Confirmed" ELSE lab0[g]
    OBVIOUS
  <2>1. CASE g > i
    <3>1. g \in Conf
      BY <1>3, <2>1
    <3>2. lab[g] = "Confirmed"
      <4>1. g \in (i + 1)..(Cur - 1)
        BY <1>1, <2>1 DEF LoopTypes
      <4> QED BY <4>1 DEF DownInv
    <3> QED BY <3>1, <3>2
  <2>2. CASE ~(g > i)
    <3>1. lab[g] = lab0[g]
      BY <1>1, <2>2 DEF DownInv, LoopTypes
    <3> QED BY <1>3, <2>2, <3>1
  <2> QED BY <2>1, <2>2
<1>5. \A g \in 0..lfb : lab[g] = lab0[g]
  BY <1>1 DEF DownInv, LoopTypes
<1> QED BY <1>1, <1>2, <1>4, <1>5 DEF UpInv, LoopTypes

LEMMA LoopStep == LoopAssumption /\ LoopInv /\ [LoopNext]_loopVars => LoopInv'
<1> SUFFICES ASSUME LoopAssumption, LoopInv, [LoopNext]_loopVars PROVE LoopInv'
  OBVIOUS
<1>0. LoopTypes /\ (loop = "down" => DownInv) /\ (loop = "up" => UpInv) /\ Cur \in Nat
  BY DEF LoopInv, LoopAssumption
<1>1. CASE ScanDown
  <2>0. DownInv /\ UNCHANGED <<lab0, pni, lfb>> /\ i > lfb /\ i \in 0..(Cur - 1)
    BY <1>0, <1>1 DEF ScanDown, DownInv, LoopTypes
  <2>1. after' = after
    BY <2>0 DEF after
  <2>2. CASE loop' = "down" /\ stable' = stable + 1 /\ i' = i - 1 /\
             \/ lab[i] # "Confirmed" /\ stable >= after[i] /\ lab' = [lab EXCEPT ![i] = "Confirmed"]
             \/ lab[i] = "Confirmed" /\ lab' = lab
    <3>1. lab' = [lab EXCEPT ![i] = "Confirmed"]
      BY <1>0, <2>2 DEF LoopTypes
    <3>2. Stable(lab0, after, i, Cur)
      BY <2>0, <2>2 DEF Stable, DownInv
    <3>3. LoopTypes'
      BY <1>0, <2>0, <2>2, <3>1 DEF LoopTypes, Labels
    <3>4. DownInv'
      <4>1. \A g \in i..(Cur - 1) : lab'[g] = "Confirmed" /\ Stable(lab0, after, g, Cur)
        BY <1>0, <2>0, <3>1, <3>2 DEF DownInv, LoopTypes
      <4>2. \A g \in 0..(i - 1) : lab'[g] = lab0[g]
        BY <1>0, <2>0, <3>1 DEF DownInv, LoopTypes
      <4>3. i' \in lfb..(Cur - 1) /\ stable' = Cur - i' /\ i' + 1 = i
        BY <1>0, <2>0, <2>2 DEF DownInv, LoopTypes
      <4>4. \A g \in (i' + 1)..(Cur - 1) :
              lab'[g] = "Confirmed" /\ Stable(lab0', after', g, Cur)
        BY <2>0, <2>1, <4>1, <4>3
      <4>5. \A g \in 0..i' : lab'[g] = lab0'[g]
        BY <2>0, <2>2, <4>2
      <4> QED BY <2>0, <4>3, <4>4, <4>5 DEF DownInv
    <3> QED BY <2>2, <3>3, <3>4 DEF LoopInv, LoopsGiveClosedForm
  <2>3. CASE lab[i] # "Confirmed" /\ stable < after[i] /\ loop' = "up" /\ i' = lfb + 1
             /\ UNCHANGED <<lab, stable>>
    <3>1. UpInv'
      BY <1>0, <2>0, <2>3, DownEnds
    <3>2. LoopTypes'
      BY <1>0, <2>0, <2>3 DEF LoopTypes
    <3> QED BY <2>3, <3>1, <3>2 DEF LoopInv, LoopsGiveClosedForm
  <2> QED BY <1>1, <2>2, <2>3 DEF ScanDown
<1>2. CASE EndDown
  <2>1. UpInv'
    BY <1>0, <1>2, DownEnds DEF EndDown
  <2>2. LoopTypes'
    BY <1>0, <1>2 DEF EndDown, LoopTypes
  <2> QED BY <1>2, <2>1, <2>2 DEF EndDown, LoopInv, LoopsGiveClosedForm
<1>3. CASE (ScanUp /\ loop' = "done") \/ EndUp
  <2>1. UpInv /\ UNCHANGED <<lab0, pni, lfb, lab, i>> /\ stable' = stable
    BY <1>0, <1>3 DEF ScanUp, EndUp
  <2>2. i = Cur \/ (i \in (lfb + 1)..(Cur - 1) /\ lab[i] # "Confirmed")
    BY <1>0, <1>3, <2>1 DEF ScanUp, EndUp, UpInv, LoopTypes
  <2>3. i = Cur \/ i \notin Conf
    BY <1>0, <2>1, <2>2 DEF UpInv, LoopTypes
  <2>4. ASSUME NEW h \in 0..(Cur - 1)
        PROVE  lab[h] = ScannedLabel(lab0, after, lfb, Cur, h)
    <3>1. CASE h <= lfb
      <4>1. h \notin Conf /\ h \notin FinalHeights(lab0, after, lfb, Cur)
        BY <1>0, <2>4, <3>1 DEF Conf, ConfirmedHeights, FinalHeights, LoopTypes
      <4> QED BY <1>0, <2>1, <2>4, <3>1, <4>1 DEF ScannedLabel, Conf, UpInv, LoopTypes
    <3>2. CASE h \in (lfb + 1)..(i - 1)
      <4>1. \A g \in (lfb + 1)..h : g \in Conf
        BY <1>0, <2>1, <3>2 DEF UpInv, LoopTypes
      <4>2. h \in FinalHeights(lab0, after, lfb, Cur)
        BY <1>0, <2>4, <3>2, <4>1 DEF Conf, FinalHeights, LoopTypes
      <4> QED BY <2>1, <3>2, <4>2 DEF ScannedLabel, UpInv
    <3>3. CASE h \in i..(Cur - 1)
      <4>1. i \in (lfb + 1)..h
        BY <1>0, <2>1, <2>4, <3>3 DEF UpInv, LoopTypes
      <4>2. i \notin Conf
        BY <1>0, <2>3, <2>4, <3>3 DEF LoopTypes
      <4>3. h \notin FinalHeights(lab0, after, lfb, Cur)
        BY <4>1, <4>2 DEF Conf, FinalHeights
      <4> QED BY <2>1, <3>3, <4>3 DEF ScannedLabel, Conf, UpInv
    <3> QED BY <1>0, <2>4, <3>1, <3>2, <3>3 DEF LoopTypes
  <2>5. LoopsGiveClosedForm'
    <3>1. after' = after
      BY <2>1 DEF after
    <3> QED BY <2>1, <2>4, <3>1 DEF LoopsGiveClosedForm
  <2>6. LoopTypes'
    BY <1>0, <2>1 DEF LoopTypes
  <2>7. loop' = "done"
    BY <1>3 DEF EndUp
  <2> QED BY <2>5, <2>6, <2>7 DEF LoopInv
<1>4. CASE ScanUp /\ loop' # "done"
  <2>1. /\ UpInv /\ UNCHANGED <<lab0, pni, lfb, stable>> /\ i < Cur /\ lab[i] = "Confirmed"
        /\ lab' = [lab EXCEPT ![i] = "Final"] /\ i' = i + 1 /\ loop' = "up"
    BY <1>0, <1>4 DEF ScanUp
  <2>2. i \in (lfb + 1)..(Cur - 1)
    BY <1>0, <2>1 DEF UpInv, LoopTypes
  <2>3. i \in Conf
    <3>1. i \in i..(Cur - 1)
      BY <1>0, <2>2 DEF LoopTypes
    <3>2. i \in Conf \/ lab0[i] = "Confirmed"
      BY <2>1, <3>1 DEF UpInv
    <3> QED BY <2>2, <3>2 DEF Conf, ConfirmedHeights
  <2>4. Conf' = Conf
    <3>1. after' = after
      BY <2>1 DEF after
    <3> QED BY <2>1, <3>1 DEF Conf
  <2>5. LoopTypes'
    BY <1>0, <2>1, <2>2 DEF LoopTypes, Labels
  <2>6. UpInv'
    <3>1. \A g \in 0..lfb : lab'[g] = lab0[g]
      BY <1>0, <2>1, <2>2 DEF UpInv, LoopTypes
    <3>2. \A g \in (lfb + 1)..i : g \in Conf /\ lab'[g] = "Final"
      BY <1>0, <2>1, <2>2, <2>3 DEF UpInv, LoopTypes
    <3>3. \A g \in (i + 1)..(Cur - 1) : lab'[g] = IF g \in Conf THEN "Confirmed" ELSE lab0[g]
      BY <1>0, <2>1, <2>2 DEF UpInv, LoopTypes
    <3>4. i' \in (lfb + 1)..Cur /\ i' - 1 = i
      BY <1>0, <2>1, <2>2 DEF LoopTypes
    <3> QED BY <2>1, <2>4, <3>1, <3>2, <3>3, <3>4 DEF UpInv
  <2> QED BY <2>1, <2>5, <2>6 DEF LoopInv, LoopsGiveClosedForm
<1>5. CASE UNCHANGED loopVars
  BY <1>5 DEF loopVars, LoopInv, LoopTypes, DownInv, UpInv, Conf, after, LoopsGiveClosedForm
<1> QED BY <1>1, <1>2, <1>3, <1>4, <1>5 DEF LoopNext

\* The two loops of rolling_finality, with their early exits, compute the closed
\* form the acceptor's model uses, for every chain, labelling and height of the
\* last finalized block.
THEOREM LoopsComputeClosedForm ==
  ASSUME LoopAssumption
  PROVE  LoopSpec => []LoopsGiveClosedForm
<1>1. LoopInv => LoopsGiveClosedForm
  BY DEF LoopInv
<1> QED BY <1>1, LoopStarts, LoopStep, PTL DEF LoopSpec
-----------------------------------------------------------------------------
(* The queues of consensus messages *)

Queues == [RmRounds -> [RmSteps -> Seq(Signers)]]

RmTypes ==
  /\ height \in Nat
  /\ inbound \in Seq(RmMsgs)
  /\ queue \in Queues

\* Draining a step empties one queue and leaves the others alone.
LEMMA DrainFacts ==
  ASSUME NEW q \in Queues, NEW r, NEW s
  PROVE  /\ DrainMsgs(q, r, s) \in Queues
         /\ \A k \in RmRounds, j \in RmSteps :
              DrainMsgs(q, r, s)[k][j] = IF k = r /\ j = s THEN <<>> ELSE q[k][j]
<1>1. DrainMsgs(q, r, s) = [q EXCEPT ![r] = [q[r] EXCEPT ![s] = <<>>]]
  BY DEF DrainMsgs
<1>2. <<>> \in Seq(Signers)
  OBVIOUS
<1>3. CASE r \in RmRounds
  <2>1. PICK f \in [RmSteps -> Seq(Signers)] : f = [q[r] EXCEPT ![s] = <<>>]
    BY <1>2, <1>3 DEF Queues
  <2>2. DrainMsgs(q, r, s) = [q EXCEPT ![r] = f]
    BY <1>1, <2>1
  <2>3. \A j \in RmSteps : f[j] = IF j = s THEN <<>> ELSE q[r][j]
    BY <1>3, <2>1 DEF Queues
  <2> QED BY <1>3, <2>2, <2>3 DEF Queues
<1>4. CASE r \notin RmRounds
  <2>1. DrainMsgs(q, r, s) = q
    BY <1>1, <1>4 DEF Queues
  <2> QED BY <1>4, <2>1
<1> QED BY <1>3, <1>4

LEMMA EmptyFacts ==
  EmptyQueue \in Queues /\ \A k \in RmRounds, j \in RmSteps : EmptyQueue[k][j] = <<>>
BY DEF EmptyQueue, Queues

\* A message is queued if its signer is in the queue of its step.
LEMMA QueuedFacts ==
  ASSUME NEW q \in Queues, NEW m \in RmMsgs
  PROVE  /\ m.round \in RmRounds /\ m.step \in RmSteps /\ m.signer \in Signers
         /\ q[m.round][m.step] \in Seq(Signers)
         /\ m \in Queued(q) <=> m.signer \in ToSet(q[m.round][m.step])
BY DEF Queues, RmMsgs, Queued

\* Only the oldest message of a full queue makes room.
LEMMA PutFacts ==
  ASSUME RoundMessagesAssumption, NEW q \in Queues, NEW m \in RmMsgs
  PROVE  /\ PutMsg(q, m) \in Queues
         /\ \A n \in Queued(q) \ Queued(PutMsg(q, m)) :
              /\ n.signer = Head(q[n.round][n.step])
              /\ Len(q[n.round][n.step]) = QueueCapacity
              /\ Len(PutMsg(q, m)[n.round][n.step]) = QueueCapacity
<1> DEFINE old == q[m.round][m.step]
           room == IF Len(old) = QueueCapacity THEN Tail(old) ELSE old
           new == Append(room, m.signer)
<1>1. m.round \in RmRounds /\ m.step \in RmSteps /\ m.signer \in Signers /\ old \in Seq(Signers)
  BY QueuedFacts
<1>2. QueueCapacity \in Nat \ {0}
  BY DEF RoundMessagesAssumption
<1>3. CASE m.signer \in ToSet(old)
  <2>1. PutMsg(q, m) = q
    BY <1>3 DEF PutMsg
  <2> QED BY <2>1
<1>4. CASE m.signer \notin ToSet(old)
  <2>1. room \in Seq(Signers) /\ new \in Seq(Signers)
    BY <1>1, <1>2
  <2>2. PutMsg(q, m) = [q EXCEPT ![m.round] = [q[m.round] EXCEPT ![m.step] = new]]
    BY <1>4 DEF PutMsg
  <2>3. PICK f \in [RmSteps -> Seq(Signers)] : f = [q[m.round] EXCEPT ![m.step] = new]
    BY <1>1, <2>1 DEF Queues
  <2>4. PutMsg(q, m) = [q EXCEPT ![m.round] = f] /\ PutMsg(q, m) \in Queues
    BY <1>1, <2>2, <2>3 DEF Queues
  <2>5. \A k \in RmRounds, j \in RmSteps : PutMsg(q, m)[k][j] =
          IF k = m.round /\ j = m.step THEN new ELSE q[k][j]
    BY <1>1, <2>3, <2>4 DEF Queues
  <2>6. ASSUME NEW n \in Queued(q) \ Queued(PutMsg(q, m))
        PROVE  n.round = m.round /\ n.step = m.step /\ n.signer \in ToSet(old)
               /\ n.signer \notin ToSet(new)
    <3>1. n \in RmMsgs
      BY DEF Queued
    <3> HIDE DEF new, old
    <3>2. /\ n.round \in RmRounds /\ n.step \in RmSteps
          /\ n.signer \in ToSet(q[n.round][n.step])
          /\ n.signer \notin ToSet(PutMsg(q, m)[n.round][n.step])
      BY <2>4, <3>1, QueuedFacts
    <3>3. n.round = m.round /\ n.step = m.step
      BY <2>5, <3>2
    <3> QED BY <1>1, <2>5, <3>2, <3>3 DEF old
  <2>7. ASSUME NEW x \in ToSet(old), x \notin ToSet(new)
        PROVE  Len(old) = QueueCapacity /\ x = Head(old) /\ Len(new) = QueueCapacity
    <3>1. PICK j \in 1..Len(old) : x = old[j]
      BY <1>1, <2>7 DEF ToSet
    <3>2. \A k \in 1..Len(room) : room[k] # x
      <4>1. \A k \in 1..Len(room) : k \in 1..Len(new) /\ new[k] = room[k]
        BY <1>1, <2>1
      <4> HIDE DEF new, room
      <4> QED BY <2>1, <2>7, <4>1 DEF ToSet
    <3>3. Len(old) = QueueCapacity
      BY <3>1, <3>2
    <3>4. room = Tail(old) /\ Len(old) > 0 /\ Len(room) = Len(old) - 1
      BY <1>1, <1>2, <3>3
    <3>5. j = 1
      <4> SUFFICES ASSUME j # 1 PROVE FALSE
        OBVIOUS
      <4>1. j - 1 \in 1..Len(room) /\ room[j - 1] = old[j]
        BY <1>1, <3>1, <3>4
      <4> QED BY <3>1, <3>2, <4>1
    <3> QED BY <1>1, <2>1, <3>1, <3>3, <3>4, <3>5
  <2>8. ASSUME NEW n \in Queued(q) \ Queued(PutMsg(q, m))
        PROVE  /\ n.signer = Head(q[n.round][n.step])
               /\ Len(q[n.round][n.step]) = QueueCapacity
               /\ Len(PutMsg(q, m)[n.round][n.step]) = QueueCapacity
    <3>1. n.round = m.round /\ n.step = m.step /\ n.signer \in ToSet(old)
          /\ n.signer \notin ToSet(new)
      BY <2>6
    <3>2. Len(old) = QueueCapacity /\ n.signer = Head(old) /\ Len(new) = QueueCapacity
      BY <2>7, <3>1
    <3>3. PutMsg(q, m)[n.round][n.step] = new /\ q[n.round][n.step] = old
      BY <1>1, <2>5, <3>1
    <3> QED BY <3>2, <3>3
  <2> QED BY <2>4, <2>8
<1> QED BY <1>3, <1>4

\* A step that begins takes the messages kept for it, from the cleaned queues q.
LEMMA EnterStepKeeps ==
  ASSUME NEW q \in Queues, NEW r, NEW s, EnterStep(q, r, s)
  PROVE  /\ queue' \in Queues
         /\ \A m \in Queued(q) \ Queued(queue') :
              task' = [round |-> m.round, step |-> m.step]
<1>1. queue' = DrainMsgs(q, r, s) /\ task' = [round |-> r, step |-> s]
  BY DEF EnterStep
<1>2. queue' \in Queues
  BY <1>1, DrainFacts
<1>3. ASSUME NEW m \in Queued(q) \ Queued(queue')
      PROVE  m.round = r /\ m.step = s
  <2>1. m \in RmMsgs
    BY DEF Queued
  <2>2. /\ m.round \in RmRounds /\ m.step \in RmSteps
        /\ m.signer \in ToSet(q[m.round][m.step])
        /\ m.signer \notin ToSet(queue'[m.round][m.step])
    BY <1>2, <2>1, QueuedFacts
  <2> QED BY <1>1, <2>2, DrainFacts
<1> QED BY <1>1, <1>2, <1>3

\* spawn_consensus at height h: besides, the round of the tip is over.
LEMMA SpawnKeeps ==
  ASSUME NEW q \in Queues, NEW h, SpawnTask(q, h)
  PROVE  /\ queue' \in Queues
         /\ \A m \in Queued(q) \ Queued(queue') :
              task' = [round |-> m.round, step |-> m.step] \/ m.round = h
<1> DEFINE p == RemoveMsgsByRound(q, h)
<1>1. p \in Queues /\ \A k \in RmRounds : k # h => p[k] = q[k]
  BY EmptyFacts DEF RemoveMsgsByRound, Queues
<1>2. EnterStep(p, h + 1, RestoredStep(h))
  BY DEF SpawnTask
<1> HIDE DEF p
<1>3. /\ queue' \in Queues
      /\ \A m \in Queued(p) \ Queued(queue') : task' = [round |-> m.round, step |-> m.step]
  BY <1>1, <1>2, EnterStepKeeps
<1>4. ASSUME NEW m \in Queued(q), m \notin Queued(p)
      PROVE  m.round = h
  <2>1. m \in RmMsgs
    BY DEF Queued
  <2> QED BY <1>1, <1>4, <2>1, QueuedFacts
<1> QED BY <1>3, <1>4

\* After a crash the registry is empty.
LEMMA SpawnFresh ==
  ASSUME NEW h, SpawnTask(EmptyQueue, h)
  PROVE  queue' = EmptyQueue
<1>1. RemoveMsgsByRound(EmptyQueue, h) = EmptyQueue
  BY DEF RemoveMsgsByRound, EmptyQueue
<1>2. queue' = DrainMsgs(EmptyQueue, h + 1, RestoredStep(h))
  BY <1>1 DEF SpawnTask, EnterStep
<1>3. queue' \in Queues /\ \A k \in RmRounds, j \in RmSteps : queue'[k][j] = EmptyQueue[k][j]
  BY <1>2, DrainFacts, EmptyFacts
<1> QED BY <1>3, EmptyFacts DEF Queues

LEMMA RmStep ==
  ASSUME RoundMessagesAssumption, RmTypes, [RmNext]_rmVars
  PROVE  RmTypes' /\ KeepsQueued
<1>0. height \in Nat /\ inbound \in Seq(RmMsgs) /\ queue \in Queues
  BY DEF RmTypes
<1>1. CASE StartTask
  <2>1. SpawnTask(queue, height) /\ height' = height /\ inbound' = inbound
    BY <1>1 DEF StartTask
  <2>2. /\ queue' \in Queues
        /\ \A m \in Queued(queue) \ Queued(queue') :
             task' = [round |-> m.round, step |-> m.step] \/ m.round = height
    BY <1>0, <2>1, SpawnKeeps
  <2> QED BY <1>0, <2>1, <2>2 DEF RmTypes, KeepsQueued, Released
<1>2. ASSUME NEW crash \in BOOLEAN, RestartTask(crash)
      PROVE  RmTypes' /\ KeepsQueued
  <2>1. /\ SpawnTask(IF crash THEN EmptyQueue ELSE queue, height)
        /\ height' = height /\ breaks' = breaks + 1
        /\ inbound' = IF crash THEN <<>> ELSE inbound
    BY <1>2 DEF RestartTask
  <2>2. CASE crash
    <3>1. queue' = EmptyQueue
      BY <2>1, <2>2, SpawnFresh
    <3>2. inbound' \in Seq(RmMsgs)
      BY <2>1, <2>2
    <3> QED BY <1>0, <2>1, <3>1, <3>2, EmptyFacts DEF RmTypes, KeepsQueued, Released
  <2>3. CASE ~crash
    <3>1. SpawnTask(queue, height) /\ inbound' = inbound
      BY <2>1, <2>3
    <3>2. /\ queue' \in Queues
          /\ \A m \in Queued(queue) \ Queued(queue') :
               task' = [round |-> m.round, step |-> m.step] \/ m.round = height
      BY <1>0, <3>1, SpawnKeeps
    <3> QED BY <1>0, <2>1, <3>1, <3>2 DEF RmTypes, KeepsQueued, Released
  <2> QED BY <2>2, <2>3
<1>3. ASSUME NEW m \in RmMsgs, RerouteMsg(m)
      PROVE  RmTypes' /\ KeepsQueued
  <2>1. queue' = queue /\ height' = height /\ inbound' = Append(inbound, m)
    BY <1>3 DEF RerouteMsg
  <2> QED BY <1>0, <2>1 DEF RmTypes, KeepsQueued
<1>4. CASE SetAside
  <2> DEFINE m == Head(inbound)
  <2>1. /\ inbound # <<>> /\ inbound' = Tail(inbound) /\ height' = height
        /\ queue' = PutMsg(queue, m) \/ queue' = queue
    BY <1>4 DEF SetAside
  <2>2. m \in RmMsgs /\ inbound' \in Seq(RmMsgs)
    BY <1>0, <2>1
  <2> HIDE DEF m
  <2>3. CASE queue' = queue
    BY <1>0, <2>1, <2>2, <2>3 DEF RmTypes, KeepsQueued
  <2>4. CASE queue' = PutMsg(queue, m)
    BY <1>0, <2>1, <2>2, <2>4, PutFacts DEF RmTypes, KeepsQueued, Released
  <2> QED BY <2>1, <2>3, <2>4
<1>5. CASE Collect
  <2>1. queue' = queue /\ height' = height /\ inbound # <<>> /\ inbound' = Tail(inbound)
    BY <1>5 DEF Collect
  <2>2. inbound' \in Seq(RmMsgs)
    BY <1>0, <2>1
  <2> QED BY <1>0, <2>1, <2>2 DEF RmTypes, KeepsQueued
<1>6. CASE EndStep \/ EndIteration
  <2>1. PICK s : EnterStep(queue, task.round, s) /\ height' = height /\ inbound' = inbound
    BY <1>6 DEF EndStep, EndIteration
  <2>2. /\ queue' \in Queues
        /\ \A m \in Queued(queue) \ Queued(queue') :
             task' = [round |-> m.round, step |-> m.step]
    BY <1>0, <2>1, EnterStepKeeps
  <2> QED BY <1>0, <2>1, <2>2 DEF RmTypes, KeepsQueued, Released
<1>7. ASSUME NEW enable \in BOOLEAN, AcceptNext(enable)
      PROVE  RmTypes' /\ KeepsQueued
  <2> DEFINE q == RemoveMsgsOutOfRange(queue, height + 2)
  <2>1. /\ height' = height + 1 /\ inbound' = inbound
        /\ SpawnTask(q, height + 1) \/ queue' = q
    BY <1>7 DEF AcceptNext
  <2>2. /\ q \in Queues
        /\ \A k \in RmRounds :
             k \in (height + 2)..(height + 2 + OffsetFutureMsgs) => q[k] = queue[k]
    BY <1>0, EmptyFacts DEF RemoveMsgsOutOfRange, Queues
  <2> HIDE DEF q
  <2>3. ASSUME NEW m \in Queued(queue), m \notin Queued(q)
        PROVE  m.round <= height + 1 \/ m.round > height + 2 + OffsetFutureMsgs
    <3>1. m \in RmMsgs
      BY DEF Queued
    <3>2. m.round \in RmRounds /\ m.round \in Nat /\ OffsetFutureMsgs \in Nat
      BY <3>1 DEF RoundMessagesAssumption, RmMsgs, RmRounds
    <3>3. m.round \notin (height + 2)..(height + 2 + OffsetFutureMsgs)
      BY <1>0, <2>2, <2>3, <3>1, QueuedFacts
    <3> QED BY <1>0, <3>2, <3>3
  <2>4. /\ queue' \in Queues
        /\ \A m \in Queued(q) \ Queued(queue') :
             task' = [round |-> m.round, step |-> m.step] \/ m.round = height + 1
    BY <2>1, <2>2, SpawnKeeps
  <2>5. ASSUME NEW m \in Queued(queue) \ Queued(queue')
        PROVE  Released(m)
    <3>1. m.round \in Nat /\ OffsetFutureMsgs \in Nat
      BY DEF RoundMessagesAssumption, RmMsgs, RmRounds, Queued
    <3>2. \/ task' = [round |-> m.round, step |-> m.step]
          \/ m.round <= height + 1 \/ m.round > height + 2 + OffsetFutureMsgs
      BY <1>0, <2>3, <2>4, <3>1
    <3> QED BY <1>0, <2>1, <3>1, <3>2 DEF Released
  <2> QED BY <1>0, <2>1, <2>4, <2>5 DEF RmTypes, KeepsQueued
<1>8. ASSUME NEW h \in 0..TopHeight, RevertTip(h)
      PROVE  RmTypes' /\ KeepsQueued
  <2>1. queue' = queue /\ height' = h /\ inbound' = inbound /\ h \in Nat
    BY <1>8 DEF RevertTip, RoundMessagesAssumption
  <2> QED BY <1>0, <2>1 DEF RmTypes, KeepsQueued
<1>9. CASE UNCHANGED rmVars
  BY <1>0, <1>9 DEF rmVars, RmTypes, KeepsQueued
<1> QED
  BY <1>1, <1>2, <1>3, <1>4, <1>5, <1>6, <1>7, <1>8, <1>9 DEF RmNext

\* A message set aside for a later step stays in the registry until its step
\* begins, its round is over, the chain leaves it too far ahead, a later message
\* of a full queue takes its place, or the node crashes: whatever number of
\* rounds, signers and messages, and whatever the capacities.
THEOREM QueuedMessagesStay ==
  ASSUME RoundMessagesAssumption
  PROVE  RmSpec => QueuedMessagesKept
<1>1. RmInit => RmTypes
  BY EmptyFacts DEF RmInit, RmTypes
<1>2. RmTypes /\ [RmNext]_rmVars => RmTypes' /\ [KeepsQueued]_rmVars
  BY RmStep
<1> QED BY <1>1, <1>2, PTL DEF RmSpec, QueuedMessagesKept
-----------------------------------------------------------------------------
(* Sums of elapsed times *)

\* Induction, for a set of numbers.
LEMMA SetInduction ==
  ASSUME NEW n \in Nat, NEW T, 0 \in T, \A k \in 0..(n - 1) : k \in T => k + 1 \in T
  PROVE  0..n \subseteq T
<1> DEFINE B == (0..n) \ T
<1> SUFFICES ASSUME B # {} PROVE FALSE
  OBVIOUS
<1>1. PICK x \in B : \A y \in B : ~(<<y, x>> \in OpToRel(<, Nat))
  <2>1. B \subseteq Nat
    OBVIOUS
  <2> HIDE DEF B
  <2> QED BY <2>1, NatLessThanWellFounded, WFMin
<1>2. \A y \in B : ~(y < x)
  <2> SUFFICES ASSUME NEW y \in B, y < x PROVE FALSE
    OBVIOUS
  <2> DEFINE p == <<y, x>>
  <2>1. p \in Nat \X Nat /\ p[1] < p[2]
    OBVIOUS
  <2>2. p \in OpToRel(<, Nat)
    <3> HIDE DEF p
    <3> QED BY <2>1 DEF OpToRel
  <2> QED BY <1>1, <2>2
<1>3. x # 0 /\ x - 1 \in 0..(n - 1) /\ x - 1 \notin B
  BY <1>2
<1> QED BY <1>3

\* The partial sums of a sequence, as a recursive definition gives them.
SumOf(f, q, n) == f[0] = 0 /\ \A k \in 1..n : f[k] = f[k - 1] + q[k]

LEMMA SumsExist ==
  ASSUME NEW q \in Seq(Nat)
  PROVE  \E f \in [0..Len(q) -> Nat] : SumOf(f, q, Len(q))
<1> DEFINE T == {n \in 0..Len(q) : \E f \in [0..n -> Nat] : SumOf(f, q, n)}
<1>1. Len(q) \in Nat
  OBVIOUS
<1>2. 0 \in T
  <2>1. [k \in 0..0 |-> 0] \in [0..0 -> Nat] /\ SumOf([k \in 0..0 |-> 0], q, 0)
    BY DEF SumOf
  <2> QED BY <1>1, <2>1
<1>3. ASSUME NEW n \in 0..(Len(q) - 1), n \in T
      PROVE  n + 1 \in T
  <2>1. PICK f \in [0..n -> Nat] : SumOf(f, q, n)
    BY <1>3
  <2>2. n \in Nat /\ n + 1 \in 1..Len(q) /\ q[n + 1] \in Nat
    BY <1>1
  <2> DEFINE g == [k \in 0..(n + 1) |-> IF k = n + 1 THEN f[n] + q[n + 1] ELSE f[k]]
  <2>3. g \in [0..(n + 1) -> Nat]
    BY <2>2
  <2>4. SumOf(g, q, n + 1)
    BY <2>1, <2>2 DEF SumOf
  <2>5. PICK m \in 0..Len(q) : m = n + 1
    BY <1>1, <2>2
  <2>6. m \in T
    <3> HIDE DEF g
    <3> QED BY <2>3, <2>4, <2>5
  <2> QED BY <2>5, <2>6
<1>4. 0..Len(q) \subseteq T
  <2> HIDE DEF T
  <2> QED BY <1>1, <1>2, <1>3, SetInduction
<1> QED BY <1>1, <1>4

\* A sum of measured times is a number.
LEMMA SumsTyped ==
  ASSUME NEW q \in Seq(Nat)
  PROVE  Sums(q)[Len(q)] \in Nat
<1> DEFINE Def(f) == [k \in 0 .. Len(q) |-> IF k = 0 THEN 0 ELSE f[k - 1] + q[k]]
<1>1. Len(q) \in Nat
  OBVIOUS
<1>2. \E f : f = Def(f)
  <2>1. PICK f \in [0..Len(q) -> Nat] : SumOf(f, q, Len(q))
    BY SumsExist
  <2>2. f = Def(f)
    BY <1>1, <2>1 DEF SumOf
  <2> QED BY <2>2
<1>3. Sums(q) = CHOOSE f : f = Def(f)
  BY DEF Sums
<1>4. Sums(q) = Def(Sums(q))
  <2> HIDE DEF Def
  <2> QED BY <1>2, <1>3
<1> DEFINE T == {n \in 0..Len(q) : Sums(q)[n] \in Nat}
<1>5. 0 \in T
  BY <1>1, <1>4
<1>6. ASSUME NEW n \in 0..(Len(q) - 1), n \in T
      PROVE  n + 1 \in T
  <2>1. n + 1 \in 0..Len(q) /\ n + 1 # 0 /\ n + 1 - 1 = n /\ q[n + 1] \in Nat
    BY <1>1
  <2>2. Sums(q)[n + 1] = Sums(q)[n] + q[n + 1]
    BY <1>4, <2>1
  <2> QED BY <1>6, <2>1, <2>2
<1>7. 0..Len(q) \subseteq T
  <2> HIDE DEF T
  <2> QED BY <1>1, <1>5, <1>6, SetInduction
<1> QED BY <1>1, <1>7
-----------------------------------------------------------------------------
(* The clocks of a round *)

LEMMA MaxOfTwo ==
  ASSUME NEW a \in Int, NEW b \in Int
  PROVE  /\ Max({a, b}) \in Int /\ Max({a, b}) \in {a, b}
         /\ Max({a, b}) >= a /\ Max({a, b}) >= b
<1>1. \E x \in {a, b} : \A y \in {a, b} : x >= y
  BY a >= b \/ b >= a
<1>2. Max({a, b}) \in {a, b} /\ \A y \in {a, b} : Max({a, b}) >= y
  BY <1>1 DEF Max
<1> QED BY <1>2

LEMMA MinOfTwo ==
  ASSUME NEW a \in Int, NEW b \in Int
  PROVE  /\ Min({a, b}) \in Int /\ Min({a, b}) \in {a, b}
         /\ Min({a, b}) <= a /\ Min({a, b}) <= b
<1>1. \E x \in {a, b} : \A y \in {a, b} : x <= y
  BY a <= b \/ b <= a
<1>2. Min({a, b}) \in {a, b} /\ \A y \in {a, b} : Min({a, b}) <= y
  BY <1>1 DEF Min
<1> QED BY <1>2

\* The assumption on the constants, in the form the steps need.
LEMMA TimeConstants ==
  ASSUME RoundTimeAssumption
  PROVE  /\ MinStepTimeout \in Nat /\ MaxStepTimeout \in Nat /\ TimeoutIncrease \in Nat
         /\ MaxIters \in Nat /\ AvgValues \in Nat /\ Relax \in Nat /\ MinBlockTime \in Nat
         /\ Margin \in Nat /\ MaxIters > 0 /\ MaxIters < 255 /\ AvgValues > 0
         /\ 0 < MinStepTimeout /\ MinStepTimeout <= MaxStepTimeout
         /\ Margin < MaxStepTimeout /\ MinBlockTime <= 3 * MaxStepTimeout
         /\ \A skew \in Skews : skew \in Int /\ -Margin <= skew /\ skew <= Margin
         /\ Base \in Nat /\ Slot \in Nat /\ Base <= Slot /\ Slot <= Base + 3 * MaxStepTimeout
BY DEF RoundTimeAssumption, Base, Slot

\* By when iteration k starts, if the round does not start late.
IterStart(k) == Base + (k + 1) * (3 * MaxStepTimeout)

LEMMA IterStarts ==
  ASSUME RoundTimeAssumption
  PROVE  /\ IterStart(0) = Base + 3 * MaxStepTimeout
         /\ \A k \in Nat : /\ IterStart(k) \in Nat
                           /\ IterStart(k + 1) = IterStart(k) + 3 * MaxStepTimeout
                           /\ IterStart(0) <= IterStart(k)
         /\ \A j, k \in Nat : j <= k => IterStart(j) <= IterStart(k)
         /\ IterStart(MaxIters) = Base + MinEmergencyBlockTime
<1> DEFINE T == 3 * MaxStepTimeout
<1>1. T \in Nat /\ Base \in Nat /\ MaxIters \in Nat
  BY TimeConstants
<1>2. \A k \in Nat : IterStart(k) = Base + (k + 1) * T
  BY DEF IterStart
<1>3. IterStart(MaxIters) = Base + MinEmergencyBlockTime
  BY <1>1, TimeConstants DEF MinEmergencyBlockTime, IterStart
<1>4. ASSUME NEW k \in Nat
      PROVE  /\ IterStart(k) \in Nat
             /\ IterStart(k + 1) = IterStart(k) + T
             /\ IterStart(0) <= IterStart(k)
  <2> HIDE DEF T
  <2>1. k * T \in Nat /\ (k + 1) * T = k * T + T /\ (k + 1 + 1) * T = k * T + T + T
    BY <1>1
  <2> QED BY <1>1, <1>2, <2>1
<1>5. ASSUME NEW j \in Nat, NEW k \in Nat, j <= k
      PROVE  IterStart(j) <= IterStart(k)
  <2> HIDE DEF T
  <2>1. PICK d \in Nat : k = j + d
    BY <1>5, k - j \in Nat
  <2>2. (k + 1) * T = (j + 1) * T + d * T /\ d * T \in Nat /\ (j + 1) * T \in Nat
    BY <1>1, <2>1
  <2> QED BY <1>1, <1>2, <2>2
<1>6. IterStart(0) = Base + T
  <2> HIDE DEF T
  <2> QED BY <1>1, <1>2
<1> QED BY <1>3, <1>4, <1>5, <1>6

TimeTypes ==
  /\ now \in Nat /\ began \in Nat /\ began <= now
  /\ curIter \in TimeIters
  /\ at \in Steps \cup {"slot", "quorum", "open"}
  /\ deadline \in Nat
  /\ at \in Steps => now <= deadline
  /\ timeouts \in [Steps -> MinStepTimeout..MaxStepTimeout]
  /\ metrics \in [Steps -> Seq(Nat)]
  /\ fails \subseteq TimeIters
  /\ DOMAIN cands = TimeIters
  /\ DOMAIN votes = TimeIters

\* An adapted timeout is a valid one.
LEMMA AvgTimeout ==
  ASSUME RoundTimeAssumption, NEW q \in Seq(Nat)
  PROVE  ReadAvgTimeout(q) \in MinStepTimeout..MaxStepTimeout
<1> DEFINE avg == IF q = None THEN MaxStepTimeout ELSE Average(q)
<1>1. avg \in Nat
  <2>1. CASE q = None
    BY <2>1, TimeConstants
  <2>2. CASE q # None
    <3>1. Len(q) \in Nat /\ Len(q) > 0
      BY <2>2 DEF None
    <3>2. PICK t \in Nat : t = Sums(q)[Len(q)]
      BY SumsTyped
    <3>3. Average(q) = (t + Len(q) - 1) \div Len(q)
      BY <3>2 DEF Average
    <3> QED BY <2>2, <3>1, <3>3
  <2> QED BY <2>1, <2>2
<1>2. ReadAvgTimeout(q) = Min({MaxStepTimeout, Max({MinStepTimeout, avg})})
  BY DEF ReadAvgTimeout
<1> HIDE DEF avg
<1>3. MinStepTimeout \in Int /\ MaxStepTimeout \in Int /\ avg \in Int
      /\ MinStepTimeout <= MaxStepTimeout
  BY <1>1, TimeConstants
<1>4. Max({MinStepTimeout, avg}) \in Int /\ Max({MinStepTimeout, avg}) >= MinStepTimeout
  BY <1>3, MaxOfTwo
<1>5. PICK m \in Int : m = Max({MinStepTimeout, avg})
  BY <1>4
<1>6. ReadAvgTimeout(q) = Min({MaxStepTimeout, m}) /\ m >= MinStepTimeout
  BY <1>2, <1>4, <1>5
<1>7. /\ Min({MaxStepTimeout, m}) \in Int /\ Min({MaxStepTimeout, m}) \in {MaxStepTimeout, m}
      /\ Min({MaxStepTimeout, m}) <= MaxStepTimeout
  BY <1>3, <1>5, MinOfTwo
<1> QED BY <1>3, <1>6, <1>7

LEMMA PushTyped ==
  ASSUME RoundTimeAssumption, NEW q \in Seq(Nat), NEW v \in Nat
  PROVE  PushBack(q, v) \in Seq(Nat)
<1>1. AvgValues \in Nat /\ AvgValues > 0
  BY TimeConstants
<1> QED BY <1>1 DEF PushBack

\* A step that times out gets more time, up to the maximum.
LEMMA TimeoutTyped ==
  ASSUME RoundTimeAssumption, TimeTypes, NEW s \in Steps, OnTimeout(s)
  PROVE  timeouts' \in [Steps -> MinStepTimeout..MaxStepTimeout]
<1>1. PICK t \in Nat : t = timeouts[s] + TimeoutIncrease /\ t >= MinStepTimeout
  BY TimeConstants DEF TimeTypes
<1>2. timeouts' = [timeouts EXCEPT ![s] = Min({MaxStepTimeout, t})]
  BY <1>1 DEF OnTimeout
<1>3. Min({MaxStepTimeout, t}) \in MinStepTimeout..MaxStepTimeout
  <2>1. /\ MaxStepTimeout \in Int /\ t \in Int /\ MinStepTimeout \in Int
        /\ MinStepTimeout <= MaxStepTimeout
    BY <1>1, TimeConstants
  <2>2. /\ Min({MaxStepTimeout, t}) \in Int /\ Min({MaxStepTimeout, t}) \in {MaxStepTimeout, t}
        /\ Min({MaxStepTimeout, t}) <= MaxStepTimeout
    BY <2>1, MinOfTwo
  <2> QED BY <1>1, <2>1, <2>2
<1> QED BY <1>2, <1>3 DEF TimeTypes

LEMMA KeptTyped ==
  ASSUME NEW m \in [Steps -> Seq(Nat)], NEW n
  PROVE  Kept(m, n) \in [Steps -> Seq(Nat)]
BY DEF Kept, None

LEMMA ElapsedTyped ==
  ASSUME RoundTimeAssumption, TimeTypes, NEW s \in Steps
  PROVE  /\ Elapsed(s) \in [Steps -> Seq(Nat)]
         /\ ReportElapsed(s) => metrics' \in [Steps -> Seq(Nat)]
<1>1. metrics[s] \in Seq(Nat) /\ now - began \in Nat
  BY DEF TimeTypes
<1>2. PushBack(metrics[s], now - began) \in Seq(Nat)
  BY <1>1, PushTyped
<1>3. Elapsed(s) \in [Steps -> Seq(Nat)]
  BY <1>2 DEF Elapsed, TimeTypes
<1> QED BY <1>3, KeptTyped DEF ReportElapsed

\* What is true of the header of an honest candidate of iteration k, on a node
\* whose clock shows t and who knows the attestations f.
GoodHeader(c, k, t, f) ==
  /\ c.iter = k
  /\ c.ts \in Int /\ Slot <= c.ts /\ (c.ts = Slot \/ c.ts <= t + Margin)
  /\ c.failed \subseteq f
  /\ \A j \in c.failed : j < Relax /\ j < k

HeaderInv ==
  /\ \A k \in TimeIters : cands[k] # None => GoodHeader(cands[k], k, now, fails)
  /\ \A c \in earlier : GoodHeader(c, MaxIters - 1, now, fails)

\* Past the first Proposal step the slot is open, and a Quorum that ended the
\* last iteration is on record.
SlotInv ==
  /\ (curIter > 0 \/ at \notin {"proposal", "slot", "quorum"}) => now >= Slot
  /\ (at = "quorum" /\ curIter = MaxIters - 1) => again

\* In a round that starts in time no step ends later than its share of the
\* iterations allows, until the last iteration runs again.
Schedule ==
  (~late /\ ~again) =>
    /\ at = "proposal" => deadline <= IterStart(curIter) + MaxStepTimeout
    /\ at = "slot" => now <= IterStart(curIter) + MaxStepTimeout
    /\ at = "validation" => deadline <= IterStart(curIter) + 2 * MaxStepTimeout
    /\ at = "ratification" => deadline <= IterStart(curIter) + 3 * MaxStepTimeout
    /\ at = "quorum" => now <= IterStart(curIter) + 3 * MaxStepTimeout

TimeInv == TimeTypes /\ HeaderInv /\ SlotInv /\ Schedule /\ HonestCandidatesVoted

LEMMA GoodLater ==
  ASSUME RoundTimeAssumption, NEW c, NEW k, NEW t \in Nat, NEW u \in Nat, t <= u,
         NEW f, NEW g, f \subseteq g, GoodHeader(c, k, t, f)
  PROVE  GoodHeader(c, k, u, g)
BY TimeConstants DEF GoodHeader

LEMMA CandidateGood ==
  ASSUME RoundTimeAssumption, TimeTypes, NEW k \in TimeIters,
         NEW skew \in Int, -Margin <= skew, skew <= Margin,
         NEW known \in SUBSET fails
  PROVE  GoodHeader(Candidate(k, skew, known), k, now, fails)
<1> DEFINE c == Candidate(k, skew, known)
<1>1. /\ Slot \in Int /\ now \in Int /\ now + skew \in Int /\ Margin \in Int
      /\ Relax \in Int /\ k \in Int /\ \A j \in fails : j \in Int
  BY TimeConstants DEF TimeTypes, TimeIters
<1>2. c.iter = k /\ c.ts = Timestamp(skew) /\ c.failed = {j \in known : j < Min({Relax, k})}
  BY DEF Candidate, GetFailedAtts
<1>3. /\ Timestamp(skew) \in Int /\ Timestamp(skew) \in {Slot, now + skew}
      /\ Timestamp(skew) >= Slot
  BY <1>1, MaxOfTwo DEF Timestamp
<1>4. PICK m \in Int : m = Min({Relax, k}) /\ m <= Relax /\ m <= k
  BY <1>1, MinOfTwo
<1>5. \A j \in c.failed : j < m /\ j \in Int
  BY <1>1, <1>2, <1>4
<1>6. \A j \in c.failed : j < Relax /\ j < k
  BY <1>1, <1>4, <1>5
<1> HIDE DEF c
<1>7. c.ts = Slot \/ c.ts <= now + Margin
  BY <1>1, <1>2, <1>3
<1>8. c.failed \subseteq fails
  BY <1>2
<1> QED BY <1>1, <1>2, <1>3, <1>6, <1>7, <1>8 DEF GoodHeader, c

\* Once the slot is open such a header passes the checks.
LEMMA ChecksPass ==
  ASSUME RoundTimeAssumption, TimeTypes, now >= Slot, NEW k \in TimeIters, NEW c,
         GoodHeader(c, k, now, fails)
  PROVE  ExecuteChecks(c) = "Ok"
<1>1. ~IsEmergencyBlock(c)
  BY TimeConstants DEF GoodHeader, IsEmergencyBlock, EmergencyBlockIter, TimeIters
<1>2. ~(c.ts < Slot) /\ ~(c.ts > now + Margin)
  BY TimeConstants DEF GoodHeader, TimeTypes
<1>3. TimeCheck(c) = "Ok"
  BY <1>1, <1>2 DEF TimeCheck
<1>4. FailedCheck(c) = "Ok"
  <2>1. ~ \E j \in c.failed : j >= Relax \/ j \notin fails
    <3> SUFFICES ASSUME NEW j \in c.failed PROVE j \in fails /\ ~(j >= Relax)
      OBVIOUS
    <3>1. j \in fails /\ j < Relax
      BY DEF GoodHeader
    <3>2. j \in Int /\ Relax \in Int
      BY <3>1, TimeConstants DEF TimeTypes, TimeIters
    <3> QED BY <3>1, <3>2
  <2> QED BY <2>1 DEF FailedCheck
<1> QED BY <1>3, <1>4 DEF ExecuteChecks

LEMMA VoteGood ==
  ASSUME RoundTimeAssumption, TimeTypes, HonestCandidatesVoted, now >= Slot,
         NEW k \in TimeIters, NEW c, c # None => GoodHeader(c, k, now, fails), TryVote(k, c)
  PROVE  DOMAIN votes' = TimeIters /\ HonestCandidatesVoted'
<1>1. PICK v : v \in {"NoCandidate", "Valid"} /\ votes' = [votes EXCEPT ![k] = v]
  <2>1. CASE c = None
    <3>1. votes' = [votes EXCEPT ![k] = "NoCandidate"]
      BY <2>1 DEF TryVote
    <3> QED BY <3>1
  <2>2. CASE c # None
    <3>1. ExecuteChecks(c) = "Ok"
      BY <2>2, ChecksPass
    <3>2. votes' = [votes EXCEPT ![k] = "Valid"]
      BY <2>2, <3>1 DEF TryVote
    <3> QED BY <3>2
  <2> QED BY <2>1, <2>2
<1>2. DOMAIN votes' = TimeIters /\ \A j \in TimeIters : votes'[j] \in {votes[j], v}
  BY <1>1 DEF TimeTypes
<1> QED BY <1>1, <1>2 DEF HonestCandidatesVoted

\* The first Proposal step of a round, t being the time of the new tip's round.
LEMMA FirstStep ==
  ASSUME RoundTimeAssumption, NEW t \in Nat, NEW w \in MinStepTimeout..MaxStepTimeout
  PROVE  \A d : d = t + w + (IF t >= Slot THEN 0 ELSE Slot - t) =>
           /\ d \in Nat /\ t <= d
           /\ t <= Base + 3 * MaxStepTimeout => d <= IterStart(0) + MaxStepTimeout
<1>1. IterStart(0) = Base + 3 * MaxStepTimeout
  BY IterStarts
<1> QED BY <1>1, TimeConstants

\* The start of a round, at any time.
RoundStart ==
  /\ now \in Nat /\ curIter = 0 /\ at = "proposal" /\ began = now
  /\ timeouts \in [Steps -> MinStepTimeout..MaxStepTimeout]
  /\ deadline = now + timeouts["proposal"] + (IF now >= Slot THEN 0 ELSE Slot - now)
  /\ cands = [k \in TimeIters |-> None]
  /\ votes = [k \in TimeIters |-> "None"]
  /\ fails = {} /\ earlier = {}
  /\ ~late => now <= Base + 3 * MaxStepTimeout
  /\ metrics \in [Steps -> Seq(Nat)]

LEMMA StartInv == RoundTimeAssumption /\ RoundStart => TimeInv
<1> SUFFICES ASSUME RoundTimeAssumption, RoundStart PROVE TimeInv
  OBVIOUS
<1>1. curIter \in TimeIters
  BY TimeConstants DEF TimeIters, RoundStart
<1>2. timeouts["proposal"] \in MinStepTimeout..MaxStepTimeout /\ now \in Nat
  BY DEF Steps, RoundStart
<1>3. deadline = now + timeouts["proposal"] + (IF now >= Slot THEN 0 ELSE Slot - now)
  BY DEF RoundStart
<1>4. /\ deadline \in Nat /\ now <= deadline
      /\ now <= Base + 3 * MaxStepTimeout => deadline <= IterStart(0) + MaxStepTimeout
  BY <1>2, <1>3, FirstStep
<1>5. TimeTypes
  BY <1>1, <1>4 DEF TimeTypes, Steps, RoundStart
<1>6. HeaderInv /\ HonestCandidatesVoted
  BY DEF HeaderInv, HonestCandidatesVoted, RoundStart
<1>7. SlotInv /\ Schedule
  BY <1>4 DEF SlotInv, Schedule, RoundStart
<1> QED BY <1>5, <1>6, <1>7 DEF TimeInv

LEMMA StartInvNext ==
  ASSUME RoundTimeAssumption
  PROVE  RoundStart' => TimeInv'
<1>1. RoundStart => TimeInv
  BY StartInv
<1> QED BY <1>1, PTL

LEMMA TimeStart == RoundTimeAssumption /\ TimeInit => TimeInv
<1> SUFFICES ASSUME RoundTimeAssumption, TimeInit PROVE RoundStart
  BY StartInv
<1>1. metrics \in [Steps -> Seq(Nat)]
  BY DEF TimeInit, None
<1>2. timeouts \in [Steps -> MinStepTimeout..MaxStepTimeout]
  BY <1>1, AvgTimeout DEF TimeInit, AdjustBaseTimeouts
<1>3. now \in Nat /\ now <= Base + 3 * MaxStepTimeout
  BY TimeConstants DEF TimeInit
<1> QED BY <1>1, <1>2, <1>3 DEF TimeInit, RoundStart, NextSlotIn

\* The next round starts from a block whose timestamp the clock allows.
LEMMA NewRoundInv ==
  ASSUME RoundTimeAssumption, TimeTypes, NEW ts \in Int, ts <= now + Margin, NewRound(ts)
  PROVE  TimeInv'
<1>1. now' \in Nat /\ now' = now - ts + Base
  <2>1. now' = now - ts + Base
    BY DEF NewRound
  <2>2. now \in Nat /\ Margin \in Nat /\ Base = Margin
    BY TimeConstants DEF TimeTypes, Base
  <2> QED BY <2>1, <2>2
<1>2. timeouts' \in [Steps -> MinStepTimeout..MaxStepTimeout]
  <2>1. \A s \in Steps : ReadAvgTimeout(metrics[s]) \in MinStepTimeout..MaxStepTimeout
    BY AvgTimeout DEF TimeTypes
  <2> QED BY <2>1 DEF NewRound, AdjustBaseTimeouts
<1>3. metrics' \in [Steps -> Seq(Nat)]
  BY KeptTyped DEF NewRound, TimeTypes
<1>4. Max({0, Slot - now'}) = IF now' >= Slot THEN 0 ELSE Slot - now'
  <2>1. PICK x \in Int : x = Slot - now'
    BY <1>1, TimeConstants
  <2>2. Max({0, x}) \in {0, x} /\ Max({0, x}) >= 0 /\ Max({0, x}) >= x /\ Max({0, x}) \in Int
    BY 0 \in Int, MaxOfTwo
  <2> QED BY <1>1, <2>1, <2>2, TimeConstants
<1>5. RoundStart'
  <2>1. /\ curIter' = 0 /\ at' = "proposal" /\ began' = now'
        /\ deadline' = now' + timeouts'["proposal"] + Max({0, Slot - now'})
        /\ cands' = [k \in TimeIters |-> None] /\ votes' = [k \in TimeIters |-> "None"]
        /\ fails' = {} /\ earlier' = {} /\ late' = (now' > Base + 3 * MaxStepTimeout)
    BY DEF NewRound
  <2>2. ~late' => now' <= Base + 3 * MaxStepTimeout
    <3>1. ~late' => ~(now' > Base + 3 * MaxStepTimeout)
      BY <2>1, Zenon
    <3> QED BY <1>1, <3>1, TimeConstants
  <2> QED BY <1>1, <1>2, <1>3, <1>4, <2>1, <2>2 DEF RoundStart
<1> QED BY <1>5, StartInvNext

\* Headers stay good while time passes and attestations are collected, and a
\* new one is good.
LEMMA HeadersKept ==
  ASSUME RoundTimeAssumption, TimeTypes, HeaderInv, now' \in Nat, now <= now',
         fails \subseteq fails', cands' = cands, earlier' = earlier
  PROVE  HeaderInv'
<1>0. now \in Nat
  BY DEF TimeTypes
<1>1. ASSUME NEW k \in TimeIters, cands[k] # None
      PROVE  GoodHeader(cands[k], k, now', fails')
  <2>1. GoodHeader(cands[k], k, now, fails)
    BY <1>1 DEF HeaderInv
  <2> QED BY <1>0, <2>1, GoodLater
<1>2. ASSUME NEW c \in earlier
      PROVE  GoodHeader(c, MaxIters - 1, now', fails')
  <2>1. GoodHeader(c, MaxIters - 1, now, fails)
    BY DEF HeaderInv
  <2> QED BY <1>0, <2>1, GoodLater
<1> QED BY <1>1, <1>2 DEF HeaderInv

LEMMA HeaderAdded ==
  ASSUME TimeTypes, HeaderInv, NEW k \in TimeIters, NEW c,
         GoodHeader(c, k, now, fails), cands' = [cands EXCEPT ![k] = c],
         now' = now, fails' = fails, earlier' = earlier
  PROVE  HeaderInv' /\ DOMAIN cands' = TimeIters
<1>1. DOMAIN cands' = TimeIters /\ cands'[k] = c /\ \A j \in TimeIters \ {k} : cands'[j] = cands[j]
  BY DEF TimeTypes
<1>2. \A j \in TimeIters : cands'[j] # None => GoodHeader(cands'[j], j, now, fails)
  BY <1>1 DEF HeaderInv
<1> QED BY <1>1, <1>2 DEF HeaderInv

LEMMA OwnCandidateInv ==
  ASSUME RoundTimeAssumption, TimeInv, NEW k \in TimeIters, OwnCandidate(k)
  PROVE  TimeInv'
<1>0. TimeTypes /\ HeaderInv /\ SlotInv /\ Schedule /\ HonestCandidatesVoted
  BY DEF TimeInv
<1>1. /\ at = "proposal" /\ at' = "slot" /\ deadline' = now
      /\ UNCHANGED <<now, curIter, began, timeouts, metrics, votes, fails, late, again, earlier, rounds>>
  BY DEF OwnCandidate
<1>2. PICK known \in SUBSET fails : cands' = [cands EXCEPT ![k] = Candidate(k, 0, known)]
  BY DEF OwnCandidate
<1>3. GoodHeader(Candidate(k, 0, known), k, now, fails)
  <2>1. 0 \in Int /\ -Margin <= 0 /\ 0 <= Margin
    BY TimeConstants
  <2> QED BY <1>0, <2>1, CandidateGood
<1>4. HeaderInv' /\ DOMAIN cands' = TimeIters
  BY <1>0, <1>1, <1>2, <1>3, HeaderAdded
<1>5. TimeTypes'
  BY <1>0, <1>1, <1>4 DEF TimeTypes, Steps
<1>6. SlotInv' /\ HonestCandidatesVoted'
  BY <1>0, <1>1 DEF SlotInv, HonestCandidatesVoted
<1>7. Schedule'
  <2>1. at \in Steps /\ IterStart(curIter) \in Nat
    BY <1>0, <1>1, IterStarts DEF Steps, TimeTypes, TimeIters
  <2> QED BY <1>0, <1>1, <2>1, TimeConstants DEF Schedule, TimeTypes
<1> QED BY <1>4, <1>5, <1>6, <1>7 DEF TimeInv

LEMMA CandidateArrivesInv ==
  ASSUME RoundTimeAssumption, TimeInv, NEW k \in TimeIters, CandidateArrives(k)
  PROVE  TimeInv'
<1>0. TimeTypes /\ HeaderInv /\ SlotInv /\ Schedule /\ HonestCandidatesVoted
  BY DEF TimeInv
<1>1. /\ at # "quorum" /\ ~(k = curIter /\ at = "slot")
      /\ UNCHANGED <<now, curIter, began, timeouts, fails, late, again, earlier, rounds>>
      /\ \/ /\ at = "proposal" /\ k = curIter
            /\ ReportElapsed("proposal") /\ at' = "slot" /\ deadline' = now
         \/ UNCHANGED <<metrics, at, deadline>>
  BY DEF CandidateArrives
<1>2. PICK skew \in Skews, known \in SUBSET fails :
        /\ cands' = [cands EXCEPT ![k] = Candidate(k, skew, known)]
        /\ IF k < curIter \/ (k = curIter /\ at # "proposal")
           THEN TryVote(k, Candidate(k, skew, known)) ELSE UNCHANGED votes
  BY DEF CandidateArrives
<1>3. GoodHeader(Candidate(k, skew, known), k, now, fails)
  <2>1. skew \in Int /\ -Margin <= skew /\ skew <= Margin
    BY TimeConstants
  <2> QED BY <1>0, <2>1, CandidateGood
<1>4. HeaderInv' /\ DOMAIN cands' = TimeIters
  BY <1>0, <1>1, <1>2, <1>3, HeaderAdded
<1>5. DOMAIN votes' = TimeIters /\ HonestCandidatesVoted'
  <2>1. CASE k < curIter \/ (k = curIter /\ at # "proposal")
    <3>1. now >= Slot
      BY <1>0, <1>1, <2>1, TimeConstants DEF SlotInv, TimeTypes, TimeIters
    <3>2. TryVote(k, Candidate(k, skew, known))
      BY <1>2, <2>1
    <3> QED BY <1>0, <1>3, <3>1, <3>2, VoteGood
  <2>2. CASE ~(k < curIter \/ (k = curIter /\ at # "proposal"))
    <3>1. votes' = votes
      BY <1>2, <2>2
    <3> QED BY <1>0, <3>1 DEF TimeTypes, HonestCandidatesVoted
  <2> QED BY <2>1, <2>2
<1>6. CASE /\ at = "proposal" /\ k = curIter
           /\ ReportElapsed("proposal") /\ at' = "slot" /\ deadline' = now
  <2>0. "proposal" \in Steps
    BY DEF Steps
  <2>1. metrics' \in [Steps -> Seq(Nat)]
    BY <1>0, <1>6, <2>0, ElapsedTyped
  <2>2. TimeTypes'
    BY <1>0, <1>1, <1>4, <1>5, <1>6, <2>1 DEF TimeTypes, Steps
  <2>3. SlotInv'
    BY <1>0, <1>1, <1>6 DEF SlotInv
  <2>4. Schedule'
    <3>1. at \in Steps /\ IterStart(curIter) \in Nat
      BY <1>0, <1>6, <2>0, IterStarts DEF TimeTypes, TimeIters
    <3>2. now \in Nat /\ deadline \in Nat /\ now <= deadline
      BY <1>0, <3>1 DEF TimeTypes
    <3>3. (~late /\ ~again) => deadline <= IterStart(curIter) + MaxStepTimeout
      BY <1>0, <1>6 DEF Schedule
    <3>4. (~late /\ ~again) => now <= IterStart(curIter) + MaxStepTimeout
      BY <3>1, <3>2, <3>3, TimeConstants
    <3>5. late' = late /\ again' = again /\ now' = now /\ curIter' = curIter /\ at' = "slot"
      BY <1>1, <1>6
    <3>6. IterStart(curIter') = IterStart(curIter)
      BY <3>5
    <3> QED BY <3>4, <3>5, <3>6 DEF Schedule, IterStart
  <2> QED BY <1>4, <1>5, <2>2, <2>3, <2>4 DEF TimeInv
<1>7. CASE UNCHANGED <<metrics, at, deadline>>
  <2>1. TimeTypes'
    BY <1>0, <1>1, <1>4, <1>5, <1>7 DEF TimeTypes
  <2>2. SlotInv' /\ Schedule'
    BY <1>0, <1>1, <1>7 DEF SlotInv, Schedule
  <2> QED BY <1>4, <1>5, <2>1, <2>2 DEF TimeInv
<1> QED BY <1>1, <1>6, <1>7

\* The next iteration starts, after a timeout or a Quorum.
LEMMA NextIterationInv ==
  ASSUME RoundTimeAssumption, TimeInv, curIter # MaxIters - 1, now >= Slot,
         (~late /\ ~again) => now <= IterStart(curIter) + 3 * MaxStepTimeout,
         timeouts' \in [Steps -> MinStepTimeout..MaxStepTimeout],
         StartIteration(curIter + 1, timeouts', cands[curIter + 1]),
         UNCHANGED <<now, metrics, cands, votes, fails, late, again, earlier>>
  PROVE  TimeInv'
<1>0. TimeTypes /\ HeaderInv /\ SlotInv /\ Schedule /\ HonestCandidatesVoted /\ now \in Nat
  BY DEF TimeInv, TimeTypes
<1>2. curIter \in Nat /\ curIter + 1 \in TimeIters
  <2>1. curIter \in 0 .. MaxIters - 1 /\ curIter # MaxIters - 1
    BY <1>0 DEF TimeTypes, TimeIters
  <2>2. MaxIters \in Nat
    BY TimeConstants
  <2> QED BY <2>1, <2>2 DEF TimeIters
<1>5. HeaderInv'
  BY <1>0, HeadersKept
<1>6. PICK w \in MinStepTimeout..MaxStepTimeout : w = timeouts'["proposal"]
  BY DEF Steps
<1>7. /\ curIter' = curIter + 1 /\ began' = now
      /\ \/ at' = "proposal" /\ deadline' = now + w
         \/ at' = "slot" /\ deadline' = now
  <2>1. NextSlotIn = 0
    BY DEF NextSlotIn
  <2>2. w \in Nat
    BY <1>6, TimeConstants
  <2>3. now + w + 0 = now + w
    BY <1>0, <2>2
  <2> QED BY <1>6, <2>1, <2>3 DEF StartIteration, Loop
<1>8. TimeTypes'
  <2>1. deadline' \in Nat /\ now <= deadline'
    BY <1>0, <1>6, <1>7, TimeConstants
  <2> QED BY <1>0, <1>2, <1>7, <2>1 DEF TimeTypes, Steps
<1>9. SlotInv' /\ HonestCandidatesVoted'
  BY <1>0, <1>7 DEF SlotInv, HonestCandidatesVoted
<1>10. Schedule'
  <2>1. /\ IterStart(curIter + 1) = IterStart(curIter) + 3 * MaxStepTimeout
        /\ IterStart(curIter) \in Nat /\ IterStart(curIter + 1) \in Nat
    BY <1>2, IterStarts
  <2>2. (~late /\ ~again) => now <= IterStart(curIter + 1)
    BY <2>1
  <2>3. PICK e \in Nat : e = IterStart(curIter + 1) /\ e = IterStart(curIter')
    BY <1>7, <2>1
  <2>4. (IterStart(curIter))' = e
    BY <2>3 DEF IterStart
  <2> QED BY <1>0, <1>6, <1>7, <2>2, <2>3, <2>4, TimeConstants DEF Schedule
<1> QED BY <1>5, <1>8, <1>9, <1>10 DEF TimeInv

LEMMA IterationInv ==
  ASSUME RoundTimeAssumption, TimeInv, RatificationExpires \/ IterationEnds
  PROVE  TimeInv'
<1>0. TimeTypes /\ SlotInv /\ Schedule
  BY DEF TimeInv
<1>1. CASE RatificationExpires
  <2>1. /\ at = "ratification" /\ curIter # MaxIters - 1 /\ OnTimeout("ratification")
        /\ StartIteration(curIter + 1, timeouts', cands[curIter + 1])
        /\ UNCHANGED <<now, metrics, cands, votes, fails, late, again, earlier>>
    BY <1>1 DEF RatificationExpires, LastStep, LastIter
  <2>2. timeouts' \in [Steps -> MinStepTimeout..MaxStepTimeout]
    <3>1. "ratification" \in Steps
      BY DEF Steps
    <3> QED BY <1>0, <2>1, <3>1, TimeoutTyped
  <2>3. now >= Slot
    BY <1>0, <2>1 DEF SlotInv
  <2>4. (~late /\ ~again) => now <= IterStart(curIter) + 3 * MaxStepTimeout
    <3>1. now \in Nat /\ deadline \in Nat /\ now <= deadline /\ IterStart(curIter) \in Nat
      BY <1>0, <2>1, IterStarts DEF TimeTypes, Steps, TimeIters
    <3> QED BY <1>0, <2>1, <3>1, TimeConstants DEF Schedule
  <2> QED BY <2>1, <2>2, <2>3, <2>4, NextIterationInv
<1>2. CASE IterationEnds
  <2>1. /\ at = "quorum" /\ curIter # MaxIters - 1 /\ now >= Slot /\ timeouts' = timeouts
        /\ StartIteration(curIter + 1, timeouts', cands[curIter + 1])
        /\ UNCHANGED <<now, metrics, cands, votes, fails, late, again, earlier>>
    BY <1>2 DEF IterationEnds, LastIter, SlotOpen, StartIteration, Loop
  <2>2. timeouts' \in [Steps -> MinStepTimeout..MaxStepTimeout]
    BY <1>0, <2>1 DEF TimeTypes
  <2>3. (~late /\ ~again) => now <= IterStart(curIter) + 3 * MaxStepTimeout
    BY <1>0, <2>1 DEF Schedule
  <2> QED BY <2>1, <2>2, <2>3, NextIterationInv
<1> QED BY <1>1, <1>2

LEMMA QuorumInv ==
  ASSUME RoundTimeAssumption, TimeInv, QuorumEnds
  PROVE  TimeInv'
<1>0. TimeTypes /\ HeaderInv /\ SlotInv /\ Schedule /\ HonestCandidatesVoted /\ now \in Nat
  BY DEF TimeInv, TimeTypes
<1>1. /\ at \in Steps /\ at' = "quorum" /\ began' = now /\ deadline' = now
      /\ again' = (again \/ LastIter)
      /\ fails' \in {fails, fails \cup {curIter}}
      /\ UNCHANGED <<now, curIter, timeouts, cands, votes, late, earlier>>
  BY DEF QuorumEnds
<1>2. metrics' \in [Steps -> Seq(Nat)]
  <2>1. metrics \in [Steps -> Seq(Nat)] /\ (at = "ratification" => Elapsed("ratification") \in [Steps -> Seq(Nat)])
    BY <1>0, <1>1, ElapsedTyped DEF TimeTypes
  <2> QED BY <2>1, KeptTyped DEF QuorumEnds
<1>3. fails' \subseteq TimeIters /\ fails \subseteq fails'
  BY <1>0, <1>1 DEF TimeTypes
<1>4. HeaderInv'
  BY <1>0, <1>1, <1>3, HeadersKept
<1>5. TimeTypes'
  BY <1>0, <1>1, <1>2, <1>3 DEF TimeTypes, Steps
<1>6. SlotInv' /\ HonestCandidatesVoted'
  <2>1. HonestCandidatesVoted'
    BY <1>0, <1>1 DEF HonestCandidatesVoted
  <2>2. curIter = MaxIters - 1 => again'
    BY <1>1, Zenon DEF LastIter
  <2> QED BY <1>0, <1>1, <2>1, <2>2 DEF SlotInv, Steps
<1>7. Schedule'
  <2>1. /\ deadline \in Nat /\ now <= deadline /\ IterStart(curIter) \in Nat
        /\ (IterStart(curIter))' = IterStart(curIter)
    BY <1>0, <1>1, IterStarts DEF TimeTypes, TimeIters, IterStart
  <2>2. (~late /\ ~again) => now <= IterStart(curIter) + 3 * MaxStepTimeout
    BY <1>0, <1>1, <2>1, TimeConstants DEF Schedule, Steps
  <2>3. (~late /\ ~again)' => (~late /\ ~again)
    BY <1>1, Zenon
  <2> QED BY <1>1, <2>1, <2>2, <2>3 DEF Schedule
<1> QED BY <1>4, <1>5, <1>6, <1>7 DEF TimeInv

LEMMA AgainInv ==
  ASSUME RoundTimeAssumption, TimeInv, LastIterationAgain
  PROVE  TimeInv'
<1>0. TimeTypes /\ HeaderInv /\ SlotInv /\ HonestCandidatesVoted /\ now \in Nat /\ curIter \in TimeIters
  BY DEF TimeInv, TimeTypes
<1>1. /\ at = "quorum" /\ now >= Slot /\ curIter = MaxIters - 1
      /\ earlier' = earlier \cup {c \in {cands[curIter]} \ {None} : votes[curIter] = "Valid"}
      /\ cands' = [cands EXCEPT ![curIter] = None]
      /\ votes' = [votes EXCEPT ![curIter] = "None"]
      /\ UNCHANGED <<now, timeouts, metrics, fails, late, again, rounds>>
  BY DEF LastIterationAgain, SlotOpen, LastIter
<1>2. PICK w \in MinStepTimeout..MaxStepTimeout : w = timeouts["proposal"]
  BY <1>0 DEF TimeTypes, Steps
<1>3. curIter' = curIter /\ began' = now /\ at' = "proposal" /\ deadline' = now + w
  <2>1. NextSlotIn = 0
    BY <1>1 DEF NextSlotIn
  <2>2. w \in Nat /\ now + w + 0 = now + w
    BY <1>0, <1>2, TimeConstants
  <2> QED BY <1>2, <2>1, <2>2 DEF LastIterationAgain, StartIteration, Loop
<1>4. DOMAIN cands' = TimeIters /\ \A k \in TimeIters : cands'[k] \in {cands[k], None}
  BY <1>0, <1>1 DEF TimeTypes
<1>5. DOMAIN votes' = TimeIters /\ \A k \in TimeIters : votes'[k] \in {votes[k], "None"}
  BY <1>0, <1>1 DEF TimeTypes
<1>6. HeaderInv'
  <2>1. \A k \in TimeIters : cands'[k] # None => GoodHeader(cands'[k], k, now, fails)
    BY <1>0, <1>4 DEF HeaderInv
  <2>2. \A c \in earlier' : GoodHeader(c, MaxIters - 1, now, fails)
    BY <1>0, <1>1 DEF HeaderInv
  <2> QED BY <1>1, <2>1, <2>2 DEF HeaderInv
<1>7. TimeTypes'
  <2>1. deadline' \in Nat /\ now <= deadline'
    BY <1>0, <1>2, <1>3, TimeConstants
  <2> QED BY <1>0, <1>1, <1>3, <1>4, <1>5, <2>1 DEF TimeTypes, Steps
<1>8. SlotInv' /\ HonestCandidatesVoted'
  BY <1>0, <1>1, <1>5 DEF SlotInv, HonestCandidatesVoted
<1>9. again /\ again'
  BY <1>0, <1>1 DEF SlotInv
<1>10. Schedule'
  BY <1>3, <1>9 DEF Schedule
<1> QED BY <1>6, <1>7, <1>8, <1>10 DEF TimeInv

LEMMA ValidationInv ==
  ASSUME RoundTimeAssumption, TimeInv, EnterValidation \/ ValidationEnds
  PROVE  TimeInv'
<1>0. TimeTypes /\ HeaderInv /\ SlotInv /\ Schedule /\ HonestCandidatesVoted
  BY DEF TimeInv
<1>1. curIter \in Nat /\ now \in Nat /\ IterStart(curIter) \in Nat /\ IterStart(0) <= IterStart(curIter)
  BY <1>0, TimeConstants, IterStarts DEF TimeTypes, TimeIters
<1>2. UNCHANGED <<now, curIter, cands, fails, late, again, earlier, rounds>>
  BY DEF EnterValidation, ValidationEnds
<1>3. HeaderInv'
  BY <1>0, <1>1, <1>2, HeadersKept
<1>4. (IterStart(curIter))' = IterStart(curIter)
  BY <1>2 DEF IterStart
<1>5. CASE EnterValidation
  <2>1. /\ at = "slot" /\ now >= Slot /\ TryVote(curIter, cands[curIter])
        /\ UNCHANGED <<timeouts, metrics>>
        /\ at' = "validation" /\ began' = now /\ deadline' = now + timeouts["validation"] + 0
    BY <1>5 DEF EnterValidation, SlotOpen, Loop
  <2>2. DOMAIN votes' = TimeIters /\ HonestCandidatesVoted'
    <3>1. PICK k \in TimeIters : k = curIter
      BY <1>0 DEF TimeTypes
    <3>2. TryVote(k, cands[k]) /\ (cands[k] # None => GoodHeader(cands[k], k, now, fails))
      BY <1>0, <2>1, <3>1 DEF HeaderInv
    <3> QED BY <1>0, <2>1, <3>2, VoteGood
  <2>3. PICK w \in MinStepTimeout..MaxStepTimeout : w = timeouts["validation"]
    BY <1>0 DEF TimeTypes, Steps
  <2>4. w \in Nat /\ deadline' = now + w /\ deadline' \in Nat /\ now <= deadline'
    BY <1>1, <2>1, <2>3, TimeConstants
  <2>5. TimeTypes'
    BY <1>0, <1>2, <2>1, <2>2, <2>4 DEF TimeTypes, Steps
  <2>6. SlotInv'
    BY <1>2, <2>1 DEF SlotInv
  <2>7. Schedule'
    BY <1>0, <1>1, <1>2, <1>4, <2>1, <2>3, <2>4, TimeConstants DEF Schedule
  <2> QED BY <1>3, <2>2, <2>5, <2>6, <2>7 DEF TimeInv
<1>6. CASE ValidationEnds
  <2>1. /\ at = "validation" /\ votes' = votes
        /\ at' = "ratification" /\ began' = now /\ deadline' = now + timeouts["ratification"] + 0
    BY <1>6 DEF ValidationEnds, Loop
  <2>2. /\ timeouts' \in [Steps -> MinStepTimeout..MaxStepTimeout]
        /\ metrics' \in [Steps -> Seq(Nat)]
    <3>0. "validation" \in Steps
      BY DEF Steps
    <3>1. CASE ReportElapsed("validation") /\ UNCHANGED timeouts
      BY <1>0, <3>0, <3>1, ElapsedTyped DEF TimeTypes
    <3>2. CASE OnTimeout("validation") /\ UNCHANGED metrics
      BY <1>0, <3>0, <3>2, TimeoutTyped DEF TimeTypes
    <3> QED BY <1>6, <3>1, <3>2 DEF ValidationEnds
  <2>3. PICK w \in MinStepTimeout..MaxStepTimeout : w = timeouts["ratification"]
    BY <1>0 DEF TimeTypes, Steps
  <2>4. w \in Nat /\ deadline' = now + w /\ deadline' \in Nat /\ now <= deadline'
    BY <1>1, <2>1, <2>3, TimeConstants
  <2>5. TimeTypes'
    BY <1>0, <1>2, <2>1, <2>2, <2>4 DEF TimeTypes, Steps
  <2>6. SlotInv' /\ HonestCandidatesVoted'
    BY <1>0, <1>2, <2>1 DEF SlotInv, HonestCandidatesVoted
  <2>7. Schedule'
    <3>1. now <= deadline /\ deadline \in Nat
      BY <1>0, <2>1 DEF TimeTypes, Steps
    <3> QED BY <1>0, <1>1, <1>2, <1>4, <2>1, <2>3, <2>4, <3>1, TimeConstants DEF Schedule
  <2> QED BY <1>3, <2>5, <2>6, <2>7 DEF TimeInv
<1> QED BY <1>5, <1>6

LEMMA ClockInv ==
  ASSUME RoundTimeAssumption, TimeInv,
         ProposalExpires \/ OpenConsensus \/ Tick \/ \E k \in TimeIters : FailAttested(k)
  PROVE  TimeInv'
<1>0. TimeTypes /\ HeaderInv /\ SlotInv /\ Schedule /\ HonestCandidatesVoted
  BY DEF TimeInv
<1>1. /\ curIter \in Nat /\ now \in Nat /\ deadline \in Nat
      /\ IterStart(curIter) \in Nat /\ IterStart(0) <= IterStart(curIter)
      /\ IterStart(0) = Base + 3 * MaxStepTimeout
  BY <1>0, TimeConstants, IterStarts DEF TimeTypes, TimeIters
<1>2. /\ UNCHANGED <<curIter, began, deadline, metrics, cands, votes, late, again, earlier, rounds>>
      /\ now' \in {now, now + 1} /\ fails \subseteq fails' /\ fails' \subseteq TimeIters
  BY <1>0 DEF ProposalExpires, OpenConsensus, Tick, FailAttested, TimeTypes
<1>3. (IterStart(curIter))' = IterStart(curIter)
  BY <1>2 DEF IterStart
<1>4. HeaderInv' /\ HonestCandidatesVoted'
  <2>1. now' \in Nat /\ now <= now'
    BY <1>1, <1>2
  <2>2. HeaderInv'
    BY <1>0, <1>2, <2>1, HeadersKept
  <2> QED BY <1>0, <1>2, <2>2 DEF HonestCandidatesVoted
<1>5. CASE ProposalExpires
  <2>1. /\ at = "proposal" /\ now = deadline /\ at' = "slot" /\ now' = now /\ OnTimeout("proposal")
    BY <1>5 DEF ProposalExpires
  <2>2. timeouts' \in [Steps -> MinStepTimeout..MaxStepTimeout]
    <3>1. "proposal" \in Steps
      BY DEF Steps
    <3> QED BY <1>0, <2>1, <3>1, TimeoutTyped
  <2>3. TimeTypes'
    BY <1>0, <1>2, <2>1, <2>2 DEF TimeTypes, Steps
  <2>4. SlotInv' /\ Schedule'
    BY <1>0, <1>2, <1>3, <2>1 DEF SlotInv, Schedule
  <2> QED BY <1>4, <2>3, <2>4 DEF TimeInv
<1>6. CASE OpenConsensus
  <2>1. at = "ratification" /\ at' = "open" /\ now' = now /\ timeouts' = timeouts
    BY <1>6 DEF OpenConsensus, LastStep
  <2>2. TimeTypes'
    BY <1>0, <1>2, <2>1 DEF TimeTypes, Steps
  <2>3. SlotInv' /\ Schedule'
    BY <1>0, <1>2, <2>1 DEF SlotInv, Schedule
  <2> QED BY <1>4, <2>2, <2>3 DEF TimeInv
<1>7. CASE Tick
  <2>0. /\ at' = at /\ now' = now + 1 /\ timeouts' = timeouts
        /\ at \in {"slot", "quorum"} => ~(now >= Slot)
        /\ at \in Steps => now < deadline
    BY <1>7 DEF Tick, SlotOpen, Steps
  <2>1. /\ at' = at /\ now' = now + 1 /\ timeouts' = timeouts
        /\ at \in {"slot", "quorum"} => now < Slot
        /\ at \in Steps => now < deadline
    BY <1>1, <2>0, TimeConstants
  <2>2. TimeTypes'
    BY <1>0, <1>1, <1>2, <2>1 DEF TimeTypes
  <2>3. SlotInv'
    BY <1>0, <1>1, <1>2, <2>1, TimeConstants DEF SlotInv
  <2>4. Schedule'
    BY <1>0, <1>1, <1>2, <1>3, <2>1, TimeConstants DEF Schedule
  <2> QED BY <1>4, <2>2, <2>3, <2>4 DEF TimeInv
<1>8. CASE \E k \in TimeIters : FailAttested(k)
  <2>1. at' = at /\ now' = now /\ timeouts' = timeouts
    BY <1>8 DEF FailAttested
  <2>2. TimeTypes' /\ SlotInv' /\ Schedule'
    BY <1>0, <1>2, <1>3, <2>1 DEF TimeTypes, SlotInv, Schedule
  <2> QED BY <1>4, <2>2 DEF TimeInv
<1> QED BY <1>5, <1>6, <1>7, <1>8

\* A block whose header passes the checks starts the next round.
LEMMA AcceptInv ==
  ASSUME RoundTimeAssumption, TimeInv,
         AcceptEmergency \/ AcceptCandidate
  PROVE  TimeInv'
<1>0. TimeTypes /\ HeaderInv /\ now \in Nat /\ Margin \in Nat
  BY TimeConstants DEF TimeInv, TimeTypes
<1>1. ASSUME NEW h, ExecuteChecks(h) = "Ok", h.ts \in Int
      PROVE  h.ts <= now + Margin
  <2>1. TimeCheck(h) = "Ok"
    BY <1>1 DEF ExecuteChecks
  <2>2. ~(h.ts > now + Margin)
    BY <2>1 DEF TimeCheck
  <2> QED BY <1>0, <1>1, <2>2
<1>2. CASE AcceptCandidate
  <2>1. PICK c : /\ \/ \E k \in TimeIters : c = cands[k] /\ c # None
                    \/ c \in earlier
                 /\ ExecuteChecks(c) = "Ok" /\ NewRound(c.ts)
    BY <1>2 DEF AcceptCandidate
  <2>2. c.ts \in Int
    BY <1>0, <2>1 DEF HeaderInv, GoodHeader
  <2>3. c.ts <= now + Margin
    BY <1>1, <2>1, <2>2
  <2> QED BY <1>0, <2>1, <2>2, <2>3, NewRoundInv
<1>3. CASE AcceptEmergency
  <2>1. PICK ts \in {now, now + Margin} : NewRound(ts)
    BY <1>3 DEF AcceptEmergency
  <2>2. ts \in Int /\ ts <= now + Margin
    BY <1>0
  <2> QED BY <1>0, <2>1, <2>2, NewRoundInv
<1> QED BY <1>2, <1>3

LEMMA TimeStep == RoundTimeAssumption /\ TimeInv /\ [TimeNext]_timeVars => TimeInv'
<1> SUFFICES ASSUME RoundTimeAssumption, TimeInv, [TimeNext]_timeVars PROVE TimeInv'
  OBVIOUS
<1>1. CASE \E k \in TimeIters : OwnCandidate(k)
  BY <1>1, OwnCandidateInv
<1>2. CASE \E k \in TimeIters : CandidateArrives(k)
  BY <1>2, CandidateArrivesInv
<1>3. CASE AcceptEmergency \/ AcceptCandidate
  BY <1>3, AcceptInv
<1>4. CASE ProposalExpires \/ OpenConsensus \/ Tick \/ \E k \in TimeIters : FailAttested(k)
  BY <1>4, ClockInv
<1>5. CASE EnterValidation \/ ValidationEnds
  BY <1>5, ValidationInv
<1>6. CASE RatificationExpires \/ IterationEnds
  BY <1>6, IterationInv
<1>8. CASE QuorumEnds
  BY <1>8, QuorumInv
<1>9. CASE LastIterationAgain
  BY <1>9, AgainInv
<1>7. CASE UNCHANGED timeVars
  <2>1. IterStart(curIter)' = IterStart(curIter)
    BY <1>7 DEF timeVars, IterStart
  <2>2. TimeTypes' /\ SlotInv' /\ Schedule' /\ HonestCandidatesVoted'
    BY <1>7, <2>1 DEF timeVars, TimeInv, TimeTypes, SlotInv, Schedule, HonestCandidatesVoted
  <2>3. HeaderInv'
    BY <1>7 DEF timeVars, TimeInv, HeaderInv, GoodHeader
  <2> QED BY <2>2, <2>3 DEF TimeInv
<1> QED BY <1>1, <1>2, <1>3, <1>4, <1>5, <1>6, <1>7, <1>8, <1>9 DEF TimeNext

\* The count of a header: of the n iterations before it those in `failed` carry
\* an attestation.
LEMMA CountUnattested ==
  ASSUME RoundTimeAssumption, NEW n \in 0..MaxIters, NEW failed \in SUBSET (0..(n - 1))
  PROVE  (n - Cardinality(failed)) % 256 = Cardinality((0..(n - 1)) \ failed)
<1>1. n \in Nat /\ n < 256 /\ 0 \in Int /\ n - 1 \in Int
  BY TimeConstants
<1>2. IsFiniteSet(0..(n - 1)) /\ Cardinality(0..(n - 1)) = n
  <2>1. PICK m \in Int : m = n - 1
    BY <1>1
  <2>2. IsFiniteSet(0..m) /\ Cardinality(0..m) = IF 0 > m THEN 0 ELSE m - 0 + 1
    BY <1>1, FS_Interval
  <2>3. (IF 0 > m THEN 0 ELSE m - 0 + 1) = n
    BY <1>1, <2>1
  <2> QED BY <2>1, <2>2, <2>3
<1>3. IsFiniteSet(failed) /\ Cardinality(failed) \in Nat /\ Cardinality(failed) <= n
  BY <1>2, FS_Subset, FS_CardinalityType
<1>4. Cardinality((0..(n - 1)) \ failed) = n - Cardinality((0..(n - 1)) \cap failed)
  BY <1>2, FS_Difference
<1>5. (0..(n - 1)) \cap failed = failed
  OBVIOUS
<1>6. PICK c \in Nat : c = Cardinality(failed)
  BY <1>3
<1>7. n - c \in 0..255
  BY <1>1, <1>3, <1>6
<1>8. (n - c) % 256 = n - c
  BY <1>7
<1> QED BY <1>4, <1>5, <1>6, <1>8

LEMMA CountsHold == RoundTimeAssumption /\ TimeInv => PniCountsUnattested
<1> SUFFICES ASSUME RoundTimeAssumption, TimeInv PROVE PniCountsUnattested
  OBVIOUS
<1>0. /\ MaxIters \in Nat /\ MaxIters < 255 /\ Relax \in Nat
      /\ fails \subseteq 0..(MaxIters - 1) /\ HeaderInv
  BY TimeConstants DEF TimeInv, TimeTypes, TimeIters
<1>1. ASSUME NEW k \in TimeIters, NEW c, GoodHeader(c, k, now, fails)
      PROVE  Pni(c) = Cardinality({j \in TimeIters : j < c.iter /\ j \notin c.failed})
  <2>1. /\ c.iter = k /\ c.failed \subseteq fails
        /\ \A j \in c.failed : j < k
    BY <1>1 DEF GoodHeader
  <2>2. k \in 0..MaxIters /\ k \in Int /\ MaxIters \in Int /\ k < MaxIters
    BY <1>0 DEF TimeIters
  <2>3. Min({k, MaxIters}) = k
    <3>1. Min({k, MaxIters}) \in {k, MaxIters} /\ Min({k, MaxIters}) <= k
      BY <2>2, MinOfTwo
    <3> QED BY <2>2, <3>1
  <2>4. c.failed \in SUBSET (0..(k - 1))
    <3> SUFFICES ASSUME NEW j \in c.failed PROVE j \in 0..(k - 1)
      OBVIOUS
    <3>1. j \in 0..(MaxIters - 1) /\ j < k
      BY <1>0, <2>1
    <3> QED BY <1>0, <2>2, <3>1
  <2>5. {j \in TimeIters : j < k /\ j \notin c.failed} = (0..(k - 1)) \ c.failed
    BY <2>2 DEF TimeIters
  <2> QED BY <2>1, <2>2, <2>3, <2>4, <2>5, CountUnattested DEF Pni
<1>2. Pni(EmergencyBlock(now, fails))
        = Cardinality({j \in TimeIters : j < EmergencyBlock(now, fails).iter /\ j \notin EmergencyBlock(now, fails).failed})
  <2> DEFINE failed == GetFailedAtts(fails, Relax)
  <2>1. EmergencyBlock(now, fails).iter = 255 /\ EmergencyBlock(now, fails).failed = failed
    BY DEF EmergencyBlock, EmergencyBlockIter
  <2>2. failed \in SUBSET (0..(MaxIters - 1))
    BY <1>0 DEF GetFailedAtts
  <2> HIDE DEF failed
  <2>3. Min({255, MaxIters}) = MaxIters
    <3>1. 255 \in Int /\ MaxIters \in Int
      BY <1>0
    <3>2. Min({255, MaxIters}) \in {255, MaxIters} /\ Min({255, MaxIters}) <= MaxIters
      BY <3>1, MinOfTwo
    <3> QED BY <1>0, <3>2
  <2>4. {j \in TimeIters : j < 255 /\ j \notin failed} = (0..(MaxIters - 1)) \ failed
    BY <1>0 DEF TimeIters
  <2>5. MaxIters \in 0..MaxIters
    BY <1>0
  <2> QED BY <2>1, <2>2, <2>3, <2>4, <2>5, CountUnattested DEF Pni
<1>3. MaxIters - 1 \in TimeIters
  BY <1>0, TimeConstants DEF TimeIters
<1>4. \A c \in ({cands[k] : k \in TimeIters} \ {None}) \cup earlier : \E k \in TimeIters : GoodHeader(c, k, now, fails)
  BY <1>0, <1>3 DEF HeaderInv
<1> QED BY <1>1, <1>2, <1>4 DEF PniCountsUnattested

\* When the checks first let an Emergency Block through, the iterations are over.
LEMMA NotEarly == RoundTimeAssumption /\ TimeInv => EmergencyNotEarly
<1> SUFFICES ASSUME RoundTimeAssumption, TimeInv, ~late, ~again,
                    ExecuteChecks(EmergencyBlock(now + Margin, fails)) = "Ok"
             PROVE  at = "open" \/ (LastStep /\ deadline - now <= Margin)
  BY DEF EmergencyNotEarly
<1>1. TimeTypes /\ Schedule /\ SlotInv
  BY DEF TimeInv
<1>2. now \in Nat /\ deadline \in Nat /\ curIter \in Nat /\ curIter < MaxIters /\ MaxIters \in Nat
      /\ MaxStepTimeout \in Nat /\ Margin \in Nat /\ Margin < MaxStepTimeout
  BY <1>1, TimeConstants DEF TimeTypes, TimeIters
<1>3. PICK e \in Nat : e = IterStart(MaxIters) /\ e = Base + MinEmergencyBlockTime
  BY <1>2, IterStarts
<1>4. now + Margin >= e
  <2> DEFINE h == EmergencyBlock(now + Margin, fails)
  <2>1. h.ts = now + Margin /\ h.iter = EmergencyBlockIter
    BY DEF EmergencyBlock
  <2>2. TimeCheck(h) = "Ok"
    BY DEF ExecuteChecks
  <2> HIDE DEF h
  <2>3. ~(h.ts < Base + MinEmergencyBlockTime)
    BY <2>1, <2>2 DEF TimeCheck, IsEmergencyBlock
  <2> QED BY <1>2, <1>3, <2>1, <2>3
<1>5. PICK s \in Nat : s = IterStart(curIter) /\ s + 3 * MaxStepTimeout <= e
  <2>1. /\ IterStart(curIter) \in Nat /\ IterStart(curIter + 1) = IterStart(curIter) + 3 * MaxStepTimeout
        /\ IterStart(curIter + 1) <= IterStart(MaxIters)
    <3>1. curIter + 1 \in Nat /\ curIter + 1 <= MaxIters
      BY <1>2
    <3> QED BY <1>2, <3>1, IterStarts
  <2> QED BY <1>3, <2>1
<1>6. CASE at \in {"proposal", "slot", "validation"}
  <2>1. now <= s + 2 * MaxStepTimeout
    <3>1. at # "slot" => now <= deadline
      BY <1>1, <1>6 DEF TimeTypes, Steps
    <3>2. /\ at = "slot" => now <= s + MaxStepTimeout
          /\ at # "slot" => deadline <= s + MaxStepTimeout \/ deadline <= s + 2 * MaxStepTimeout
      BY <1>1, <1>5, <1>6 DEF Schedule
    <3> QED BY <1>2, <3>1, <3>2
  <2> QED BY <1>2, <1>4, <1>5, <2>1
<1>7. ASSUME curIter # MaxIters - 1, now <= s + 3 * MaxStepTimeout
      PROVE  FALSE
  <2>1. curIter + 2 \in Nat /\ curIter + 1 \in Nat /\ curIter + 2 <= MaxIters /\ curIter + 2 = (curIter + 1) + 1
    BY <1>2, <1>7
  <2>2. /\ IterStart(curIter + 1) = s + 3 * MaxStepTimeout
        /\ IterStart(curIter + 2) = IterStart(curIter + 1) + 3 * MaxStepTimeout
        /\ IterStart(curIter + 2) <= e
    BY <1>2, <1>3, <1>5, <2>1, IterStarts
  <2> QED BY <1>2, <1>4, <1>5, <1>7, <2>2
<1>8. CASE at = "ratification"
  <2>1. now <= deadline /\ deadline <= s + 3 * MaxStepTimeout
    BY <1>1, <1>2, <1>5, <1>8 DEF Schedule, TimeTypes, Steps
  <2>2. curIter = MaxIters - 1
    BY <1>2, <1>5, <1>7, <2>1
  <2>3. deadline - now <= Margin
    BY <1>2, <1>4, <1>5, <2>1
  <2> QED BY <1>8, <2>2, <2>3 DEF LastStep, LastIter
<1>9. CASE at = "quorum"
  BY <1>1, <1>5, <1>7, <1>9 DEF Schedule, SlotInv
<1> QED BY <1>1, <1>6, <1>8, <1>9 DEF TimeTypes, Steps

\* A node never refuses, or stays silent about, the candidate of an honest
\* generator because of its timestamp or of its failed iterations, and the
\* count of non-attested iterations of a header never wraps around: for every
\* number of iterations below 255, all step timeouts, minimum block times and
\* clock skews within the margin of the header check.
THEOREM HonestHeadersAlwaysPass ==
  ASSUME RoundTimeAssumption
  PROVE  TimeSpec => []HonestHeadersPass
<1>1. TimeInit => TimeInv
  BY TimeStart
<1>2. TimeInv /\ [TimeNext]_timeVars => TimeInv'
  BY TimeStep
<1>3. TimeInv => HonestHeadersPass
  BY CountsHold DEF TimeInv, HonestHeadersPass
<1> QED BY <1>1, <1>2, <1>3, PTL DEF TimeSpec

\* In a round that began within one iteration of the tip's timestamp, the checks
\* of a header let an Emergency Block through only when Open Consensus has begun,
\* when a Quorum has ended the last iteration (which then runs again), or when at
\* most the clock margin of the last step is left.
THEOREM EmergencyBlocksNotEarly ==
  ASSUME RoundTimeAssumption
  PROVE  TimeSpec => []EmergencyNotEarly
<1>1. TimeInit => TimeInv
  BY TimeStart
<1>2. TimeInv /\ [TimeNext]_timeVars => TimeInv'
  BY TimeStep
<1>3. TimeInv => EmergencyNotEarly
  BY NotEarly
<1> QED BY <1>1, <1>2, <1>3, PTL DEF TimeSpec
=============================================================================
