------------------------------ MODULE SyncFSM ------------------------------
(***************************************************************************)
(* The chain service of one node that is behind the network, or on another *)
(* branch (node/src/chain/fsm.rs, fsm/insync.rs, fsm/outofsync.rs,         *)
(* fsm/stalled.rs, fallback.rs): the InSync / OutOfSync machine, the       *)
(* presync handshake, the rolling pool of blocks, the stalled-chain        *)
(* machine, the blacklist and the cache of attestations, and whether the   *)
(* consensus task runs.  The acceptor is reduced to what it answers: a     *)
(* block is accepted, its header is refused, or its execution is.          *)
(*                                                                         *)
(* The whole state of the service is one record, and a handler is an       *)
(* operator from the record to the record after it; .ret is what the       *)
(* handler returned and .out the messages it provokes.                     *)
(***************************************************************************)
EXTENDS Naturals, FiniteSets, SequencesExt

CONSTANTS
  Net,          \* height of the network's branch
  Fork,         \* the side branch leaves the network's branch at this height
  SideTop,      \* height of the side branch
  SideIter,     \* iteration of the side branch's first block; the main one has 1
  LastFinal,    \* height of the last final block, at most Fork
  Hollow,       \* heights with a block whose header verifies but not its content
  MaxReq,       \* MAX_BLOCKS_TO_REQUEST
  MaxPool,      \* MAX_POOL_BLOCKS_SIZE
  Attempts,     \* timeouts before OutOfSync gives up
  MaxUpsets     \* bound: messages lost, plus Success Quorums from outside the task

SyncHeights == 0..Net

\* What the constants must satisfy.
SyncAssumption ==
  /\ Net \in Nat \ {0} /\ Fork \in SyncHeights /\ SideTop \in Fork..(Net - 1)
  /\ LastFinal \in 0..Fork
  /\ Hollow \subseteq (LastFinal + 1)..(Net - 1)
  /\ SideIter \in Nat
  /\ MaxReq \in Nat \ {0} /\ MaxPool \in Nat \ {0} /\ Attempts \in Nat
  /\ MaxUpsets \in Nat

\* A block is a branch and a height.
Blk(br, h) == [br |-> br, h |-> h]
Main(h) == Blk("main", h)
NoBlk == Blk("none", 0)
AllBlocks == {Main(h) : h \in SyncHeights} \cup {Blk("side", h) : h \in (Fork + 1)..SideTop}
               \cup {Blk("hollow", h) : h \in Hollow}

\* header.prev_block_hash
ParentOf(b) ==
  IF b.br = "side" /\ b.h > Fork + 1 THEN Blk("side", b.h - 1) ELSE Main(b.h - 1)

\* header.iteration: a hollow block would win against any other.
IterOf(b) == CASE b.br = "hollow" -> 0 [] b.br = "side" /\ b.h = Fork + 1 -> SideIter [] OTHER -> 1

\* "p" answers the requests sent to one peer, "alive" those sent to several.
Peers == {"p", "alive"}
NoPresync == [peer |-> "none", start |-> 0, remote |-> 0, pool |-> {}, late |-> FALSE]

VARIABLES
  node,   \* SimpleFSM and what it owns
  wire,   \* blocks on their way to the node: [blk, src, attested]
  upsets  \* how many messages were lost, and Success Quorums came

syncVars == <<node, wire, upsets>>

-----------------------------------------------------------------------------
(* The acceptor, as the service sees it *)

\* The block of the local chain at a height up to the tip's.
LocalAt(s, h) == IF s.tip.br = "side" /\ h > Fork THEN Blk("side", h) ELSE Main(h)
InLedger(s, b) == b.h <= s.tip.h /\ b = LocalAt(s, b.h)

\* try_accept_block succeeds.
Acceptable(t, b) == ParentOf(b) = t /\ b.h > 0 /\ b.br # "hollow"
AcceptBlock(s, b, enable) == [s EXCEPT !.tip = b, !.cons = enable]

\* update_tip at the end of try_revert aborts the consensus task.
RevertTo(s, b) == [s EXCEPT !.tip = b, !.cons = FALSE]

\* verify_header_against_local
HeaderVerifies(local, remote) == ParentOf(remote) = ParentOf(local)

Ask(s, heights, from) ==
  [s EXCEPT !.out = @ \cup {[blk |-> Main(h), src |-> from, attested |-> TRUE] :
                              h \in heights \cap SyncHeights}]

-----------------------------------------------------------------------------
(* OutOfSync *)

EmptyPool == [h \in SyncHeights |-> NoBlk]

\* OutOfSyncImpl::new; also what is left of it once it is dropped.
FreshOutOfSync(s, mode) ==
  [s EXCEPT !.mode = mode, !.pool = EmptyPool, !.lo = 0, !.hi = 0, !.lastReq = 0,
            !.peer = "none", !.attempts = Attempts, !.late = FALSE]

\* The first MaxReq heights of the range that are not in the pool.
MissingHeights(s) ==
  LET missing == {h \in s.lo..s.hi : s.pool[h] = NoBlk} IN
  {h \in missing : Cardinality({g \in missing : g < h}) < MaxReq}

\* request_pool_missing_blocks; the callers but on_quorum keep what it returns.
RequestPoolMissing(s, keep) ==
  LET missing == MissingHeights(s)
      asked   == Ask(s, missing, s.peer)
  IN IF keep /\ missing # {} THEN [asked EXCEPT !.lastReq = Max(missing)] ELSE asked

DrainFrom(pool, h) == [k \in SyncHeights |-> IF k >= h THEN pool[k] ELSE NoBlk]

\* The consecutive blocks of the pool that follow b: the highest one accepted.
PoolRun(s, b) ==
  LET Prev(k) == IF k = b.h + 1 THEN b ELSE s.pool[k - 1] IN
  Max({k \in b.h..s.hi : \A j \in (b.h + 1)..k :
         s.pool[j] # NoBlk /\ Acceptable(Prev(j), s.pool[j])})

\* A successor of the tip: accept it and what follows in the pool.  A pooled
\* block that is refused ends the handler with an error, before the pool is
\* drained; a gap below what was requested is asked for again.
OosSuccessor(s, b) ==
  LET top  == PoolRun(s, b)
      last == IF top = b.h THEN b ELSE s.pool[top]
      s1   == [AcceptBlock(s, last, FALSE) EXCEPT !.late = FALSE, !.lo = top + 1]
      refused == top < s.hi /\ s.pool[top + 1] # NoBlk
      gap     == /\ top < s.hi /\ s.pool[top + 1] = NoBlk
                 /\ \E h \in SyncHeights :
                      /\ s.pool[h] # NoBlk
                      /\ \A g \in SyncHeights : s.pool[g] # NoBlk => h <= g
                      /\ h < s.lastReq
      s2   == IF gap THEN Ask(s1, {top + 1}, "alive") ELSE s1
  IN IF refused THEN [s1 EXCEPT !.ret = "err"]
     ELSE IF top >= s.hi THEN [s2 EXCEPT !.pool = EmptyPool, !.cons = TRUE, !.ret = "exit"]
     ELSE [s2 EXCEPT !.pool = DrainFrom(@, top + 1)]

\* A block further ahead: into the pool, in place of a higher one when full.
OosPool(s, b) ==
  LET s1 == IF s.lastReq < s.tip.h + (MaxReq \div 3) THEN RequestPoolMissing(s, TRUE) ELSE s
      pooled == {h \in SyncHeights : s.pool[h] # NoBlk}
  IN IF s.pool[b.h] # NoBlk THEN s
     ELSE IF Cardinality(pooled) < MaxPool THEN [s1 EXCEPT !.pool[b.h] = b]
     ELSE IF Max(pooled) > b.h
          THEN [s1 EXCEPT !.pool = [@ EXCEPT ![Max(pooled)] = NoBlk, ![b.h] = b]]
     ELSE s1

\* OutOfSyncImpl::on_block_event
OosBlock(s, b) ==
  LET s1 == [s EXCEPT !.hi = IF b.h > @ THEN b.h ELSE @] IN
  IF s.attempts = 0 /\ s.late THEN [s EXCEPT !.cons = TRUE, !.ret = "exit"]
  ELSE IF b.h <= s.tip.h THEN s
  ELSE IF b.h > s.tip.h + 1 THEN OosPool(s1, b)
  ELSE IF Acceptable(s.tip, b) THEN OosSuccessor(s1, b)
  ELSE [s1 EXCEPT !.ret = "err"]

\* OutOfSyncImpl::on_entering: range, pool and requests, then every block of
\* the pool is handled as if it had just come, and what that returns is dropped.
EnterOutOfSync(s) ==
  LET pre == s.presync
      s1  == [FreshOutOfSync(s, "OutOfSync") EXCEPT
                !.presync = NoPresync, !.peer = pre.peer,
                !.lo = s.tip.h + 1, !.hi = pre.remote,
                !.pool = [h \in SyncHeights |->
                            IF \E b \in pre.pool : b.h = h
                            THEN CHOOSE b \in pre.pool : b.h = h ELSE NoBlk]]
      s2  == RequestPoolMissing(s1, TRUE)
      handle(t, h) == IF s1.pool[h] = NoBlk THEN t ELSE [OosBlock(t, s1.pool[h]) EXCEPT !.ret = "ok"]
  IN FoldLeft(handle, s2, [i \in 1..Net |-> i])

\* OutOfSync -> InSync: InSyncImpl::on_entering may still take the block, and
\* when that fails the node stays OutOfSync.
LeaveOutOfSync(s, b) ==
  LET s1 == [s EXCEPT !.pool = DrainFrom(@, s.tip.h), !.ret = "ok"]
      s2 == FreshOutOfSync(s1, "InSync")
  IN IF b.h # s.tip.h + 1 THEN s2
     ELSE IF Acceptable(s.tip, b) THEN AcceptBlock(s2, b, TRUE)
     ELSE [s1 EXCEPT !.ret = "err"]

-----------------------------------------------------------------------------
(* InSync *)

\* Fallback: revert to the parent, blacklist the local block, accept the other.
InSyncFallback(s, b) ==
  LET s1 == [RevertTo(s, ParentOf(b)) EXCEPT !.black = @ \cup {LocalAt(s, b.h)}] IN
  IF Acceptable(s1.tip, b) THEN AcceptBlock(s1, b, TRUE) ELSE [s1 EXCEPT !.ret = "err"]

\* A block of a height the node already has.  (A local block with the lower
\* iteration is sent back to the peer.)
InSyncPast(s, b) ==
  IF /\ ~InLedger(s, b)
     /\ b.h > LastFinal
     /\ InLedger(s, ParentOf(b))
     /\ IterOf(b) < IterOf(LocalAt(s, b.h))
     /\ HeaderVerifies(LocalAt(s, b.h), b)
  THEN InSyncFallback(s, b) ELSE s

\* A successor of the tip; the one presync asked that peer for starts the sync.
InSyncNext(s, b, p, fin) ==
  LET s1 == [AcceptBlock(s, b, TRUE) EXCEPT !.black = IF fin THEN {} ELSE @] IN
  IF ~Acceptable(s.tip, b) THEN [s EXCEPT !.ret = "err"]
  ELSE IF p = s.presync.peer /\ b.h = s.presync.start + 1
       THEN EnterOutOfSync(s1)
  ELSE s1

StartPresync(s, p, remote, pool) ==
  Ask([s EXCEPT !.presync = [peer |-> p, start |-> s.tip.h, remote |-> remote,
                             pool |-> pool, late |-> FALSE]],
      {s.tip.h + 1}, p)

\* InSyncImpl::on_block_event; p is "none" for a block without metadata.
InSyncBlock(s, b, p, fin) ==
  IF b.h <= s.tip.h THEN InSyncPast(s, b)
  ELSE IF b.h = s.tip.h + 1 THEN InSyncNext(s, b, p, fin)
  ELSE IF p = "none" THEN s
  ELSE IF s.presync = NoPresync THEN StartPresync(s, p, b.h, {b})
  ELSE IF s.presync.peer = p THEN [s EXCEPT !.presync.pool = {x \in @ : x.h # b.h} \cup {b}]
  ELSE s

-----------------------------------------------------------------------------
(* The stalled-chain machine *)

\* request_missing_blocks: GetBlocks from the last final block; the inventory
\* that comes back is answered with requests for what the ledger lacks.
RequestSinceFinal(s) ==
  Ask(s, {h \in (LastFinal + 1)..Net : ~InLedger(s, Main(h))}, "alive")

\* Mutated form of SmOnRunning: a tip that is too old goes unnoticed.
SmNeverStalls(s) == s

SmOnRunning(s) ==
  IF s.smLate THEN [RequestSinceFinal(s) EXCEPT !.sm = "Stalled", !.smLate = FALSE] ELSE s

SmOnStalled(s, b) ==
  IF b.h <= s.smTip.h /\ ~InLedger(s, b) /\ b.h > 0 /\ HeaderVerifies(LocalAt(s, b.h), b)
  THEN [s EXCEPT !.sm = "OnFork", !.smLate = FALSE, !.smFork = <<LocalAt(s, b.h), b>>] ELSE s

\* reset: a new tip, and its own clock.  Each state has one clock, smLate.
SmReset(s) ==
  [s EXCEPT !.smTip = s.tip, !.smLate = FALSE, !.sm = "Running", !.smFork = <<NoBlk, NoBlk>>]

\* on_block_received: a tip that changed resets the machine.
SmBlock(s, b) ==
  LET s1 == IF s.smTip = s.tip THEN s
            ELSE SmReset(s)
  IN CASE s1.sm = "Running" -> SmOnRunning(s1)
       [] s1.sm = "Stalled" -> SmOnStalled(s1, b)
       [] s1.sm = "OnFork"  -> s1

\* SimpleFSM: leave the fork, or forget the blacklist while stalled.
StalledRecovery(s) ==
  LET local  == s.smFork[1]
      remote == s.smFork[2]
      s1     == RevertTo(s, ParentOf(local))
  IN IF s.sm = "OnFork"
     THEN IF Acceptable(s1.tip, remote)
          THEN SmReset([AcceptBlock(s1, remote, TRUE) EXCEPT !.black = @ \cup {local}])
          ELSE [s1 EXCEPT !.ret = "err"]
     ELSE IF s.sm = "Stalled" THEN [s EXCEPT !.black = {}]
     ELSE s

-----------------------------------------------------------------------------
(* SimpleFSM *)

\* The handler of the current state and its transition.
StateBlock(s, b, p, fin) ==
  IF s.mode = "InSync" THEN InSyncBlock(s, b, p, fin)
  ELSE LET r == OosBlock(s, b) IN IF r.ret = "exit" THEN LeaveOutOfSync(r, b) ELSE r

\* on_block_event for an attested block: an error of the state skips the
\* stalled-chain machine.
BlockEvent(s, b, p, fin) ==
  LET r == StateBlock(s, b, p, fin) IN
  IF b \in s.black THEN s
  ELSE IF r.ret = "err" THEN r
  ELSE StalledRecovery(SmBlock(r, b))

\* What the service sent reaches the peers, and their answers the wire.
Settle(s) ==
  node' = [s EXCEPT !.ret = "ok", !.out = {}]

SyncInit ==
  /\ node \in {[tip |-> t, mode |-> "InSync", presync |-> NoPresync, pool |-> EmptyPool,
                lo |-> 0, hi |-> 0, lastReq |-> 0, peer |-> "none", attempts |-> Attempts,
                late |-> FALSE, sm |-> "Running", smFork |-> <<NoBlk, NoBlk>>, smTip |-> t,
                smLate |-> FALSE, black |-> {}, att |-> {}, cons |-> TRUE,
                ret |-> "ok", out |-> {}] :
               t \in {Main(LastFinal)} \cup {Blk("side", h) : h \in (Fork + 1)..SideTop}}
  /\ wire = {[blk |-> Blk("hollow", h), src |-> "p", attested |-> TRUE] : h \in Hollow}
  /\ upsets = 0

\* A block message.  One without attestation needs a cached one.
DeliverBlock(m, fin) ==
  LET s == IF m.attested THEN node ELSE [node EXCEPT !.att = @ \ {m.blk}]
      r == IF m.attested \/ (m.blk \in node.att /\ m.blk \notin node.black)
           THEN BlockEvent(s, m.blk, m.src, fin) ELSE node
  IN /\ m \in wire
     /\ Settle(r)
     /\ wire' = (wire \ {m}) \cup r.out
     /\ UNCHANGED upsets

LoseBlock(m) ==
  /\ m \in wire
  /\ upsets < MaxUpsets
  /\ upsets' = upsets + 1
  /\ wire' = wire \ {m}
  /\ UNCHANGED node

\* on_quorum for the round above the network's top.
QuorumOf(s) ==
  IF s.mode = "InSync"
  THEN IF s.presync = NoPresync /\ Net > s.tip.h + 1 THEN StartPresync(s, "p", Net, {}) ELSE s
  ELSE IF s.hi < Net THEN RequestPoolMissing([s EXCEPT !.hi = Net], FALSE) ELSE s

QuorumDue == QuorumOf(node) # node

OnQuorum ==
  /\ QuorumDue
  /\ Settle(QuorumOf(node))
  /\ wire' = wire \cup QuorumOf(node).out
  /\ UNCHANGED upsets

\* on_success_quorum: the candidate is in the database, or it is asked for and
\* its attestation kept.
OnSuccessQuorum(h, known) ==
  LET b == Main(h)
      r == IF known THEN BlockEvent(node, b, "none", FALSE)
           ELSE [node EXCEPT !.att = @ \cup {b},
                             !.out = {[blk |-> b, src |-> "alive", attested |-> FALSE]}]
  IN /\ node.cons
     /\ upsets < MaxUpsets
     /\ ~InLedger(node, b)
     /\ known => h \in {node.tip.h, node.tip.h + 1}
     /\ ~known => b \notin node.att
     /\ upsets' = upsets + 1
     /\ Settle(r)
     /\ wire' = wire \cup r.out

\* The heartbeat of the stalled-chain machine and of the current state.
SmHeartbeat(s) ==
  CASE s.sm = "Running" -> SmOnRunning(s)
    [] s.sm = "Stalled" -> IF s.smLate THEN [RequestSinceFinal(s) EXCEPT !.smLate = FALSE] ELSE s
    [] s.sm = "OnFork"  -> s

\* Mutated form of StateHeartbeat: the attempts are not counted.
HeartbeatNoCount(s) ==
  IF s.mode = "InSync"
  THEN IF s.presync.late THEN [s EXCEPT !.presync = NoPresync] ELSE s
  ELSE IF ~s.late THEN s
  ELSE IF s.attempts = 0 THEN [FreshOutOfSync(s, "InSync") EXCEPT !.cons = TRUE]
  ELSE [RequestPoolMissing(s, TRUE) EXCEPT !.late = FALSE]

StateHeartbeat(s) ==
  IF s.mode = "InSync"
  THEN IF s.presync.late THEN [s EXCEPT !.presync = NoPresync] ELSE s
  ELSE IF ~s.late THEN s
  ELSE IF s.attempts = 0 THEN [FreshOutOfSync(s, "InSync") EXCEPT !.cons = TRUE]
  ELSE [RequestPoolMissing(s, TRUE) EXCEPT !.late = FALSE, !.attempts = @ - 1]

HeartbeatDue == StateHeartbeat(SmHeartbeat(node)) # node

Heartbeat ==
  LET r == StateHeartbeat(SmHeartbeat(node)) IN
  /\ HeartbeatDue
  /\ Settle(r)
  /\ wire' = wire \cup r.out
  /\ UNCHANGED upsets

\* Time: each timeout of the service passes while nothing else happens.
PresyncExpires ==
  /\ node.presync # NoPresync /\ ~node.presync.late
  /\ node' = [node EXCEPT !.presync.late = TRUE]
  /\ UNCHANGED <<wire, upsets>>

SyncRuns == node.mode = "OutOfSync" /\ ~node.late
AcceptRuns == node.sm = "Running" /\ ~node.smLate
StalledRuns == node.sm = "Stalled" /\ ~node.smLate

SyncExpires ==
  /\ SyncRuns
  /\ node' = [node EXCEPT !.late = TRUE]
  /\ UNCHANGED <<wire, upsets>>

AcceptExpires ==
  /\ AcceptRuns
  /\ node' = [node EXCEPT !.smLate = TRUE]
  /\ UNCHANGED <<wire, upsets>>

StalledExpires ==
  /\ StalledRuns
  /\ node' = [node EXCEPT !.smLate = TRUE]
  /\ UNCHANGED <<wire, upsets>>

AttestationExpires(b) ==
  /\ b \in node.att
  /\ node' = [node EXCEPT !.att = @ \ {b}]
  /\ UNCHANGED <<wire, upsets>>

SyncNext ==
  \/ \E m \in wire, fin \in BOOLEAN : DeliverBlock(m, fin)
  \/ \E m \in wire : LoseBlock(m)
  \/ OnQuorum
  \/ \E h \in 1..Net, known \in BOOLEAN : OnSuccessQuorum(h, known)
  \/ Heartbeat
  \/ PresyncExpires \/ SyncExpires \/ AcceptExpires \/ StalledExpires
  \/ \E b \in AllBlocks : AttestationExpires(b)

\* One of the messages on the wire that carry the network's block of a height.
Carried(h) == \E m \in wire : m.blk = Main(h)
DeliverHeight(h) == \E m \in wire, fin \in BOOLEAN : m.blk = Main(h) /\ DeliverBlock(m, fin)

\* Weak fairness of what keeps happening (written out where ENABLED would run
\* a whole handler): heartbeats, clocks, the quorums of the network's current round,
\* and the delivery of a message that is not lost.
SyncFairness ==
  /\ []<>(~HeartbeatDue) \/ []<><<Heartbeat>>_syncVars
  /\ WF_syncVars(PresyncExpires)
  /\ WF_syncVars(SyncExpires)
  /\ WF_syncVars(AcceptExpires)
  /\ WF_syncVars(StalledExpires)
  /\ []<>(~QuorumDue) \/ []<><<OnQuorum>>_syncVars
  /\ \A h \in 1..Net : []<>(~Carried(h)) \/ []<><<DeliverHeight(h)>>_syncVars

\* Presync is not always outrun by its timeout: if the block it waits for is on
\* the wire again and again, it is delivered in time again and again.
Awaited == /\ node.presync # NoPresync
           /\ \E m \in wire : m.src = node.presync.peer /\ m.blk = Main(node.presync.start + 1)
PresyncFairness ==
  <>[](~Awaited) \/ []<><<Awaited /\ \E fin \in BOOLEAN :
      DeliverBlock([blk |-> Main(node.presync.start + 1), src |-> node.presync.peer,
                    attested |-> TRUE], fin)>>_syncVars

SyncSpec == SyncInit /\ [][SyncNext]_syncVars /\ SyncFairness /\ PresyncFairness

-----------------------------------------------------------------------------
(* Properties *)

\* However far behind or on whichever branch it starts, and although messages
\* are lost and a hollow block is refused by the acceptor (so that the handler
\* of the state fails and skips the stalled-chain machine), the node ends on
\* the network's branch at the network's height and stays there
\* (SimpleFSM::on_block_event, on_heartbeat_event, Fallback::try_revert).
CatchesUp == <>[](node.tip = Main(Net))

\* The node comes back to work from whatever happens to it: it never stays in
\* OutOfSync, where a peer that stops answering uses up the attempts of
\* on_heartbeat, and its consensus task never stays aborted, neither by a fallback
\* that reverts the tip and is then refused nor by a synchronisation that gives up
\* (restart_consensus, try_accept_block with enable_consensus).
NodeResumes == []<>(node.mode = "InSync") /\ []<>(node.cons)
=============================================================================
