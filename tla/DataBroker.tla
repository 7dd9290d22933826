---------------------------- MODULE DataBroker -----------------------------
(***************************************************************************)
(* The data broker: requests of peers (GetBlocks, GetMempool, Inv,         *)
(* GetResource) arrive through the network listener in a bounded queue and *)
(* are answered by concurrent tasks, a bounded number at a time, that read *)
(* the store get by get while the acceptor stores and reverts blocks.      *)
(***************************************************************************)
EXTENDS LedgerStore

CONSTANTS
  Requests,      \* the requests peers send
  MaxOngoing,    \* max_ongoing_requests
  MaxQueue,      \* max_queue_size
  MaxInv,        \* max_inv_entries
  MaxSends,      \* bound: requests a behaviour receives
  MaxReverts     \* bound: reverts

\* The payload of GetBlocks is one locator hash.
ASSUME RequestsAssumption ==
  \A m \in Requests : m.kind = "GetBlocks" => m.items = <<[by |-> "hash", key |-> m.items[1].key]>>

VARIABLES
  db,        \* the store
  cleaned,   \* FALSE between the commit of a block and the cleanup
  mailbox,   \* the broker's inbound queue
  ongoing,   \* the permit number -> the task that holds it
  reply,     \* the last message sent: an answer, or a forwarded request
  sends, reverts, panics

brokerVars == <<db, cleaned, mailbox, ongoing, reply, sends, reverts, panics>>

Permits == 1 .. MaxOngoing
NoReply == [kind |-> "none"]

-----------------------------------------------------------------------------
(* The acceptor and consensus write *)

\* History, for the properties: a task knows the tips there were since it began.
Witness(tip) ==
  ongoing' = [p \in DOMAIN ongoing |-> [ongoing[p] EXCEPT !.tips = @ \cup {tip}]]

\* try_accept_block: the block and its records in one transaction.
CommitBlock(b) ==
  /\ cleaned
  /\ Tree[b].prev = db.tip /\ b \notin db.ledger
  /\ VerifyFaults(db, Height(b), Faults(b))
  /\ db' = StoreBlock(db, b)
  /\ cleaned' = FALSE
  /\ Witness(db'.tip)
  /\ UNCHANGED <<mailbox, reply, sends, reverts, panics>>

\* The cleanup is a transaction of its own.
CleanUpDb ==
  /\ ~cleaned
  /\ db' = CleanUp(db)
  /\ cleaned' = TRUE
  /\ UNCHANGED <<mailbox, ongoing, reply, sends, reverts, panics>>

\* try_revert, down to any target: all blocks above it in one transaction.
RevertTo(b) ==
  /\ cleaned /\ reverts < MaxReverts
  /\ b \in db.ledger /\ b # db.tip
  /\ db' = RevertBlocks(db, Height(db.tip) - Height(b))
  /\ reverts' = reverts + 1
  /\ Witness(db'.tip)
  /\ UNCHANGED <<cleaned, mailbox, reply, sends, panics>>

\* A candidate of the current round, and the result of its validation.
StoreRoundCandidate(b) ==
  /\ cleaned /\ Tree[b].prev = db.tip /\ b \notin db.candidates
  /\ db' = StoreCandidate(db, b)
  /\ UNCHANGED <<cleaned, mailbox, ongoing, reply, sends, reverts, panics>>

StoreRoundResult(b) ==
  /\ b \in db.candidates /\ Tree[b].prev = db.tip /\ IterKey(b) \notin db.results
  /\ db' = StoreValidationResult(db, IterKey(b))
  /\ UNCHANGED <<cleaned, mailbox, ongoing, reply, sends, reverts, panics>>

-----------------------------------------------------------------------------
(* Requests *)

\* on_message: the message is queued, or lost when the queue is full or the
\* filters are locked by the arrival of another message.
Receive(m) ==
  /\ sends < MaxSends
  /\ sends' = sends + 1
  /\ \/ Len(mailbox) < MaxQueue /\ mailbox' = Append(mailbox, m)
     \/ UNCHANGED mailbox
  /\ UNCHANGED <<db, cleaned, ongoing, reply, reverts, panics>>

\* A task: the gets it still has to do, what it has found, and the block whose
\* light record it has read (half) but not its transactions and faults.
Task(m) ==
  [req |-> m, todo |-> m.items, got |-> <<>>, half |-> {}, prev |-> {}, tips |-> {db.tip}]

\* execute: a permit, then a message, then the task; the request is dropped at
\* once if it has expired.
StartRequest(p) ==
  /\ p \notin DOMAIN ongoing /\ mailbox # <<>>
  /\ mailbox' = Tail(mailbox)
  /\ ongoing' = IF Head(mailbox).expired THEN ongoing ELSE Put(ongoing, p, Task(Head(mailbox)))
  /\ UNCHANGED <<db, cleaned, reply, sends, reverts, panics>>

\* The task ends; its permit is released whether it answered, failed or panicked.
End(p) == ongoing' = Restrict(ongoing, DOMAIN ongoing \ {p})

Limit(m) == IF m.max = 0 \/ m.max > MaxInv THEN MaxInv ELSE m.max

\* One item is looked up.  Inv collects what is missing and stops at its limit,
\* GetResource what is found, GetBlocks what follows the locator.
Collect(t, item, found) ==
  LET keep == IF t.req.kind = "Inv" THEN found = {} ELSE found # {}
      got == IF ~keep \/ t.req.kind = "GetBlocks" THEN t.got
             ELSE Append(t.got, IF t.req.kind = "Inv" THEN item ELSE [item |-> item, value |-> found])
      rest == IF Len(got) >= Limit(t.req) THEN <<>> ELSE Tail(t.todo)
  IN [t EXCEPT !.todo = rest, !.got = got, !.half = {}]

Continue(p, t) == ongoing' = [ongoing EXCEPT ![p] = t] /\ UNCHANGED <<reply, panics>>

\* light_block: the first get of a block, by hash or by the height index.
HashOf(item) ==
  IF item.by = "height"
  THEN IF item.key \in DOMAIN db.heights THEN {db.heights[item.key]} ELSE {}
  ELSE {item.key}

ReadLight(p) ==
  LET t == ongoing[p]
      item == Head(t.todo)
      light == HashOf(item) \cap db.ledger
  IN /\ t.todo # <<>> /\ t.half = {}
     /\ \/ item.by \in {"height", "hash"}
        \/ item.by = "candidate" /\ t.req.kind = "GetResource"
     /\ IF light # {} THEN Continue(p, [t EXCEPT !.half = light])
        ELSE IF item.by = "candidate" THEN Continue(p, Collect(t, item, light \cup ({item.key} \cap db.candidates)))
        ELSE IF t.req.kind = "GetBlocks"
        THEN End(p) /\ UNCHANGED <<reply, panics>>   \* could not find locator block
        ELSE Continue(p, Collect(t, item, {}))
     /\ UNCHANGED <<db, cleaned, mailbox, sends, reverts>>

\* The records a light block names, as multi_get finds them.
ReadRecords(b) == (Txs(b) \subseteq db.txs) /\ (Faults(b) \subseteq db.faults)

\* The second get of a block; the task panics (unwrap) when a record is gone.
ReadBlock(p) ==
  LET t == ongoing[p]
      b == CHOOSE x \in t.half : TRUE
  IN /\ t.half # {}
     /\ IF ~ReadRecords(b) THEN End(p) /\ panics' = panics + 1 /\ UNCHANGED reply
        ELSE IF t.req.kind = "GetBlocks"
        THEN Continue(p, [t EXCEPT !.half = {}, !.prev = {b}, !.todo = <<>>])
        ELSE Continue(p, Collect(t, Head(t.todo), {b}))
     /\ UNCHANGED <<db, cleaned, mailbox, sends, reverts>>

\* Items that take one get.
ReadOther(p) ==
  LET t == ongoing[p]
      item == Head(t.todo)
      found == CASE item.by = "candidate" -> {item.key} \cap db.candidates
                 [] item.by = "iteration" -> CandidateByIteration(db, item.key)
                 [] item.by = "tx"        -> {item.key} \cap db.pool
                 [] item.by = "result"    -> {item.key} \cap db.results
                 [] OTHER -> {}
  IN /\ t.todo # <<>> /\ t.half = {}
     /\ \/ item.by \in {"iteration", "tx", "result"}
        \/ item.by = "candidate" /\ t.req.kind = "Inv"
     /\ Continue(p, Collect(t, item, found))
     /\ UNCHANGED <<db, cleaned, mailbox, sends, reverts>>

\* Mutated form of LinksTo: whichever block has the next height.
LinksToAny(b, t) == TRUE

\* The check of handle_get_blocks against a chain that changes under it.
LinksTo(b, t) == {Tree[b].prev} = t.prev

\* handle_get_blocks, once the locator is read: the block at the next height.
ReadNext(p) ==
  LET t == ongoing[p]
      h == 1 + Height(CHOOSE x \in t.prev : TRUE)
      more == h \in DOMAIN db.heights /\ Len(t.got) < MaxInv
      b == db.heights[h]
  IN /\ t.prev # {}
     /\ IF ~more
        THEN /\ End(p) /\ UNCHANGED panics
             /\ IF t.got = <<>> THEN UNCHANGED reply
                ELSE reply' = [kind |-> "Inv", locator |-> t.req.items[1].key, list |-> t.got, tips |-> t.tips]
        ELSE IF b \in db.ledger /\ LinksTo(b, t)
        THEN Continue(p, [t EXCEPT !.got = Append(@, b), !.prev = {b}])
        ELSE End(p) /\ UNCHANGED <<reply, panics>>   \* inconsistent chain
     /\ UNCHANGED <<db, cleaned, mailbox, sends, reverts>>

\* The last item is looked up: an answer, an error, or a GetResource that was
\* not found and still has hops is sent on.
Answer(p) ==
  LET t == ongoing[p]
      m == t.req
  IN /\ t.todo = <<>> /\ t.half = {} /\ t.prev = {}
     /\ CASE m.kind = "Inv" /\ t.got # <<>> -> reply' = [kind |-> "GetResource", list |-> t.got, hops |-> 1]
          [] m.kind = "GetResource" /\ t.got # <<>> -> reply' = [kind |-> "Blocks", list |-> t.got, tips |-> t.tips]
          [] m.kind = "GetResource" /\ t.got = <<>> /\ m.hops > 1 ->
               reply' = [kind |-> "GetResource", list |-> m.items, hops |-> m.hops - 1]
          [] m.kind = "GetMempool" /\ db.pool # {} -> reply' = [kind |-> "Pool", list |-> db.pool]
          [] OTHER -> UNCHANGED reply
     /\ End(p)
     /\ UNCHANGED <<db, cleaned, mailbox, sends, reverts, panics>>

-----------------------------------------------------------------------------
BrokerInit ==
  /\ db = EmptyStore
  /\ cleaned = TRUE
  /\ mailbox = <<>>
  /\ ongoing = <<>>
  /\ reply = NoReply
  /\ sends = 0 /\ reverts = 0 /\ panics = 0

BrokerNext ==
  \/ \E b \in AllBlocks : CommitBlock(b) \/ RevertTo(b) \/ StoreRoundCandidate(b) \/ StoreRoundResult(b)
  \/ CleanUpDb
  \/ \E m \in Requests : Receive(m)
  \/ \E p \in Permits : StartRequest(p)
  \/ \E p \in DOMAIN ongoing : ReadLight(p) \/ ReadBlock(p) \/ ReadOther(p) \/ ReadNext(p) \/ Answer(p)

BrokerSpec == BrokerInit /\ [][BrokerNext]_brokerVars

-----------------------------------------------------------------------------
(* The ledger families agree with each other: they hold exactly the branch *)
(* of the tip, by hash and by height, with every record of its blocks      *)
(* (store_block, delete_block), through forks that share transactions.     *)
LedgerWhole ==
  LET branch == Branch(db.tip, 0)
  IN /\ db.ledger = branch
     /\ db.heights = [h \in 0 .. Height(db.tip) |-> CHOOSE b \in branch : Height(b) = h]
     /\ db.txs = UNION {Txs(b) : b \in branch}
     /\ db.faults = UNION {Faults(b) : b \in branch}

(* No fault is on the ledger twice, in either order of its two messages    *)
(* (verify_faults, Fault::same), so nobody is punished twice for it.       *)
FaultsOnce ==
  \A b, c \in db.ledger : \A f \in Faults(b), g \in Faults(c) : {f[1], f[2]} = {g[1], g[2]} => b = c

(* The hashes a peer gets for a GetBlocks are the stretch of the ledger      *)
(* that followed its locator at one moment of the task, although they are  *)
(* read height by height and the ledger may be reorganised between two     *)
(* reads (handle_get_blocks).                                              *)
HashesOfOneMoment ==
  reply.kind = "Inv" =>
    \E tip \in reply.tips :
      /\ reply.locator \in Branch(tip, 0)
      /\ \A i \in 1 .. Len(reply.list) :
           reply.list[i] \in Branch(tip, 0) /\ Height(reply.list[i]) = Height(reply.locator) + i

(* A block sent for a hash or a height is the one asked for, and was on the *)
(* ledger while the task ran, although its hash, its light record and its  *)
(* transactions are read one after the other (Ledger::block).  The blocks  *)
(* of one GetResource may be of different branches: each is looked up on   *)
(* its own (handle_get_resource).                                          *)
BlocksOnceOnLedger ==
  reply.kind = "Blocks" =>
    \A i \in 1 .. Len(reply.list) : reply.list[i].item.by \in {"hash", "height"} =>
      \A b \in reply.list[i].value :
        /\ reply.list[i].item.key = IF reply.list[i].item.by = "hash" THEN b ELSE Height(b)
        /\ \E tip \in reply.tips : b \in Branch(tip, 0)

(* Through every reorganisation the ledger holds exactly the branch of its *)
(* tip, and no fault is on it twice.                                       *)
LedgerSound == LedgerWhole /\ FaultsOnce

(* What a peer is sent was on the ledger while its request was served: the  *)
(* hashes of a GetBlocks all at one moment, every block of a GetResource   *)
(* at some moment and where it was asked for (handle_get_blocks,           *)
(* handle_get_resource).                                                   *)
AnswersFromLedger == HashesOfOneMoment /\ BlocksOnceOnLedger
=============================================================================
