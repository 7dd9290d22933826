------------------------------ MODULE Archive ------------------------------
(***************************************************************************)
(* The archive of an archive node.  The VM sends the events of a block it  *)
(* accepts straight to the archivist; the finalized and deleted blocks     *)
(* travel through the node's event channel and the chain event streamer.   *)
(* Both channels are bounded and their senders drop what does not fit.     *)
(* The archivist keeps two stores: sqlite tables of unfinalized and        *)
(* finalized blocks, one transaction per message, and a moonlight index in *)
(* rocksdb that it fills afterwards, one transaction per entry.            *)
(***************************************************************************)
EXTENDS Naturals, FiniteSets, SequencesExt

CONSTANTS
  Blocks,        \* hash |-> [prev, height, events]
  Root,          \* the genesis block, final from the start
  NodeCap,       \* capacity of the node's event channel
  ArchiveCap,    \* capacity of the archive channel
  DefaultMax,    \* DEFAULT_MAX_COUNT
  MaxSwitches,   \* bound: reverts
  MaxCrashes     \* bound: crashes

VARIABLES
  chain,     \* the accepted blocks above the genesis block, by height
  finalTo,   \* the height of the last final block
  nodeEvents, \* the node's event channel
  archival,  \* the archive channel
  sql,       \* the sqlite tables
  index,     \* the moonlight index
  loading,   \* what tl_moonlight still has to write
  cached,    \* last_finalized_block_height of the archivist
  dropped,   \* a send found its channel full
  switches, crashes

archiveVars == <<chain, finalTo, nodeEvents, archival, sql, index, loading,
                 cached, dropped, switches, crashes>>

None == "none"

\* A contract event: the transaction it belongs to, its contract, its topic
\* and the accounts, the refund and the memo it names.
Accounts == UNION {{e.from, e.to, e.back} : e \in UNION {Range(Blocks[b].events) : b \in DOMAIN Blocks}}
              \ {None}
Memos == {e.memo : e \in UNION {Range(Blocks[b].events) : b \in DOMAIN Blocks}} \ {None}
Origins == {e.origin : e \in UNION {Range(Blocks[b].events) : b \in DOMAIN Blocks}}

Heights == {Blocks[b].height : b \in DOMAIN Blocks}

-----------------------------------------------------------------------------
(* From events to index entries *)

\* group_by_origins: a group per transaction, in the order of the hashes.
GroupByOrigins(events, height) ==
  LET origins == SetToSortSeq({e.origin : e \in Range(events)}, <)
      Group(o) == SelectSeq(events, LAMBDA e : e.origin = o)
  IN [i \in DOMAIN origins |->
        [id |-> [height |-> height, origin |-> origins[i]], events |-> Group(origins[i])]]

\* The cases of the closure of filter_and_convert.
IsFlow(e) ==
  /\ e.contract = "transfer"
  /\ \/ e.topic = "moonlight"
     \/ e.topic \in {"withdraw", "mint", "convert"} /\ e.to # None

Outflows(e) == IF e.topic = "moonlight" THEN <<e.from>> ELSE <<>>

Inflows(e, alone) ==
  IF e.topic # "moonlight" THEN <<e.to>>
  ELSE LET back == IF e.back \in {None, e.from, e.to} THEN <<>> ELSE <<e.back>>
       IN (IF e.to # None THEN <<e.to>> ELSE IF alone THEN <<e.from>> ELSE <<>>) \o back

\* `any` stops at the first in- or outflow of a group: only that event is
\* converted, whatever follows it.
FirstFlow(group) ==
  SelectInSeq(group.events, IsFlow)

\* filter_and_convert, and the order in which tl_moonlight writes the result:
\* inflows, outflows, the groups, the memos.
FilterAndConvert(groups) ==
  LET flows == SelectSeq(groups, LAMBDA g : FirstFlow(g) # 0)
      Event(g) == g.events[FirstFlow(g)]
      Entries(kind, keys, g) ==
        [i \in DOMAIN keys |-> [kind |-> kind, key |-> keys[i], id |-> g.id, events |-> <<>>]]
      In(g) == Entries("in", Inflows(Event(g), Len(g.events) = 1), g)
      Out(g) == Entries("out", Outflows(Event(g)), g)
      Put(g) == <<[kind |-> "group", key |-> g.id.origin, id |-> g.id, events |-> g.events]>>
      Memo(g) == Entries("memo",
        IF Event(g).topic = "moonlight" /\ Event(g).memo # None THEN <<Event(g).memo>> ELSE <<>>, g)
      Of(Op(_)) == FlattenSeq([i \in DOMAIN flows |-> Op(flows[i])])
  IN Of(In) \o Of(Out) \o Of(Put) \o Of(Memo)

-----------------------------------------------------------------------------
(* The sqlite tables.  An operation that fails leaves them as they were.   *)

StoreUnfinalizedEvents(s, height, hash, events) ==
  IF \E r \in s.unfinalized : r.height = height \/ r.hash = hash
  THEN s
  ELSE [s EXCEPT !.unfinalized = @ \cup {[height |-> height, hash |-> hash, events |-> events]}]

\* fetch_last_finalized_block, 0 where it finds no row.
LastFinalized(s) == Max({r.height : r \in s.finalized} \cup {0})

\* The id sqlite gives to the next finalized row.  The schema checks that a row's
\* id is its height, so after a gap every later finalization is refused.
NextId(s) == LastFinalized(s) + 1

CanFinalize(s, hash) ==
  \E r \in s.unfinalized :
    r.hash = hash /\ r.height = NextId(s) /\ \A q \in s.finalized : q.hash # hash

UnfinalizedRow(s, hash) == CHOOSE r \in s.unfinalized : r.hash = hash

\* The sqlite part of finalize_archive_data.
FinalizeRow(s, hash) ==
  LET r == UnfinalizedRow(s, hash)
      groups == GroupByOrigins(r.events, r.height)
  IN [unfinalized |-> s.unfinalized \ {r},
      finalized |-> s.finalized \cup
        {[height |-> r.height, hash |-> hash,
          phoenix |-> \E e \in Range(r.events) : e.contract = "transfer" /\ e.topic = "phoenix",
          events |-> FlattenSeq([i \in DOMAIN groups |-> groups[i].events])]}]

RemoveBlockAndEvents(s, hash) ==
  [s EXCEPT !.unfinalized = {r \in @ : r.hash # hash}]

\* fetch_events_by_height and fetch_events_by_hash: the unfinalized events if
\* there are any, else the finalized ones.
EventsOf(unfinalized, finalized) ==
  LET Of(rows) == FlattenSeq([i \in 1 .. Cardinality(rows) |-> SetToSeq(rows)[i].events])
  IN IF Of(unfinalized) # <<>> THEN Of(unfinalized) ELSE Of(finalized)

FetchEventsByHeight(s, h) ==
  EventsOf({r \in s.unfinalized : r.height = h}, {r \in s.finalized : r.height = h})
FetchEventsByHash(s, b) ==
  EventsOf({r \in s.unfinalized : r.hash = b}, {r \in s.finalized : r.hash = b})

-----------------------------------------------------------------------------
(* The moonlight index and its queries *)

\* append_moonlight_tx
AppendMoonlightTx(list, key, id) == [list EXCEPT ![key] = Append(@, id)]

\* put_moonlight_events refuses a transaction it already holds.
Holds(x, origin) == x.group[origin] # <<>>

WriteEntry(x, e) ==
  CASE e.kind = "in" -> [x EXCEPT !.in = AppendMoonlightTx(@, e.key, e.id)]
    [] e.kind = "out" -> [x EXCEPT !.out = AppendMoonlightTx(@, e.key, e.id)]
    [] e.kind = "memo" -> [x EXCEPT !.memo = AppendMoonlightTx(@, e.key, e.id)]
    [] e.kind = "group" -> [x EXCEPT !.group[e.key] = e.events]

EmptyIndex ==
  [in |-> [a \in Accounts |-> <<>>], out |-> [a \in Accounts |-> <<>>],
   memo |-> [k \in Memos |-> <<>>], group |-> [o \in Origins |-> <<>>]]

\* Mutated form of LowerBound: the search is for a greater height.
LowerBoundAfter(list, target) ==
  LET search[left \in 0 .. Len(list), right \in 0 .. Len(list)] ==
        LET mid == left + ((right - left) \div 2)
        IN IF left >= right THEN left
           ELSE IF list[mid + 1].height <= target THEN search[mid + 1, right]
                ELSE search[left, mid]
  IN search[0, Len(list)]

\* lower_bound: binary search, left inclusive and right exclusive.
LowerBound(list, target) ==
  LET search[left \in 0 .. Len(list), right \in 0 .. Len(list)] ==
        LET mid == left + ((right - left) \div 2)
        IN IF left >= right THEN left
           ELSE IF list[mid + 1].height < target THEN search[mid + 1, right]
                ELSE search[left, mid]
  IN search[0, Len(list)]

\* limit: what is above `to` is popped from the end, then the page is cut.
Limit(list, from, to, max, page) ==
  LET kept == SubSeq(list, 1, Max({0} \cup {i \in DOMAIN list : list[i].height <= to}))
      skip == LowerBound(kept, from) + page * max
  IN SubSeq(kept, skip + 1, Min({skip + max, Len(kept)}))

\* intersection: the binary search by height finds some entry of that height,
\* and only that entry's origin is compared.
Intersection(ins, outs) ==
  SelectSeq(ins, LAMBDA id :
    LET found == {i \in DOMAIN outs : outs[i].height = id.height}
    IN found # {} /\ outs[CHOOSE i \in found : TRUE].origin = id.origin)

\* moonlight_groups: idents whose events are missing are skipped.
MoonlightGroups(x, ids) ==
  LET known == SelectSeq(ids, LAMBDA id : Holds(x, id.origin))
  IN [i \in DOMAIN known |-> [id |-> known[i], events |-> x.group[known[i].origin]]]

Top == Max(Heights)

GetMoonlightInflowTx(x, receiver) == x.in[receiver]
GetMoonlightOutflowTx(x, sender) == x.out[sender]

\* None is any sender or receiver.
FetchMoonlightEventIdent(x, sender, receiver, from, to, max, page) ==
  LET ins == GetMoonlightInflowTx(x, receiver)
      outs == GetMoonlightOutflowTx(x, sender)
  IN Limit(IF sender = None THEN ins
           ELSE IF receiver = None THEN outs ELSE Intersection(ins, outs), from, to, max, page)

FetchMoonlightHistory(x, sender, receiver, from, to, max, page) ==
  MoonlightGroups(x, FetchMoonlightEventIdent(x, sender, receiver, from, to, max, page))

Earlier(g, h) ==
  \/ g.id.height < h.id.height
  \/ g.id.height = h.id.height /\ g.id.origin < h.id.origin

\* full_moonlight_history: both directions, each cut at the default, sorted by
\* height and origin, repeats removed.
FullMoonlightHistory(x, a) ==
  SetToSortSeq(Range(FetchMoonlightHistory(x, a, None, 0, Top, DefaultMax, 0))
                 \cup Range(FetchMoonlightHistory(x, None, a, 0, Top, DefaultMax, 0)),
    Earlier)

-----------------------------------------------------------------------------
(* The node *)

Idle == [height |-> 0, entries |-> <<>>]

Init ==
  /\ chain = <<>> /\ finalTo = 0
  /\ nodeEvents = <<>> /\ archival = <<>>
  /\ sql = [unfinalized |-> {}, finalized |-> {}]
  /\ index = EmptyIndex /\ loading = Idle /\ cached = 0
  /\ dropped = FALSE /\ switches = 0 /\ crashes = 0

Tip == IF chain = <<>> THEN Root ELSE Last(chain)

\* try_send
Fits(queue, items, cap) == SubSeq(queue \o items, 1, Min({cap, Len(queue) + Len(items)}))
Full(queue, items, cap) == Len(queue) + Len(items) > cap

\* BlockEvent::topic
Topic(kind) == [Accepted |-> "accepted", StateChange |-> "statechange", Reverted |-> "reverted"][kind]

BlockEvent(kind, hash, state) == [topic |-> Topic(kind), hash |-> hash, state |-> state]

\* The events of rolling_finality, from the last final block up.
FinalityEvents(blocks, from, to) ==
  [i \in 1 .. to - from |-> BlockEvent("StateChange", blocks[from + i], "finalized")]

\* try_accept_block: the VM sends the events of the block to the archivist
\* before the acceptor sends its own.  The finalized blocks are below the tip.
Accept(b) ==
  /\ Blocks[b].prev = Tip /\ b # Root
  /\ \E to \in finalTo .. Len(chain) :
       LET batch == FinalityEvents(chain, finalTo, to) \o <<BlockEvent("Accepted", b, None)>>
           data == [kind |-> "ArchivedEvents", hash |-> b]
       IN /\ finalTo' = to
          /\ archival' = Fits(archival, <<data>>, ArchiveCap)
          /\ nodeEvents' = Fits(nodeEvents, batch, NodeCap)
          /\ dropped' = (dropped \/ Full(archival, <<data>>, ArchiveCap)
                                 \/ Full(nodeEvents, batch, NodeCap))
  /\ chain' = Append(chain, b)
  /\ UNCHANGED <<sql, index, loading, cached, switches, crashes>>

\* try_revert: from the tip down to a block not below the last final one.
Revert ==
  /\ switches < MaxSwitches
  /\ \E to \in finalTo .. Len(chain) - 1 :
       LET batch == [i \in 1 .. Len(chain) - to |->
                       BlockEvent("Reverted", chain[Len(chain) + 1 - i], None)]
       IN /\ chain' = SubSeq(chain, 1, to)
          /\ nodeEvents' = Fits(nodeEvents, batch, NodeCap)
          /\ dropped' = (dropped \/ Full(nodeEvents, batch, NodeCap))
  /\ switches' = switches + 1
  /\ UNCHANGED <<finalTo, archival, sql, index, loading, cached, crashes>>

-----------------------------------------------------------------------------
(* The chain event streamer and the archivist *)

\* The messages the streamer sends for an event.
Forwarded(e) ==
  IF e.topic = "statechange" /\ e.state = "finalized"
  THEN <<[kind |-> "FinalizedBlock", hash |-> e.hash]>>
  ELSE IF e.topic = "deleted" THEN <<[kind |-> "DeletedBlock", hash |-> e.hash]>>
  ELSE <<>>

Stream ==
  /\ nodeEvents # <<>>
  /\ LET data == Forwarded(Head(nodeEvents))
     IN /\ archival' = Fits(archival, data, ArchiveCap)
        /\ dropped' = (dropped \/ Full(archival, data, ArchiveCap))
  /\ nodeEvents' = Tail(nodeEvents)
  /\ UNCHANGED <<chain, finalTo, sql, index, loading, cached, switches, crashes>>

\* What is to be loaded into the index once the tables are committed.
Load(s, data) ==
  LET r == UnfinalizedRow(s, data.hash)
  IN [height |-> r.height, entries |-> FilterAndConvert(GroupByOrigins(r.events, r.height))]

\* Mutated form of Handled: the row is looked up by height.
HandledByHeight(s, data) ==
  LET rows == {r \in s.unfinalized : r.height = Blocks[data.hash].height}
  IN CASE data.kind = "ArchivedEvents" ->
            StoreUnfinalizedEvents(s, Blocks[data.hash].height, data.hash, Blocks[data.hash].events)
       [] data.kind = "DeletedBlock" -> RemoveBlockAndEvents(s, data.hash)
       [] data.kind = "FinalizedBlock" ->
            IF rows # {} THEN FinalizeRow(s, (CHOOSE r \in rows : TRUE).hash) ELSE s

Handled(s, data) ==
  CASE data.kind = "ArchivedEvents" ->
         StoreUnfinalizedEvents(s, Blocks[data.hash].height, data.hash, Blocks[data.hash].events)
    [] data.kind = "DeletedBlock" -> RemoveBlockAndEvents(s, data.hash)
    [] data.kind = "FinalizedBlock" ->
         IF CanFinalize(s, data.hash) THEN FinalizeRow(s, data.hash) ELSE s

\* The archivist's loop, up to the commit of the sqlite transaction.
Archivist ==
  /\ loading = Idle /\ archival # <<>>
  /\ LET data == Head(archival)
     IN /\ sql' = Handled(sql, data)
        /\ loading' = IF data.kind = "FinalizedBlock" /\ CanFinalize(sql, data.hash)
                      THEN Load(sql, data) ELSE Idle
  /\ archival' = Tail(archival)
  /\ UNCHANGED <<chain, finalTo, nodeEvents, index, cached, dropped, switches, crashes>>

\* tl_moonlight, one rocksdb transaction at a time; an entry that is refused
\* ends it.
WriteIndex ==
  /\ loading.entries # <<>>
  /\ LET e == Head(loading.entries)
     IN IF e.kind = "group" /\ Holds(index, e.key)
        THEN loading' = Idle /\ UNCHANGED index
        ELSE /\ index' = WriteEntry(index, e)
             /\ loading' = [loading EXCEPT !.entries = Tail(@)]
  /\ UNCHANGED <<chain, finalTo, nodeEvents, archival, sql, cached, dropped, switches, crashes>>

Loaded ==
  /\ loading # Idle /\ loading.entries = <<>>
  /\ cached' = loading.height
  /\ loading' = Idle
  /\ UNCHANGED <<chain, finalTo, nodeEvents, archival, sql, index, dropped, switches, crashes>>

\* The channels and the load under way are lost, and create_or_open reads the
\* last finalized height back.
CrashRestart ==
  /\ crashes < MaxCrashes
  /\ nodeEvents' = <<>> /\ archival' = <<>> /\ loading' = Idle
  /\ cached' = LastFinalized(sql)
  /\ crashes' = crashes + 1
  /\ UNCHANGED <<chain, finalTo, sql, index, dropped, switches>>

Next ==
  \/ \E b \in DOMAIN Blocks : Accept(b)
  \/ Revert \/ Stream \/ Archivist \/ WriteIndex \/ Loaded \/ CrashRestart

Spec == Init /\ [][Next]_archiveVars

-----------------------------------------------------------------------------
(* What the archive promises *)

\* Whatever is dropped, reverted or lost, a finalized row of the archive is a
\* block the acceptor finalized, at its height, with all of its events: the
\* block that was at that height before a revert never becomes one
\* (finalize_archive_data selects the row by hash).  No final block below a row
\* is missing.
FinalizedFaithful ==
  /\ \A r \in sql.finalized : \A h \in 1 .. r.height : \E q \in sql.finalized : q.height = h
  /\ \A r \in sql.finalized :
       /\ r.height <= finalTo /\ chain[r.height] = r.hash
       /\ \A e \in Range(Blocks[r.hash].events) : e \in Range(r.events)
       /\ Len(r.events) = Len(Blocks[r.hash].events)

\* The lists of the index stay sorted by height without repeats, the condition
\* under which the searches of limit and intersection are right: it rests on
\* rolling_finality reporting final blocks from the oldest on, through two
\* channels that drop but do not reorder.
IndexSorted ==
  \A list \in Range(index.in) \cup Range(index.out) \cup Range(index.memo) :
    \A i, j \in DOMAIN list : i < j =>
      list[i] # list[j] /\ list[i].height <= list[j].height

\* A page of a history holds the entries of its blocks that the pages before
\* it left out, in order, though the search is binary and the cut by index.
PagesCover ==
  \A list \in Range(index.in) \cup Range(index.out) :
    \A from \in Heights, to \in Heights, max \in 1 .. 2 :
      LET all == SelectSeq(list, LAMBDA id : id.height >= from /\ id.height <= to)
          pages == [p \in 1 .. Len(list) + 1 |-> Limit(list, from, to, max, p - 1)]
      IN FlattenSeq(pages) = all /\ \A p \in DOMAIN pages : Len(pages[p]) <= max

\* Between loads of a node that never crashed, the history of an account is
\* exactly the finalized transactions whose first flow names it, with the
\* events that the tables hold for them, and the cached height is the last
\* finalized row's.  Of the transactions in and of those out it is the oldest
\* DEFAULT_MAX_COUNT: the ones after them are not shown, although the comment
\* of full_moonlight_history says "all finalized moonlight events".
HistoryMatchesTables ==
  loading = Idle /\ crashes = 0 =>
    /\ cached = LastFinalized(sql)
    /\ \A a \in Accounts :
         LET groups == UNION {Range(GroupByOrigins(r.events, r.height)) : r \in sql.finalized}
             flows == {g \in groups : FirstFlow(g) # 0}
             Flow(g) == g.events[FirstFlow(g)]
             ins == {g \in flows : a \in Range(Inflows(Flow(g), Len(g.events) = 1))}
             outs == {g \in flows : a \in Range(Outflows(Flow(g)))}
             Oldest(gs) == {g \in gs : Cardinality({h \in gs : Earlier(h, g)}) < DefaultMax}
         IN Range(FullMoonlightHistory(index, a)) = Oldest(ins) \cup Oldest(outs)

\* The transfers between two accounts are entries of both lists, and all of
\* them when the sender has one transaction in a block.
IntersectionSound ==
  \A s, r \in Accounts :
    LET outs == index.out[s]
        common == Range(outs) \cap Range(index.in[r])
        found == Range(Intersection(index.in[r], outs))
    IN /\ found \subseteq common
       /\ (\A i, j \in DOMAIN outs : i # j => outs[i].height # outs[j].height) => found = common

\* The events served for a height are those of one block of that height,
\* through every switch of branch and every finalization: never a mix.
EventsOfOneBlock ==
  \A h \in Heights :
    LET served == FetchEventsByHeight(sql, h)
    IN served # <<>> => \E b \in DOMAIN Blocks :
         /\ Blocks[b].height = h /\ Range(served) = Range(Blocks[b].events)
         /\ Len(served) = Len(Blocks[b].events)
         /\ FetchEventsByHash(sql, b) = served

\* Once the channels are empty, and if nothing was dropped or lost, no row of a
\* reverted block is left: "send finalized and deleted blocks to the archivist
\* in a decoupled way" (rusk/src/lib/node/events.rs).
RevertedForgotten ==
  nodeEvents = <<>> /\ archival = <<>> /\ ~dropped /\ crashes = 0 =>
    \A r \in sql.unfinalized : r.hash \in Range(chain)

\* The tables tell the truth: a finalized row is a final block with all its
\* events, and the events served for a height are those of one block.
TablesFaithful == FinalizedFaithful /\ EventsOfOneBlock

\* The history of an account is what the tables hold for it, in order, and its
\* pages and its transfers to another account are found by search, all of them
\* and nothing else.
HistoryComplete ==
  IndexSorted /\ PagesCover /\ HistoryMatchesTables /\ IntersectionSound
=============================================================================
