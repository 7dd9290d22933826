----------------------------- MODULE RuesServer -----------------------------
(***************************************************************************)
(* The HTTP server of a node.  A RUES client opens a websocket, is told a  *)
(* session id and subscribes with HTTP requests that name it; the events   *)
(* of the VM and the node reach all sessions through a bounded broadcast   *)
(* channel.                                                                *)
(***************************************************************************)
EXTENDS HttpRequests

CONSTANTS
  Sessions,      \* websockets clients open
  Sids,          \* session ids
  Paths,         \* locations clients name
  Events,        \* events the node produces
  ActionCap,     \* capacity of a session's subscription channel
  EventCap,      \* capacity of the broadcast channel
  MaxEvents, MaxActions    \* bounds

VARIABLES
  session,   \* websocket |-> [st, sid, subs, queue, pos]
  sockets,   \* sockets_map: session id |-> websocket
  events,    \* all events broadcast
  frames,    \* websocket |-> the frames sent to its client
  acked,     \* websocket |-> its acknowledged actions
  since,     \* websocket |-> position of the events at each subscription
  actions

ruesVars == <<session, sockets, events, frames, acked, since, actions>>

Free == "free"

ASSUME RuesAssumption ==
  /\ Free \notin Sessions /\ None \notin Sids /\ EventCap \in Nat
  /\ \A e \in Events :
       /\ e = [uri |-> e.uri, headers |-> e.headers, data |-> e.data]
       /\ e.uri = Uri(e.uri.component, e.uri.entity, e.uri.topic)
       /\ e.headers \in Seq(ToSet(e.headers))

Subscriptions == {ParseFromPath(p) : p \in Paths} \ {NoUri}

RuesInit ==
  /\ session = [c \in Sessions |-> [st |-> "new", sid |-> None, subs |-> {}, queue |-> <<>>, pos |-> 0]]
  /\ sockets = [s \in Sids |-> Free]
  /\ events = <<>> /\ frames = [c \in Sessions |-> <<>>] /\ acked = [c \in Sessions |-> <<>>]
  /\ since = [c \in Sessions |-> [u \in Subscriptions |-> 0]]
  /\ actions = 0

-----------------------------------------------------------------------------
(* Sessions *)

\* A random id is none that was used and forgotten; the loop keeps it apart
\* from the ones in the map.
Forgotten == {session[c].sid : c \in Sessions} \ {s \in Sids : sockets[s] # Free}
NewSids == {s \in Sids \ Forgotten : sockets[s] = Free}

\* An upgrade request: the receiver of the events starts at the last one.
Upgrade(c) ==
  /\ session[c].st = "new"
  /\ \E sid \in NewSids :
       /\ sockets' = [sockets EXCEPT ![sid] = c]
       /\ session' = [session EXCEPT ![c] =
            [session[c] EXCEPT !.st = "handshake", !.sid = sid, !.pos = Len(events)]]
  /\ UNCHANGED <<events, frames, acked, since, actions>>

\* handle_stream_rues begins: the id is sent to the client, or the task ends.
Greet(c) ==
  /\ session[c].st = "handshake"
  /\ \E st \in {"open", "lost"} : session' = [session EXCEPT ![c].st = st]
  /\ UNCHANGED <<sockets, events, frames, acked, since, actions>>

\* The send to a session waits while its channel is full.
Sent(queue, a) == IF Len(queue) < ActionCap THEN {Append(queue, a)} ELSE {}

Method == [GET |-> "Subscribe", DELETE |-> "Unsubscribe", PUT |-> None]

\* The checks of a subscription request, in their order.
ActionStatus(sid, uri, method) ==
  IF sid = None THEN 424
  ELSE IF uri = NoUri THEN 404
  ELSE IF sockets[sid] = Free THEN 424
  ELSE IF Method[method] = None THEN 405
  ELSE IF session[sockets[sid]].st = "lost" THEN 500
  ELSE 200

\* A request that is neither a POST nor an upgrade, sent with the id its client
\* knows or without one.
Act(c, path, method) ==
  /\ actions < MaxActions /\ actions' = actions + 1
  /\ session[c].st \in {"open", "leaving", "gone"}
  /\ \E sid \in {session[c].sid, None} :
       LET uri == ParseFromPath(path)
           action == [do |-> Method[method], uri |-> uri]
       IN IF ActionStatus(sid, uri, method) = 200
          THEN /\ \E queue \in Sent(session[sockets[sid]].queue, action) :
                    session' = [session EXCEPT ![sockets[sid]].queue = queue]
               /\ acked' = [acked EXCEPT ![c] = Append(@, action)]
          ELSE UNCHANGED <<session, acked>>
  /\ UNCHANGED <<sockets, events, frames, since>>

AfterAction(subs, a) == IF a.do = "Subscribe" THEN subs \cup {a.uri} ELSE subs \ {a.uri}

\* The loop of handle_stream_rues takes an action ...
TakeAction(c) ==
  /\ session[c].st = "open" /\ session[c].queue # <<>>
  /\ LET a == Head(session[c].queue)
     IN /\ session' = [session EXCEPT ![c] =
             [session[c] EXCEPT !.queue = Tail(@), !.subs = AfterAction(@, a)]]
        /\ since' = [since EXCEPT ![c][a.uri] =
             IF a.do = "Subscribe" /\ a.uri \in session[c].subs THEN @ ELSE session[c].pos]
  /\ UNCHANGED <<sockets, events, frames, acked, actions>>

\* Mutated form of Lagged: a slow client goes on with what is left.
LaggedNever(pos) == FALSE
\* The broadcast channel has overwritten what the receiver has not read.
Lagged(pos) == Len(events) - pos > EventCap

\* ... or an event.  A receiver that lags is an error, and ends the session.
TakeEvent(c) ==
  /\ session[c].st = "open" /\ session[c].pos < Len(events)
  /\ LET from == IF Len(events) - session[c].pos > EventCap THEN Len(events) - EventCap ELSE session[c].pos
         e == events[from + 1]
         wanted == \E u \in session[c].subs : Matches(u, e.uri)
     IN IF Lagged(session[c].pos)
        THEN /\ session' = [session EXCEPT ![c].st = "leaving"]
             /\ UNCHANGED frames
        ELSE \E sent \in IF wanted THEN BOOLEAN ELSE {TRUE} :
               /\ session' = [session EXCEPT ![c] =
                    [session[c] EXCEPT !.pos = from + 1, !.st = IF sent THEN @ ELSE "leaving"]]
               /\ frames' = IF wanted /\ sent THEN [frames EXCEPT ![c] = Append(@, ToBytes(e))] ELSE frames
  /\ UNCHANGED <<sockets, events, acked, since, actions>>

\* ... or the client's close, an error of the stream, or the shutdown.
Leave(c) ==
  /\ session[c].st = "open"
  /\ session' = [session EXCEPT ![c].st = "leaving"]
  /\ UNCHANGED <<sockets, events, frames, acked, since, actions>>

\* After the loop the id is removed, under the lock of the map.
Forget(c) ==
  /\ session[c].st = "leaving"
  /\ sockets' = [sockets EXCEPT ![session[c].sid] = Free]
  /\ session' = [session EXCEPT ![c].st = "gone"]
  /\ UNCHANGED <<events, frames, acked, since, actions>>

\* The VM or the streamer broadcasts an event; its data is its number.
Publish(e) ==
  /\ Len(events) < MaxEvents
  /\ events' = Append(events, [e EXCEPT !.data = <<Len(events) + 1>>])
  /\ UNCHANGED <<session, sockets, frames, acked, since, actions>>

-----------------------------------------------------------------------------
RuesNext ==
  \/ \E c \in Sessions : Upgrade(c) \/ Greet(c) \/ TakeAction(c) \/ TakeEvent(c) \/ Leave(c) \/ Forget(c)
  \/ \E c \in Sessions, p \in Paths, k \in DOMAIN Method : Act(c, p, k)
  \/ \E e \in Events : Publish(e)

RuesSpec == RuesInit /\ [][RuesNext]_ruesVars

-----------------------------------------------------------------------------
(* What clients may rely on *)

\* What a client reads in a frame.
Received(frame) ==
  LET parsed == ParseHeader(frame)
  IN [number |-> Head(parsed[2]), uri |-> ParseFromPath(Last(parsed[1]).location)]

\* A client gets events in their order, each once, and only events of a
\* location it was told it had subscribed to: no other session's subscription
\* reaches it through the shared map of ids, and the location in the frame is
\* the one it named.
DeliveredWanted ==
  \A c \in Sessions :
    LET got == [i \in DOMAIN frames[c] |-> Received(frames[c][i])]
    IN \A i \in DOMAIN got :
         /\ i > 1 => got[i - 1].number < got[i].number
         /\ \E k \in DOMAIN acked[c] : acked[c][k].do = "Subscribe"
              /\ acked[c][k].uri \in {got[i].uri, [got[i].uri EXCEPT !.entity = None]}
         /\ events[got[i].number].uri = got[i].uri

\* An open session has no silent gap: every event it has passed since it took a
\* subscription that matches has been sent to its client.  A client too slow for
\* the broadcast channel loses the session, not events.
NoSilentGap ==
  \A c \in Sessions : session[c].st = "open" =>
    \A u \in session[c].subs :
      \A n \in since[c][u] + 1 .. session[c].pos : Matches(u, events[n].uri) =>
        \E i \in DOMAIN frames[c] : Received(frames[c][i]).number = n

\* The subscriptions a list of actions adds up to.
Effect(list) ==
  LET subs[n \in 0 .. Len(list)] == IF n = 0 THEN {} ELSE AfterAction(subs[n - 1], list[n])
  IN subs[Len(list)]

\* An acknowledged subscription or unsubscription is never lost: when nothing
\* is queued, an open session has the subscriptions its acknowledged requests
\* add up to, in their order.
AcknowledgedApplied ==
  \A c \in Sessions : session[c].st = "open" /\ session[c].queue = <<>> =>
    session[c].subs = Effect(acked[c])

\* An acknowledged subscription is applied, and then its client gets every event
\* of its location, once and in order, and no other, or is told that it ends.
SubscriptionsServed == AcknowledgedApplied /\ DeliveredWanted /\ NoSilentGap
=============================================================================
