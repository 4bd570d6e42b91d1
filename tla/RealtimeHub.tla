---------------------------- MODULE RealtimeHub ----------------------------
(***************************************************************************)
(* The realtime service of several API instances: realtime/hub.go and      *)
(* realtime/client.go, with the parts of PostgreSQL's NOTIFY and of Redis  *)
(* pub/sub they use.                                                       *)
(*                                                                         *)
(* A change of a row is notified to every instance that listens. The       *)
(* instance publishes it, through Redis if there is one, so that every     *)
(* subscribed instance broadcasts it to its own WebSocket clients. A hub's *)
(* goroutine registers and unregisters clients and broadcasts; each client *)
(* has a goroutine that reads (and subscribes) and one that writes.        *)
(*                                                                         *)
(* Changes are numbered in the order they are committed, and channels do   *)
(* not depend on each other, so there is one. A message is an event with   *)
(* the instance that published it.                                         *)
(***************************************************************************)
EXTENDS Integers, Sequences, FiniteSets

CONSTANTS Instances,       \* API instances, a hub each
          Clients,         \* WebSocket connections
          HubOf,           \* the instance each is connected to
          SendBuffer,      \* events a client's send channel holds
          BroadcastBuffer, \* events a hub's broadcast channel holds
          MaxEvents,       \* bound on changes
          MaxLosses        \* bound on lost connections and failed commands

ASSUME HubOfAssumption == HubOf \in [Clients -> Instances]
ASSUME BufferAssumption == {SendBuffer, BroadcastBuffer} \subseteq Nat \ {0}
ASSUME BoundAssumption == {MaxEvents, MaxLosses} \subseteq Nat

VARIABLES committed,       \* changes committed so far
          listening,       \* instances whose LISTEN is in force
          notified,        \* per instance: changes its listener has to take
          withRedis,       \* whether a Redis address is configured
          subscribed,      \* instances with a subscription in Redis
          stream,          \* per instance: messages Redis has for it
          broadcast,       \* per instance: its hub's broadcast channel
          clients,         \* registered clients
          channel,         \* clients subscribed to the channel
          closed,          \* clients whose send channel is closed
          send,            \* per client: its send channel
          reader,          \* per client: where its ReadPump is
          conn,            \* clients whose connection is up
          received,        \* per client: events written to its connection
          failures,        \* instances one of whose publishes has failed
          losses

postgres == <<committed, listening, notified>>
redis    == <<withRedis, subscribed, stream>>
hub      == <<clients, channel, closed>>
pumps    == <<reader, conn>>
ghosts   == <<failures, losses>>
hubVars == <<postgres, redis, broadcast, hub, send, pumps, received, ghosts>>

Message == [event : 1..MaxEvents, by : Instances]
Notice  == [event : {0}, by : Instances]     \* an error frame

HubTypeOK ==
  /\ committed \in 0..MaxEvents /\ listening \in SUBSET Instances
  /\ notified \in [Instances -> Seq(1..MaxEvents)]
  /\ withRedis \in BOOLEAN /\ subscribed \in SUBSET Instances
  /\ stream \in [Instances -> Seq(Message)]
  /\ broadcast \in [Instances -> Seq(Message)]
  /\ clients \in SUBSET Clients /\ channel \in SUBSET Clients
  /\ closed \in SUBSET Clients
  /\ send \in [Clients -> Seq(Message \cup Notice)]
  /\ reader \in [Clients -> {"new", "reading", "authorizing", "leaving",
                             "gone"}]
  /\ conn \in SUBSET Clients
  /\ received \in [Clients -> Seq(Message)]
  /\ failures \in SUBSET Instances /\ losses \in Nat

HubInit ==
  /\ committed = 0 /\ listening = Instances
  /\ notified = [i \in Instances |-> <<>>]
  /\ withRedis \in BOOLEAN
  /\ subscribed = (IF withRedis THEN Instances ELSE {})
  /\ stream = [i \in Instances |-> <<>>]
  /\ broadcast = [i \in Instances |-> <<>>]
  /\ clients = {} /\ channel = {} /\ closed = {}
  /\ send = [c \in Clients |-> <<>>]
  /\ reader = [c \in Clients |-> "new"]
  /\ conn = {} /\ received = [c \in Clients |-> <<>>]
  /\ failures = {} /\ losses = 0

Fault == losses < MaxLosses /\ losses' = losses + 1
Take(queue, i) == queue' = [queue EXCEPT ![i] = Tail(@)]
Room(i) == Len(broadcast[i]) < BroadcastBuffer

-----------------------------------------------------------------------------
(* From a committed change to the hubs.                                    *)

\* The trigger's NOTIFY reaches every session that listens.
Commit ==
  /\ committed < MaxEvents /\ committed' = committed + 1
  /\ notified' = [i \in Instances |->
                    IF i \in listening THEN Append(notified[i], committed + 1)
                    ELSE notified[i]]
  /\ UNCHANGED <<listening, redis, broadcast, hub, send, pumps, received,
                 ghosts>>

\* listenLoop ends with an error; what it had not taken is lost.
LoseListener(i) ==
  /\ i \in listening /\ Fault
  /\ listening' = listening \ {i} /\ notified' = [notified EXCEPT ![i] = <<>>]
  /\ UNCHANGED <<committed, redis, broadcast, hub, send, pumps, received,
                 failures>>

Listen(i) ==
  /\ i \notin listening /\ listening' = listening \cup {i}
  /\ UNCHANGED <<committed, notified, redis, broadcast, hub, send, pumps,
                 received, ghosts>>

ToSubscribers(m) ==
  stream' = [i \in Instances |->
               IF i \in subscribed THEN Append(stream[i], m) ELSE stream[i]]

Locally(i, m) == Room(i) /\ broadcast' = [broadcast EXCEPT ![i] =
                                            Append(@, m)]

\* Broken: as if the local clients were always served directly as well.
PublishTwice(i) ==
  /\ notified[i] # <<>> /\ Take(notified, i)
  /\ LET m == [event |-> Head(notified[i]), by |-> i] IN
       /\ Locally(i, m)
       /\ IF withRedis THEN ToSubscribers(m) ELSE UNCHANGED stream
  /\ UNCHANGED <<committed, listening, withRedis, subscribed, hub, send, pumps,
                 received, ghosts>>

\* publishDatabaseNotification and Publish: through Redis to every instance.
\* If the command fails, whether or not Redis has seen it, the hub's own
\* clients are served directly.
Publish(i) ==
  /\ notified[i] # <<>> /\ Take(notified, i)
  /\ LET m == [event |-> Head(notified[i]), by |-> i] IN
       \/ ~withRedis /\ Locally(i, m) /\ UNCHANGED <<stream, ghosts>>
       \/ withRedis /\ ToSubscribers(m) /\ UNCHANGED <<broadcast, ghosts>>
       \/ /\ withRedis /\ Fault /\ failures' = failures \cup {i}
          /\ Locally(i, m) /\ (UNCHANGED stream \/ ToSubscribers(m))
  /\ UNCHANGED <<committed, listening, withRedis, subscribed, hub, send, pumps,
                 received>>

LoseSubscription(i) ==
  /\ i \in subscribed /\ Fault
  /\ subscribed' = subscribed \ {i} /\ stream' = [stream EXCEPT ![i] = <<>>]
  /\ UNCHANGED <<postgres, withRedis, broadcast, hub, send, pumps, received,
                 failures>>

Resubscribe(i) ==
  /\ withRedis /\ i \notin subscribed /\ subscribed' = subscribed \cup {i}
  /\ UNCHANGED <<postgres, withRedis, stream, broadcast, hub, send, pumps,
                 received, ghosts>>

\* subscribeRedis hands a message to the hub, and waits while it has no room.
FromRedis(i) ==
  /\ stream[i] # <<>> /\ Take(stream, i) /\ Locally(i, Head(stream[i]))
  /\ UNCHANGED <<postgres, withRedis, subscribed, hub, send, pumps, received,
                 ghosts>>

-----------------------------------------------------------------------------
(* The hub's goroutine and the goroutines of a client. The hub is always   *)
(* ready to receive, so Register and Unregister are one step.              *)

\* The channel's clients get the event, except those whose buffer is full.
Keeps(c) == Len(send[c]) < SendBuffer
Offer(c, m) == IF Keeps(c) THEN Append(send[c], m) ELSE send[c]

Broadcast(i) ==
  /\ broadcast[i] # <<>> /\ Take(broadcast, i)
  /\ send' = [c \in Clients |->
                IF c \in channel /\ HubOf[c] = i
                THEN Offer(c, Head(broadcast[i])) ELSE send[c]]
  /\ UNCHANGED <<postgres, redis, hub, pumps, received, ghosts>>

Register(c) ==
  /\ reader[c] = "new"
  /\ clients' = clients \cup {c} /\ conn' = conn \cup {c}
  /\ reader' = [reader EXCEPT ![c] = "reading"]
  /\ UNCHANGED <<postgres, redis, broadcast, channel, closed, send, received,
                 ghosts>>

\* A subscription is authorized, which may take a query, without the lock.
SubscribeClient(c) ==
  /\ reader[c] = "reading" /\ c \in conn
  /\ reader' = [reader EXCEPT ![c] = "authorizing"]
  /\ UNCHANGED <<postgres, redis, broadcast, hub, send, conn, received,
                 ghosts>>

AddSubscription(c) ==
  /\ reader[c] = "authorizing"
  /\ channel' = channel \cup {c}
  /\ reader' = [reader EXCEPT ![c] = "reading"]
  /\ UNCHANGED <<postgres, redis, broadcast, clients, closed, send, conn,
                 received, ghosts>>

\* A refused subscription gets an error frame, if there is room for it.
SendError(c) ==
  /\ reader[c] = "authorizing"
  /\ send' = [send EXCEPT ![c] = Offer(c, [event |-> 0, by |-> HubOf[c]])]
  /\ reader' = [reader EXCEPT ![c] = "reading"]
  /\ UNCHANGED <<postgres, redis, broadcast, hub, conn, received, ghosts>>

Unsubscribe(c) ==
  /\ reader[c] = "reading" /\ c \in conn /\ c \in channel
  /\ channel' = channel \ {c}
  /\ UNCHANGED <<postgres, redis, broadcast, clients, closed, send, pumps,
                 received, ghosts>>

\* The connection goes down: the client leaves, or no longer answers pings,
\* or a write failed.
Disconnect(c) ==
  /\ c \in conn /\ conn' = conn \ {c}
  /\ UNCHANGED <<postgres, redis, broadcast, hub, send, reader, received,
                 ghosts>>

ReadFails(c) ==
  /\ reader[c] = "reading" /\ c \notin conn
  /\ reader' = [reader EXCEPT ![c] = "leaving"]
  /\ UNCHANGED <<postgres, redis, broadcast, hub, send, conn, received,
                 ghosts>>

\* Broken: as if the subscriptions outlived the client.
UnregisterKeepsChannel(c) ==
  /\ reader[c] = "leaving"
  /\ clients' = clients \ {c} /\ closed' = closed \cup {c}
  /\ reader' = [reader EXCEPT ![c] = "gone"]
  /\ UNCHANGED <<postgres, redis, broadcast, channel, send, conn, received,
                 ghosts>>

\* ReadPump's last act. The hub forgets the client before it closes its send
\* channel, and both under the lock that Broadcast holds for reading.
Unregister(c) ==
  /\ reader[c] = "leaving"
  /\ clients' = clients \ {c} /\ channel' = channel \ {c}
  /\ closed' = closed \cup {c}
  /\ reader' = [reader EXCEPT ![c] = "gone"]
  /\ UNCHANGED <<postgres, redis, broadcast, send, conn, received, ghosts>>

\* WritePump writes what is in the send channel, or finds that it cannot.
WriteMessage(c) ==
  /\ send[c] # <<>> /\ c \in conn /\ Take(send, c)
  /\ received' = IF Head(send[c]).event = 0 THEN received
                 ELSE [received EXCEPT ![c] = Append(@, Head(send[c]))]
  /\ UNCHANGED <<postgres, redis, broadcast, hub, pumps, ghosts>>

-----------------------------------------------------------------------------
FromChanges(i) ==
  \/ LoseListener(i) \/ Listen(i) \/ Publish(i)
  \/ LoseSubscription(i) \/ Resubscribe(i) \/ FromRedis(i) \/ Broadcast(i)

OfClient(c) ==
  \/ Register(c) \/ SubscribeClient(c) \/ AddSubscription(c) \/ SendError(c)
  \/ Unsubscribe(c) \/ Disconnect(c) \/ ReadFails(c) \/ Unregister(c)
  \/ WriteMessage(c)

HubNext ==
  \/ Commit
  \/ \E i \in Instances : FromChanges(i)
  \/ \E c \in Clients : OfClient(c)

HubSpec == HubInit /\ [][HubNext]_hubVars

\* A client's ReadPump runs on when it can, and a subscription request is
\* answered: the database query behind it ends.
ReadPump(c) ==
  AddSubscription(c) \/ SendError(c) \/ ReadFails(c) \/ Unregister(c)

HubFairness == \A c \in Clients : WF_hubVars(ReadPump(c))

HubFairSpec == HubSpec /\ HubFairness

-----------------------------------------------------------------------------
\* Nothing is sent on a closed channel, which would end the process: a client
\* on the channel, or one whose ReadPump may still refuse a subscription, is
\* registered and its send channel open, wherever its connection broke.
NeverSendsOnClosed ==
  \A c \in Clients :
    c \in channel \/ reader[c] = "authorizing" => c \in clients \ closed

\* What a client has been or is about to be sent, in order.
EventsOf(c) == received[c] \o send[c]

\* The events one instance publishes reach every client, of whichever
\* instance, in the order of the changes and once each, with gaps where a
\* buffer was full or a connection down, unless a publish failed.
InOrderPerPublisher ==
  \A c \in Clients, i \in Instances \ failures :
    LET e == EventsOf(c)
        Mine(k) == e[k].by = i /\ e[k].event > 0
    IN  \A j, k \in DOMAIN e :
          j < k /\ Mine(j) /\ Mine(k) => e[j].event < e[k].event

\* A client whose connection has gone is forgotten by the hub: no map keeps
\* it, and its goroutines have ended.
DepartedForgotten ==
  \A c \in Clients : c \in clients /\ c \notin conn
    ~> c \notin clients \cup channel /\ reader[c] = "gone"

\* The package comment of hub.go: events are fanned through Redis "so multiple
\* API instances share a single event stream". A client gets each change once
\* and an older change never after a newer one.
SingleStream ==
  failures = {} =>
    \A c \in Clients :
      LET events == SelectSeq(EventsOf(c), LAMBDA m : m.event > 0)
      IN  \A j, k \in DOMAIN events : j < k => events[j].event < events[k].event
=============================================================================
