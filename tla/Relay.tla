--------------------------------- MODULE Relay ---------------------------------
(***************************************************************************)
(* The WebSocket relay of the server: handle_socket and handle_ws_message  *)
(* (crates/hysj-api/src/ws/handler.rs), send_to_device                     *)
(* (ws/connection_tracker.rs), the map AppState.connections (state.rs) and *)
(* the Redis message queue (crates/hysj-messaging/src/queue.rs).           *)
(*                                                                         *)
(* A connection is one WebSocket of one device.  Its server side is two    *)
(* tasks: handle_socket, which registers it, delivers what is queued,      *)
(* reads until the stream ends and cleans up; and, from the moment it is   *)
(* spawned, the sink task, which writes the connection's channel to the    *)
(* socket.  A sender is the reader loop of some other connection: it       *)
(* handles the messages of its script one after the other.                 *)
(*                                                                         *)
(* A lookup in the connection map followed by the send into the channel is *)
(* one step (the map's shard is locked meanwhile); every Redis or database *)
(* command is a step of its own.                                           *)
(***************************************************************************)
EXTENDS Naturals, Sequences, FiniteSets, SequencesExt

CONSTANTS Devices,               \* recipient devices
          Conns,                 \* connections that may be opened
          DeviceOf,              \* the device of each connection
          Messages,              \* message ids
          Senders,
          Script,                \* the messages each sender sends, in order
          Dest,                  \* the devices a message is for
          Kind,                  \* "direct", "group" or "event"
          Overlap,               \* may a device connect before its old connection is cleaned up?
          Expiring,              \* does Redis expire or evict queued messages?
          Faulty,                \* may Redis and database commands fail?
          MaxCrashes,            \* bound: crashes of the server process
          NoConn, NoMessage, NoDevice

ASSUME RelayAssumption ==
  /\ DeviceOf \in [Conns -> Devices]
  /\ Script \in [Senders -> Seq(Messages)]
  /\ Dest \in [Messages -> (SUBSET Devices) \ {{}}]
  /\ Kind \in [Messages -> {"direct", "group", "event"}]
  /\ \A m \in Messages : Kind[m] = "direct" => Cardinality(Dest[m]) = 1
  /\ Overlap \in BOOLEAN /\ Expiring \in BOOLEAN /\ Faulty \in BOOLEAN
  /\ MaxCrashes \in Nat
  /\ NoConn \notin Conns /\ NoMessage \notin Messages /\ NoDevice \notin Devices

VARIABLES conns,                 \* AppState.connections
          pc,                    \* where handle_socket is
          link,                  \* is the network path of the connection up?
          rx,                    \* is the receiver of its channel alive?
          chan,                  \* the channel
          todo,                  \* dequeue_all: keys SCAN returned, not handled yet
          got,                   \* dequeue_all: key read by GET, DEL to follow
          batch,                 \* dequeue_all: messages collected so far
          online,                \* devices.is_online
          queue,                 \* Redis: messages under msg:{device}:
          hpc,                   \* where handle_ws_message is
          at,                    \* how much of its script a sender has started
          targets,               \* devices still to be served
          cur,                   \* the device being served
          received,              \* messages that reached a device, in order
          expired,               \* messages Redis removed
          failed,                \* devices whose enqueue failed
          crashes,
          met                    \* pairs of connections of a device that were open together

connVars == <<pc, link, rx, chan, todo, got, batch>>
handlerVars == <<hpc, at, targets, cur, failed>>
vars == <<conns, connVars, online, queue, handlerVars, received, expired, crashes, met>>

Message(s) == Script[s][at[s]]

\* handle_socket is past ws_upgrade and has not returned.
Open(c) == pc[c] \notin {"idle", "closed"}

\* The sink task exists.
SinkRunning(c) == pc[c] \in {"run", "cleanup"} /\ rx[c]

Referenced(c) == conns[DeviceOf[c]] = c

Init ==
  /\ conns = [d \in Devices |-> NoConn]
  /\ pc = [c \in Conns |-> "idle"]
  /\ link = [c \in Conns |-> TRUE]
  /\ rx = [c \in Conns |-> FALSE]
  /\ chan = [c \in Conns |-> << >>]
  /\ todo = [c \in Conns |-> {}]
  /\ got = [c \in Conns |-> NoMessage]
  /\ batch = [c \in Conns |-> << >>]
  /\ online = [d \in Devices |-> FALSE]
  /\ queue = [d \in Devices |-> {}]
  /\ hpc = [s \in Senders |-> "idle"]
  /\ at = [s \in Senders |-> 0]
  /\ targets = [s \in Senders |-> {}]
  /\ cur = [s \in Senders |-> NoDevice]
  /\ failed = [m \in Messages |-> {}]
  /\ received = [d \in Devices |-> << >>]
  /\ expired = [d \in Devices |-> {}]
  /\ crashes = 0
  /\ met = {}

-----------------------------------------------------------------------------
(* handle_socket: registration and delivery of what is queued *)

Goto(c, from, to) == pc[c] = from /\ pc' = [pc EXCEPT ![c] = to]

\* connections.insert: an entry of the same device is replaced.
Connect(c) ==
  /\ Goto(c, "idle", "online")
  /\ Overlap \/ \A e \in Conns : DeviceOf[e] = DeviceOf[c] => ~Open(e)
  /\ conns' = [conns EXCEPT ![DeviceOf[c]] = c]
  /\ rx' = [rx EXCEPT ![c] = TRUE]
  /\ met' = met \cup {<<e, c>> : e \in {e \in Conns : DeviceOf[e] = DeviceOf[c] /\ Open(e)}}
  /\ UNCHANGED <<link, chan, todo, got, batch, online, queue, handlerVars,
                 received, expired, crashes>>

\* A failing update is logged and ignored.
SetOnline(c) ==
  /\ Goto(c, "online", "scan")
  /\ \/ online' = [online EXCEPT ![DeviceOf[c]] = TRUE]
     \/ Faulty /\ UNCHANGED online
  /\ UNCHANGED <<conns, link, rx, chan, todo, got, batch, queue, handlerVars,
                 received, expired, crashes, met>>

Scan(c) ==
  /\ Goto(c, "scan", "drain")
  /\ todo' = [todo EXCEPT ![c] = queue[DeviceOf[c]]]
  /\ UNCHANGED <<conns, link, rx, chan, got, batch, online, queue, handlerVars,
                 received, expired, crashes, met>>

\* GET: a key that is gone by now is skipped.  SCAN returns keys in no order.
Get(c, m) ==
  /\ m \in todo[c]
  /\ \/ /\ m \in queue[DeviceOf[c]]
        /\ Goto(c, "drain", "del")
        /\ got' = [got EXCEPT ![c] = m]
     \/ /\ m \notin queue[DeviceOf[c]]
        /\ pc[c] = "drain"
        /\ UNCHANGED <<pc, got>>
  /\ todo' = [todo EXCEPT ![c] = @ \ {m}]
  /\ UNCHANGED <<conns, link, rx, chan, batch, online, queue, handlerVars,
                 received, expired, crashes, met>>

\* Mutant: the key that was read is not forgotten.
DelKeepingRead(c) ==
  /\ Goto(c, "del", "drain")
  /\ queue' = [queue EXCEPT ![DeviceOf[c]] = @ \ {got[c]}]
  /\ batch' = [batch EXCEPT ![c] = Append(@, got[c])]
  /\ UNCHANGED <<conns, link, rx, chan, todo, got, online, handlerVars,
                 received, expired, crashes, met>>

\* Mutant: the key is collected and not deleted.
DelKeepingKey(c) ==
  /\ Goto(c, "del", "drain")
  /\ batch' = [batch EXCEPT ![c] = Append(@, got[c])]
  /\ got' = [got EXCEPT ![c] = NoMessage]
  /\ UNCHANGED <<conns, link, rx, chan, todo, online, queue, handlerVars,
                 received, expired, crashes, met>>

\* DEL: the message is collected whether or not the key was still there.
Del(c) ==
  /\ Goto(c, "del", "drain")
  /\ queue' = [queue EXCEPT ![DeviceOf[c]] = @ \ {got[c]}]
  /\ batch' = [batch EXCEPT ![c] = Append(@, got[c])]
  /\ got' = [got EXCEPT ![c] = NoMessage]
  /\ UNCHANGED <<conns, link, rx, chan, todo, online, handlerVars,
                 received, expired, crashes, met>>

\* A cursor other than 0: SCAN again, which may return keys added meanwhile.
Rescan(c) ==
  /\ Goto(c, "drain", "scan")
  /\ todo[c] = {} /\ queue[DeviceOf[c]] # {}
  /\ UNCHANGED <<conns, link, rx, chan, todo, got, batch, online, queue,
                 handlerVars, received, expired, crashes, met>>

\* Mutant: what was collected is not delivered.
ScanDoneUndelivered(c) ==
  /\ Goto(c, "drain", "run")
  /\ todo[c] = {}
  /\ UNCHANGED <<conns, link, rx, chan, todo, got, batch, online, queue,
                 handlerVars, received, expired, crashes, met>>

ScanDone(c) ==
  /\ Goto(c, "drain", "deliver")
  /\ todo[c] = {}
  /\ UNCHANGED <<conns, link, rx, chan, todo, got, batch, online, queue,
                 handlerVars, received, expired, crashes, met>>

\* An error of SCAN, GET or DEL ends dequeue_all: what it collected is dropped
\* with the vector.  A DEL that failed may have been executed.
DequeueError(c) ==
  /\ Faulty
  /\ pc[c] \in {"scan", "drain", "del"}
  /\ pc' = [pc EXCEPT ![c] = "run"]
  /\ todo' = [todo EXCEPT ![c] = {}]
  /\ got' = [got EXCEPT ![c] = NoMessage]
  /\ batch' = [batch EXCEPT ![c] = << >>]
  /\ \/ UNCHANGED queue
     \/ queue' = [queue EXCEPT ![DeviceOf[c]] = @ \ {got[c]}]
  /\ UNCHANGED <<conns, link, rx, chan, online, handlerVars, received, expired, crashes, met>>

\* send_to_device(d, m) when the device has a live channel.
SendInto(d, m) ==
  /\ conns[d] # NoConn /\ rx[conns[d]]
  /\ chan' = [chan EXCEPT ![conns[d]] = Append(@, m)]

\* send_to_device when the channel is closed: the reference is dropped, and
\* the removal of the entry is a step to come.
ChannelClosed(d) == conns[d] # NoConn /\ ~rx[conns[d]]

\* connections.remove(d), whatever connection is there by then.
Unregister(d) == conns' = [conns EXCEPT ![d] = NoConn]

\* deliver_pending_messages ignores the result of send_to_device.
Deliver(c) ==
  LET d == DeviceOf[c]
  IN  /\ pc[c] = "deliver" /\ batch[c] # << >>
      /\ batch' = [batch EXCEPT ![c] = Tail(@)]
      /\ \/ SendInto(d, Head(batch[c])) /\ UNCHANGED pc
         \/ ChannelClosed(d) /\ pc' = [pc EXCEPT ![c] = "stale"] /\ UNCHANGED chan
         \/ conns[d] = NoConn /\ UNCHANGED <<pc, chan>>
      /\ UNCHANGED <<conns, link, rx, todo, got, online, queue, handlerVars,
                     received, expired, crashes, met>>

DeliverStale(c) ==
  /\ Goto(c, "stale", "deliver")
  /\ Unregister(DeviceOf[c])
  /\ UNCHANGED <<link, rx, chan, todo, got, batch, online, queue, handlerVars,
                 received, expired, crashes, met>>

\* The sink task is spawned and the reader loop entered.
Run(c) ==
  /\ Goto(c, "deliver", "run")
  /\ batch[c] = << >>
  /\ UNCHANGED <<conns, link, rx, chan, todo, got, batch, online, queue,
                 handlerVars, received, expired, crashes, met>>

-----------------------------------------------------------------------------
(* The sink task, the end of the reader loop, cleanup *)

\* ws_sink.send succeeds also when the peer is gone and nobody noticed yet.
Forward(c) ==
  /\ SinkRunning(c) /\ chan[c] # << >>
  /\ chan' = [chan EXCEPT ![c] = Tail(@)]
  /\ received' = IF link[c]
                 THEN [received EXCEPT ![DeviceOf[c]] = Append(@, Head(chan[c]))]
                 ELSE received
  /\ UNCHANGED <<conns, pc, link, rx, todo, got, batch, online, queue,
                 handlerVars, expired, crashes, met>>

\* Mutant: the sink task also ends when it has nothing to forward.
SinkEndIdle(c) ==
  /\ SinkRunning(c)
  /\ ~link[c] \/ chan[c] = << >>
  /\ rx' = [rx EXCEPT ![c] = FALSE]
  /\ chan' = [chan EXCEPT ![c] = << >>]
  /\ UNCHANGED <<conns, pc, link, todo, got, batch, online, queue, handlerVars,
                 received, expired, crashes, met>>

\* The sink task ends and drops the receiver: a send or a ping failed, no pong
\* came in time, or the last sender of the channel was dropped and it is empty.
\* The entry of the map stays.
SinkEnd(c) ==
  /\ SinkRunning(c)
  /\ ~link[c] \/ (~Referenced(c) /\ chan[c] = << >>)
  /\ rx' = [rx EXCEPT ![c] = FALSE]
  /\ chan' = [chan EXCEPT ![c] = << >>]
  /\ UNCHANGED <<conns, pc, link, todo, got, batch, online, queue, handlerVars,
                 received, expired, crashes, met>>

\* The stream ends, fails, or yields a close frame.
ReaderEnd(c) ==
  /\ Goto(c, "run", "cleanup")
  /\ ~link[c]
  /\ UNCHANGED <<conns, link, rx, chan, todo, got, batch, online, queue,
                 handlerVars, received, expired, crashes, met>>

\* Mutant: the entry stays in the map.
CleanupKeepingEntry(c) ==
  /\ Goto(c, "cleanup", "offline")
  /\ rx' = [rx EXCEPT ![c] = FALSE]
  /\ chan' = [chan EXCEPT ![c] = << >>]
  /\ UNCHANGED <<conns, link, todo, got, batch, online, queue, handlerVars,
                 received, expired, crashes, met>>

\* connections.remove(&device_id), then sink_task.abort().
Cleanup(c) ==
  /\ Goto(c, "cleanup", "offline")
  /\ Unregister(DeviceOf[c])
  /\ rx' = [rx EXCEPT ![c] = FALSE]
  /\ chan' = [chan EXCEPT ![c] = << >>]
  /\ UNCHANGED <<link, todo, got, batch, online, queue, handlerVars,
                 received, expired, crashes, met>>

\* Mutant: the device stays marked online.
SetOfflineForgotten(c) ==
  /\ Goto(c, "offline", "closed")
  /\ UNCHANGED <<conns, link, rx, chan, todo, got, batch, online, queue, handlerVars,
                 received, expired, crashes, met>>

SetOffline(c) ==
  /\ Goto(c, "offline", "closed")
  /\ \/ online' = [online EXCEPT ![DeviceOf[c]] = FALSE]
     \/ Faulty /\ UNCHANGED online
  /\ UNCHANGED <<conns, link, rx, chan, todo, got, batch, queue, handlerVars,
                 received, expired, crashes, met>>

\* One thread of handle_socket, with the sink task it spawned.
Socket(c) ==
  \/ SetOnline(c) \/ Scan(c) \/ Del(c) \/ Rescan(c) \/ ScanDone(c)
  \/ \E m \in Messages : Get(c, m)
  \/ DequeueError(c) \/ Deliver(c) \/ DeliverStale(c) \/ Run(c)
  \/ ReaderEnd(c) \/ Cleanup(c) \/ SetOffline(c)

-----------------------------------------------------------------------------
(* handle_ws_message: SendMessage, SendGroupMessage and the events that are
   only passed on (Typing, Read, SaveInChat, Reaction, CallSignal) *)

Submit(s) ==
  /\ hpc[s] = "idle" /\ at[s] < Len(Script[s])
  /\ at' = [at EXCEPT ![s] = @ + 1]
  /\ hpc' = [hpc EXCEPT ![s] = "route"]
  /\ targets' = [targets EXCEPT ![s] = Dest[Script[s][at[s] + 1]]]
  /\ UNCHANGED <<conns, connVars, online, queue, cur, failed, received, expired, crashes, met>>

\* Mutant: the loop over the devices ends after the first one.
ServedOnce(s, d) ==
  /\ targets' = [targets EXCEPT ![s] = {}]
  /\ hpc' = [hpc EXCEPT ![s] = "idle"]
  /\ cur' = [cur EXCEPT ![s] = NoDevice]

\* The device is served: on to the next one, or back to the reader loop.
Served(s, d) ==
  /\ targets' = [targets EXCEPT ![s] = @ \ {d}]
  /\ hpc' = [hpc EXCEPT ![s] = IF targets[s] = {d} THEN "idle" ELSE "route"]
  /\ cur' = [cur EXCEPT ![s] = NoDevice]

\* send_to_device failed: events are forgotten, messages are queued.
Undelivered(s, d) ==
  IF Kind[Message(s)] = "event"
  THEN Served(s, d)
  ELSE /\ hpc' = [hpc EXCEPT ![s] = "exists"]
       /\ cur' = [cur EXCEPT ![s] = d]
       /\ UNCHANGED targets

Route(s, d) ==
  /\ hpc[s] = "route" /\ d \in targets[s]
  /\ \/ SendInto(d, Message(s)) /\ Served(s, d)
     \/ /\ ChannelClosed(d)
        /\ hpc' = [hpc EXCEPT ![s] = "stale"]
        /\ cur' = [cur EXCEPT ![s] = d]
        /\ UNCHANGED <<chan, targets>>
     \/ conns[d] = NoConn /\ Undelivered(s, d) /\ UNCHANGED chan
  /\ UNCHANGED <<conns, pc, link, rx, todo, got, batch, online, queue, at, failed,
                 received, expired, crashes, met>>

RemoveStale(s) ==
  /\ hpc[s] = "stale"
  /\ Unregister(cur[s])
  /\ Undelivered(s, cur[s])
  /\ UNCHANGED <<connVars, online, queue, at, failed, received, expired, crashes, met>>

\* enqueue: EXISTS
Exists(s) ==
  /\ hpc[s] = "exists"
  /\ IF Message(s) \in queue[cur[s]]
     THEN Served(s, cur[s])
     ELSE hpc' = [hpc EXCEPT ![s] = "set"] /\ UNCHANGED <<targets, cur>>
  /\ UNCHANGED <<conns, connVars, online, queue, at, failed, received, expired, crashes, met>>

\* enqueue: SET EX
Set(s) ==
  /\ hpc[s] = "set"
  /\ queue' = [queue EXCEPT ![cur[s]] = @ \cup {Message(s)}]
  /\ Served(s, cur[s])
  /\ UNCHANGED <<conns, connVars, online, at, failed, received, expired, crashes, met>>

\* An error of EXISTS or SET: reported to the sender of a direct message,
\* ignored for a device of a group.  A SET that failed may have been executed.
EnqueueError(s) ==
  /\ Faulty
  /\ hpc[s] \in {"exists", "set"}
  /\ failed' = [failed EXCEPT ![Message(s)] = @ \cup {cur[s]}]
  /\ \/ UNCHANGED queue
     \/ hpc[s] = "set" /\ queue' = [queue EXCEPT ![cur[s]] = @ \cup {Message(s)}]
  /\ Served(s, cur[s])
  /\ UNCHANGED <<conns, connVars, online, at, received, expired, crashes, met>>

\* The device list of a group or of a user could not be read: nobody is served
\* and the sender is not told.
LookupError(s) ==
  /\ Faulty
  /\ hpc[s] = "route" /\ targets[s] = Dest[Message(s)] /\ Kind[Message(s)] # "direct"
  /\ failed' = [failed EXCEPT ![Message(s)] = Dest[Message(s)]]
  /\ hpc' = [hpc EXCEPT ![s] = "idle"]
  /\ targets' = [targets EXCEPT ![s] = {}]
  /\ UNCHANGED <<conns, connVars, online, queue, at, cur, received, expired, crashes, met>>

Handler(s) ==
  \/ \E d \in Devices : Route(s, d)
  \/ RemoveStale(s) \/ Exists(s) \/ Set(s) \/ EnqueueError(s)
  \/ LookupError(s)

\* Delivered: delete_message for a message the device has.
Ack(d, m) ==
  /\ m \in ToSet(received[d]) \cap queue[d]
  /\ queue' = [queue EXCEPT ![d] = @ \ {m}]
  /\ UNCHANGED <<conns, connVars, online, handlerVars, received, expired, crashes, met>>

-----------------------------------------------------------------------------
(* Environment *)

\* The client closes or vanishes, or the network path breaks.
LinkDrop(c) ==
  /\ Open(c) /\ link[c]
  /\ link' = [link EXCEPT ![c] = FALSE]
  /\ UNCHANGED <<conns, pc, rx, chan, todo, got, batch, online, queue, handlerVars,
                 received, expired, crashes, met>>

\* The TTL of a key ends, or Redis evicts it (allkeys-lru).
Expire(d, m) ==
  /\ Expiring
  /\ m \in queue[d]
  /\ queue' = [queue EXCEPT ![d] = @ \ {m}]
  /\ expired' = [expired EXCEPT ![d] = @ \cup {m}]
  /\ UNCHANGED <<conns, connVars, online, handlerVars, received, crashes, met>>

\* The process dies and starts again: tasks, channels and the map are gone,
\* Redis and the database keep what they have.
Crash ==
  /\ crashes < MaxCrashes
  /\ crashes' = crashes + 1
  /\ conns' = [d \in Devices |-> NoConn]
  /\ pc' = [c \in Conns |-> IF Open(c) THEN "closed" ELSE pc[c]]
  /\ rx' = [c \in Conns |-> FALSE]
  /\ chan' = [c \in Conns |-> << >>]
  /\ todo' = [c \in Conns |-> {}]
  /\ got' = [c \in Conns |-> NoMessage]
  /\ batch' = [c \in Conns |-> << >>]
  /\ hpc' = [s \in Senders |-> "idle"]
  /\ targets' = [s \in Senders |-> {}]
  /\ cur' = [s \in Senders |-> NoDevice]
  /\ UNCHANGED <<link, online, queue, at, failed, received, expired, met>>

Next ==
  \/ \E c \in Conns : Connect(c) \/ Socket(c) \/ Forward(c) \/ SinkEnd(c) \/ LinkDrop(c)
  \/ \E s \in Senders : Submit(s) \/ Handler(s)
  \/ \E d \in Devices, m \in Messages : Ack(d, m) \/ Expire(d, m)
  \/ Crash

Spec == Init /\ [][Next]_vars

\* The runtime polls every task that is ready, commands return, a sink ends or
\* forwards, and a dead connection is noticed in the end (ping timeout for the
\* sink, the transport for the reader).  Nothing makes a client connect, a
\* sender send, a link break or the server crash.
Fairness ==
  /\ \A c \in Conns : WF_vars(Socket(c)) /\ WF_vars(Forward(c)) /\ WF_vars(SinkEnd(c))
  /\ \A s \in Senders : WF_vars(Handler(s))

FairSpec == Spec /\ Fairness
-----------------------------------------------------------------------------
(* Properties *)

ConnPhases == {"idle", "online", "scan", "drain", "del", "deliver", "stale",
               "run", "cleanup", "offline", "closed"}

\* Type invariant: the domains, and which phase holds which working data.
TypeOK ==
  /\ conns \in [Devices -> Conns \cup {NoConn}]
  /\ pc \in [Conns -> ConnPhases]
  /\ link \in [Conns -> BOOLEAN] /\ rx \in [Conns -> BOOLEAN]
  /\ chan \in [Conns -> Seq(Messages)] /\ batch \in [Conns -> Seq(Messages)]
  /\ todo \in [Conns -> SUBSET Messages]
  /\ got \in [Conns -> Messages \cup {NoMessage}]
  /\ online \in [Devices -> BOOLEAN] /\ queue \in [Devices -> SUBSET Messages]
  /\ hpc \in [Senders -> {"idle", "route", "stale", "exists", "set"}]
  /\ at \in [Senders -> Nat] /\ targets \in [Senders -> SUBSET Devices]
  /\ cur \in [Senders -> Devices \cup {NoDevice}]
  /\ failed \in [Messages -> SUBSET Devices]
  /\ received \in [Devices -> Seq(Messages)] /\ expired \in [Devices -> SUBSET Messages]
  /\ crashes \in Nat /\ met \subseteq Conns \X Conns
  /\ \A s \in Senders : at[s] <= Len(Script[s])
  /\ \A s \in Senders : hpc[s] # "idle" => at[s] > 0
  /\ \A s \in Senders : hpc[s] \in {"stale", "exists", "set"} => cur[s] \in targets[s]
  /\ \A c \in Conns : pc[c] = "del" <=> got[c] # NoMessage

\* A connection in the map belongs to that device and its handle_socket has
\* not passed its cleanup, also when a newer connection replaced it, a sender
\* removed a stale entry or the process restarted: the server never sends into
\* a channel that nobody will clean up.
RegisteredIsOpen ==
  \A d \in Devices : conns[d] # NoConn =>
    /\ DeviceOf[conns[d]] = d
    /\ pc[conns[d]] \notin {"idle", "offline", "closed"}

\* What a channel holds can still be written: an ended sink leaves none behind.
ClosedIsEmpty == \A c \in Conns : ~rx[c] => chan[c] = << >>

\* connections maps "all currently connected devices" (state.rs:15) but for those that a
\* link failed: a device whose handle_socket runs without an entry had a connection, this
\* or another one, whose network path broke.  A cleanup or the removal of a stale entry
\* can hit a newer connection that works, whoever is in between; nothing else can.
UnregisteredNeedsLinkFailure ==
  \A c \in Conns :
    Open(c) /\ conns[DeviceOf[c]] = NoConn => \E e \in Conns : DeviceOf[e] = DeviceOf[c] /\ ~link[e]

\* devices.is_online and the connections of the device.  A connection past its set_online
\* finds the device marked offline only when another connection that was open together with
\* it has closed: set_offline asks for no other connection.  And unless the server crashed,
\* a device all of whose connections are closed is not left marked online, whatever the
\* order in which overlapping connections come and go.
OnlineAgrees ==
  /\ \A c \in Conns : Open(c) /\ pc[c] # "online" /\ ~online[DeviceOf[c]] =>
       \E e \in Conns : pc[e] = "closed" /\ {<<c, e>>, <<e, c>>} \cap met # {}
  /\ \A d \in Devices :
       crashes = 0 /\ online[d] => \E c \in Conns : DeviceOf[c] = d /\ Open(c)

\* Where a copy of message m for device d can be.
InHandler(m, d) == \E s \in Senders : d \in targets[s] /\ Message(s) = m
InDrain(m, d) ==
  \E c \in Conns : DeviceOf[c] = d /\ (got[c] = m \/ m \in ToSet(batch[c]))
InChannel(m, d) == \E c \in Conns : DeviceOf[c] = d /\ m \in ToSet(chan[c])
Held(m, d) == m \in queue[d] \/ InHandler(m, d) \/ InDrain(m, d) \/ InChannel(m, d)
Received(m, d) == m \in ToSet(received[d])
Submitted(m) == \E s \in Senders : \E i \in 1 .. at[s] : Script[s][i] = m

Lost(m, d) ==
  /\ Kind[m] # "event" /\ Submitted(m) /\ d \in Dest[m]
  /\ ~Held(m, d) /\ ~Received(m, d) /\ m \notin expired[d] /\ d \notin failed[m]

\* Whatever the interleaving of senders, reconnections, drains and stale
\* removals, a message the server took is lost only if the network path of a
\* connection of that device broke.
LossNeedsLinkFailure ==
  \A m \in Messages, d \in Devices :
    Lost(m, d) => \E c \in Conns : DeviceOf[c] = d /\ ~link[c]

\* Store and forward: a message that is queued when a connection of its device
\* scans the queue reaches the device, unless it expires or a link breaks.
PendingDelivered ==
  \A c \in Conns, m \in Messages :
    LET d == DeviceOf[c]
    IN  pc[c] = "scan" /\ m \in queue[d]
          ~> Received(m, d) \/ m \in expired[d] \/ \E e \in Conns : DeviceOf[e] = d /\ ~link[e]

\* A connection whose link broke leaves the map, so that later messages for
\* the device are queued instead of being sent into the void.
DeadLeavesMap ==
  \A c \in Conns : Referenced(c) /\ ~link[c] ~> ~Referenced(c)

-----------------------------------------------------------------------------
(* What the documentation says and the code does not do *)

\* state.rs:15, "Maps device_id -> WebSocket sender for all currently connected
\* devices": a device with a connection that works is in the map.
ConnectedIsRegistered ==
  \A c \in Conns : pc[c] = "run" /\ link[c] => conns[DeviceOf[c]] # NoConn
=============================================================================
