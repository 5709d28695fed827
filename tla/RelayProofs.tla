------------------------------ MODULE RelayProofs ------------------------------
(***************************************************************************)
(* Invariants of the relay for any number of devices, connections, senders *)
(* and messages.                                                           *)
(***************************************************************************)
EXTENDS RelayMailbox, SequenceTheorems, FiniteSetTheorems, TLAPS

(* The facts about sequences the actions need. *)
LEMMA AppendType ==
  ASSUME NEW S, NEW s \in Seq(S), NEW x \in S
  PROVE  Append(s, x) \in Seq(S)
OBVIOUS

LEMMA HeadTailType ==
  ASSUME NEW S, NEW s \in Seq(S), s # << >>
  PROVE  Head(s) \in S /\ Tail(s) \in Seq(S)
OBVIOUS

(* Handling one device keeps the handler's variables typed, and disturbs no
   other handler. *)
HandlerTyped(s) ==
  /\ targets' \in [Senders -> SUBSET Devices]
  /\ hpc' \in [Senders -> {"idle", "route", "stale", "exists", "set"}]
  /\ cur' \in [Senders -> Devices \cup {NoDevice}]
  /\ \A t \in Senders \ {s} : hpc'[t] = hpc[t] /\ cur'[t] = cur[t] /\ targets'[t] = targets[t]

ServedTyped(s) == HandlerTyped(s) /\ hpc'[s] \in {"idle", "route"}

UndeliveredTyped(s) ==
  /\ HandlerTyped(s)
  /\ hpc'[s] \in {"idle", "route"} \/ (hpc'[s] = "exists" /\ cur'[s] \in targets'[s])

LEMMA ServedType ==
  ASSUME TypeOK, NEW s \in Senders, NEW d \in Devices, Served(s, d)
  PROVE  ServedTyped(s)
BY DEF TypeOK, Served, ServedTyped, HandlerTyped

LEMMA UndeliveredType ==
  ASSUME TypeOK, NEW s \in Senders, NEW d \in Devices, d \in targets[s], Undelivered(s, d)
  PROVE  UndeliveredTyped(s)
BY ZenonT(40), ServedType DEF TypeOK, Undelivered, ServedTyped, UndeliveredTyped, HandlerTyped

LEMMA MessageType ==
  ASSUME TypeOK, NEW s \in Senders, hpc[s] # "idle"
  PROVE  Message(s) \in Messages
<1>1. at[s] \in 1 .. Len(Script[s])
  BY RelayAssumption DEF TypeOK
<1>2. Script[s] \in Seq(Messages)
  BY RelayAssumption
<1>. QED  BY <1>1, <1>2 DEF Message

LEMMA QueueType ==
  ASSUME TypeOK, NEW d \in Devices
  PROVE  /\ \A x : [queue EXCEPT ![d] = @ \ {x}] \in [Devices -> SUBSET Messages]
         /\ \A x \in Messages : [queue EXCEPT ![d] = @ \cup {x}] \in [Devices -> SUBSET Messages]
         /\ \A x \in Messages : [expired EXCEPT ![d] = @ \cup {x}] \in [Devices -> SUBSET Messages]
         /\ queue \in [Devices -> SUBSET Messages]
         /\ expired \in [Devices -> SUBSET Messages]
BY DEF TypeOK

LEMMA RemovalType ==
  ASSUME TypeOK, NEW d \in Devices, NEW m \in Messages, Ack(d, m) \/ Expire(d, m)
  PROVE  /\ queue' \in [Devices -> SUBSET Messages]
         /\ expired' \in [Devices -> SUBSET Messages]
<1>1. CASE Ack(d, m)
  BY <1>1, QueueType DEF Ack
<1>2. CASE Expire(d, m)
  BY <1>2, QueueType DEF Expire
<1>. QED  BY <1>1, <1>2

LEMMA DequeueErrorType ==
  ASSUME TypeOK, NEW c \in Conns, DequeueError(c)
  PROVE  queue' \in [Devices -> SUBSET Messages]
<1>1. DeviceOf[c] \in Devices
  BY RelayAssumption
<1>. QED  BY <1>1, QueueType DEF DequeueError

LEMMA EnqueueErrorType ==
  ASSUME TypeOK, NEW s \in Senders, cur[s] \in Devices, Message(s) \in Messages,
         EnqueueError(s)
  PROVE  queue' \in [Devices -> SUBSET Messages]
BY QueueType DEF EnqueueError

LEMMA SendIntoType ==
  ASSUME TypeOK, NEW d \in Devices, NEW m \in Messages, SendInto(d, m)
  PROVE  chan' \in [Conns -> Seq(Messages)]
BY AppendType DEF TypeOK, SendInto

THEOREM TypeCorrect == Spec => []TypeOK
<1>1. Init => TypeOK
  BY RelayAssumption DEF Init, TypeOK, ConnPhases
<1>2. TypeOK /\ [Next]_vars => TypeOK'
  <2> SUFFICES ASSUME TypeOK, [Next]_vars
               PROVE  TypeOK'
    OBVIOUS
  <2> USE RelayAssumption DEF TypeOK, ConnPhases, connVars, handlerVars, HandlerTyped
  <2>1. ASSUME NEW c \in Conns, Connect(c) PROVE TypeOK'
    BY <2>1 DEF Connect, Goto
  <2>2. ASSUME NEW c \in Conns, SetOnline(c) PROVE TypeOK'
    BY <2>2 DEF SetOnline, Goto
  <2>3. ASSUME NEW c \in Conns, Scan(c) PROVE TypeOK'
    BY <2>3 DEF Scan, Goto
  <2>4. ASSUME NEW c \in Conns, NEW m \in Messages, Get(c, m) PROVE TypeOK'
    <3>1. CASE Goto(c, "drain", "del") /\ got' = [got EXCEPT ![c] = m]
      BY <2>4, <3>1 DEF Get, Goto
    <3>2. CASE UNCHANGED <<pc, got>>
      BY <2>4, <3>2 DEF Get
    <3>. QED  BY <2>4, <3>1, <3>2 DEF Get
  <2>5. ASSUME NEW c \in Conns, Del(c) PROVE TypeOK'
    <3>1. got[c] \in Messages
      BY <2>5 DEF Del, Goto
    <3>2. Append(batch[c], got[c]) \in Seq(Messages)
      BY <3>1, AppendType
    <3>. QED  BY <2>5, <3>1, <3>2 DEF Del, Goto
  <2>6. ASSUME NEW c \in Conns, Rescan(c) \/ ScanDone(c) \/ Run(c) \/ ReaderEnd(c) PROVE TypeOK'
    BY ZenonT(40), <2>6 DEF Rescan, ScanDone, Run, ReaderEnd, Goto
  <2>7. ASSUME NEW c \in Conns, DequeueError(c) PROVE TypeOK'
    <3>1. queue' \in [Devices -> SUBSET Messages]
      BY <2>7, DequeueErrorType
    <3>2. /\ pc' = [pc EXCEPT ![c] = "run"] /\ todo' = [todo EXCEPT ![c] = {}]
          /\ got' = [got EXCEPT ![c] = NoMessage] /\ batch' = [batch EXCEPT ![c] = << >>]
          /\ UNCHANGED <<conns, link, rx, chan, online, handlerVars, received, expired, crashes,
                         met>>
      BY <2>7 DEF DequeueError
    <3>. QED  BY <3>1, <3>2
  <2>8. ASSUME NEW c \in Conns, Deliver(c) PROVE TypeOK'
    <3>1. Head(batch[c]) \in Messages /\ Tail(batch[c]) \in Seq(Messages)
      BY <2>8, HeadTailType DEF Deliver
    <3>2. chan' \in [Conns -> Seq(Messages)]
      BY <2>8, <3>1, SendIntoType DEF Deliver
    <3>. QED  BY <2>8, <3>1, <3>2 DEF Deliver
  <2>9. ASSUME NEW c \in Conns, DeliverStale(c) PROVE TypeOK'
    BY <2>9 DEF DeliverStale, Goto, Unregister
  <2>10. ASSUME NEW c \in Conns, Forward(c) PROVE TypeOK'
    <3>1. Head(chan[c]) \in Messages /\ Tail(chan[c]) \in Seq(Messages)
      BY <2>10, HeadTailType DEF Forward
    <3>2. received' \in [Devices -> Seq(Messages)]
      BY <2>10, <3>1, AppendType DEF Forward
    <3>. QED  BY <2>10, <3>1, <3>2 DEF Forward
  <2>11. ASSUME NEW c \in Conns, SinkEnd(c) PROVE TypeOK'
    BY <2>11 DEF SinkEnd
  <2>12. ASSUME NEW c \in Conns, Cleanup(c) PROVE TypeOK'
    BY <2>12 DEF Cleanup, Goto, Unregister
  <2>13. ASSUME NEW c \in Conns, SetOffline(c) PROVE TypeOK'
    BY <2>13 DEF SetOffline, Goto
  <2>14. ASSUME NEW s \in Senders, Submit(s) PROVE TypeOK'
    <3>1. Script[s][at[s] + 1] \in Messages
      BY <2>14 DEF Submit
    <3>2. Dest[Script[s][at[s] + 1]] \in SUBSET Devices
      BY <3>1
    <3>. QED  BY <2>14, <3>2 DEF Submit
  <2>15. ASSUME NEW s \in Senders, NEW d \in Devices, Route(s, d) PROVE TypeOK'
    <3>1. Message(s) \in Messages
      BY <2>15, MessageType DEF Route
    <3>2. CASE SendInto(d, Message(s)) /\ Served(s, d)
      <4>1. chan' \in [Conns -> Seq(Messages)]
        BY <3>1, <3>2, SendIntoType
      <4>2. ServedTyped(s)
        BY <3>2, ServedType
      <4>. QED  BY <2>15, <4>1, <4>2 DEF Route, ServedTyped
    <3>3. CASE ChannelClosed(d) /\ hpc' = [hpc EXCEPT ![s] = "stale"]
                 /\ cur' = [cur EXCEPT ![s] = d] /\ UNCHANGED <<chan, targets>>
      BY <2>15, <3>3 DEF Route
    <3>4. CASE Undelivered(s, d) /\ UNCHANGED chan
      <4>1. UndeliveredTyped(s)
        BY <2>15, <3>4, UndeliveredType DEF Route
      <4>. QED  BY <2>15, <3>4, <4>1 DEF Route, UndeliveredTyped
    <3>. QED  BY <2>15, <3>2, <3>3, <3>4 DEF Route
  <2>16. ASSUME NEW s \in Senders, RemoveStale(s) PROVE TypeOK'
    <3>1. cur[s] \in Devices /\ cur[s] \in targets[s] /\ hpc[s] # "idle"
      BY <2>16 DEF RemoveStale
    <3>2. UndeliveredTyped(s)
      BY <2>16, <3>1, UndeliveredType DEF RemoveStale
    <3>. QED  BY <2>16, <3>2 DEF RemoveStale, Unregister, UndeliveredTyped
  <2>17. ASSUME NEW s \in Senders, Exists(s) PROVE TypeOK'
    <3>1. cur[s] \in Devices
      BY <2>17 DEF Exists
    <3>2. CASE Served(s, cur[s])
      BY <2>17, <3>1, <3>2, ServedType DEF Exists, ServedTyped
    <3>3. CASE hpc' = [hpc EXCEPT ![s] = "set"] /\ UNCHANGED <<targets, cur>>
      BY <2>17, <3>3 DEF Exists
    <3>. QED  BY <2>17, <3>2, <3>3 DEF Exists
  <2>18. ASSUME NEW s \in Senders, Set(s) PROVE TypeOK'
    <3>1. cur[s] \in Devices /\ Message(s) \in Messages
      BY <2>18, MessageType DEF Set
    <3>2. ServedTyped(s)
      BY <2>18, <3>1, ServedType DEF Set
    <3>3. queue' \in [Devices -> SUBSET Messages]
      BY <2>18, <3>1 DEF Set
    <3>. QED  BY <2>18, <3>2, <3>3 DEF Set, ServedTyped
  <2>19. ASSUME NEW s \in Senders, EnqueueError(s) PROVE TypeOK'
    <3>1. cur[s] \in Devices /\ Message(s) \in Messages
      BY <2>19, MessageType DEF EnqueueError
    <3>2. ServedTyped(s)
      BY <2>19, <3>1, ServedType DEF EnqueueError
    <3>3. queue' \in [Devices -> SUBSET Messages]
      BY <2>19, <3>1, EnqueueErrorType
    <3>4. failed' \in [Messages -> SUBSET Devices]
      BY <2>19, <3>1 DEF EnqueueError
    <3>. QED  BY <2>19, <3>2, <3>3, <3>4 DEF EnqueueError, ServedTyped
  <2>20. ASSUME NEW s \in Senders, LookupError(s) PROVE TypeOK'
    BY <2>20, MessageType DEF LookupError
  <2>21. ASSUME NEW d \in Devices, NEW m \in Messages, Ack(d, m) \/ Expire(d, m) PROVE TypeOK'
    <3>1. queue' \in [Devices -> SUBSET Messages] /\ expired' \in [Devices -> SUBSET Messages]
      BY <2>21, RemovalType
    <3>2. UNCHANGED <<conns, connVars, online, handlerVars, received, crashes, met>>
      BY <2>21 DEF Ack, Expire
    <3>. QED  BY <3>1, <3>2
  <2>22. ASSUME NEW c \in Conns, LinkDrop(c) PROVE TypeOK'
    BY <2>22 DEF LinkDrop
  <2>23. CASE Crash
    BY <2>23 DEF Crash, Open
  <2>24. CASE UNCHANGED vars
    BY <2>24 DEF vars, Message
  <2>. QED
    BY <2>1, <2>2, <2>3, <2>4, <2>5, <2>6, <2>7, <2>8, <2>9, <2>10, <2>11, <2>12, <2>13,
       <2>14, <2>15, <2>16, <2>17, <2>18, <2>19, <2>20, <2>21, <2>22, <2>23, <2>24
       DEF Next, Socket, Handler
<1>. QED  BY <1>1, <1>2, PTL DEF Spec

-----------------------------------------------------------------------------
(* A step of a handler or of the environment leaves the phases alone and at
   most clears entries of the map. *)
LEMMA OnlyClears ==
  ASSUME TypeOK, RegisteredIsOpen, pc' = pc,
         \A d \in Devices : conns'[d] \in {conns[d], NoConn}
  PROVE  RegisteredIsOpen'
BY DEF RegisteredIsOpen

(* The connection map never holds a connection of another device, one that was
   never inserted, or one whose cleanup is over. *)
THEOREM RegistrationSafe == Spec => []RegisteredIsOpen
<1>1. Init => RegisteredIsOpen
  BY DEF Init, RegisteredIsOpen
<1>2. TypeOK /\ RegisteredIsOpen /\ [Next]_vars => RegisteredIsOpen'
  <2> SUFFICES ASSUME TypeOK, RegisteredIsOpen, [Next]_vars
               PROVE  RegisteredIsOpen'
    OBVIOUS
  <2>1. ASSUME NEW c \in Conns, Connect(c) PROVE RegisteredIsOpen'
    BY <2>1, RelayAssumption DEF Connect, Goto, RegisteredIsOpen, TypeOK
  <2>2. ASSUME NEW c \in Conns, pc[c] \notin {"idle", "offline", "closed"}, conns' = conns,
               NEW to \in ConnPhases \ {"idle", "offline", "closed"},
               pc' = [pc EXCEPT ![c] = to]
        PROVE RegisteredIsOpen'
    BY <2>2 DEF RegisteredIsOpen, TypeOK
  <2>3. ASSUME NEW c \in Conns,
               \/ SetOnline(c) \/ Scan(c) \/ Del(c) \/ Rescan(c) \/ ScanDone(c)
               \/ DequeueError(c) \/ Run(c) \/ ReaderEnd(c)
        PROVE RegisteredIsOpen'
    BY <2>2, <2>3
       DEF SetOnline, Scan, Del, Rescan, ScanDone, DequeueError, Run, ReaderEnd, Goto, ConnPhases
  <2>4. ASSUME NEW c \in Conns, NEW m \in Messages, Get(c, m) PROVE RegisteredIsOpen'
    BY <2>2, <2>4, OnlyClears DEF Get, Goto, ConnPhases
  <2>5. ASSUME NEW c \in Conns, Deliver(c) PROVE RegisteredIsOpen'
    BY <2>2, <2>5, OnlyClears DEF Deliver, ConnPhases
  <2>6. ASSUME NEW c \in Conns, DeliverStale(c) PROVE RegisteredIsOpen'
    BY <2>6, RelayAssumption DEF DeliverStale, Unregister, Goto, RegisteredIsOpen, TypeOK
  <2>7. ASSUME NEW c \in Conns, Cleanup(c) PROVE RegisteredIsOpen'
    BY <2>7, RelayAssumption DEF Cleanup, Unregister, Goto, RegisteredIsOpen, TypeOK
  <2>8. ASSUME NEW c \in Conns, SetOffline(c) PROVE RegisteredIsOpen'
    BY <2>8, RelayAssumption DEF SetOffline, Goto, RegisteredIsOpen, TypeOK
  <2>9. ASSUME NEW c \in Conns, Forward(c) \/ SinkEnd(c) \/ LinkDrop(c) PROVE RegisteredIsOpen'
    BY <2>9, OnlyClears DEF Forward, SinkEnd, LinkDrop
  <2>10. ASSUME NEW s \in Senders, Submit(s) \/ Handler(s) PROVE RegisteredIsOpen'
    <3>1. pc' = pc
      BY <2>10 DEF Submit, Handler, Route, RemoveStale, Exists, Set, EnqueueError,
                   LookupError, connVars
    <3>2. conns' = conns \/ \E d : conns' = [conns EXCEPT ![d] = NoConn]
      BY <2>10 DEF Submit, Handler, Route, RemoveStale, Unregister, Exists, Set,
                   EnqueueError, LookupError
    <3>3. \A d \in Devices : conns'[d] \in {conns[d], NoConn}
      BY <3>2 DEF TypeOK
    <3>. QED  BY <3>1, <3>3, OnlyClears
  <2>11. ASSUME NEW d \in Devices, NEW m \in Messages, Ack(d, m) \/ Expire(d, m)
         PROVE RegisteredIsOpen'
    BY <2>11, OnlyClears DEF Ack, Expire, connVars
  <2>12. CASE Crash
    BY <2>12 DEF Crash, RegisteredIsOpen
  <2>13. CASE UNCHANGED vars
    BY <2>13, OnlyClears DEF vars, connVars
  <2>. QED
    BY <2>1, <2>3, <2>4, <2>5, <2>6, <2>7, <2>8, <2>9, <2>10, <2>11, <2>12, <2>13
       DEF Next, Socket
<1>. QED  BY <1>1, <1>2, TypeCorrect, PTL DEF Spec

-----------------------------------------------------------------------------
(* Sends go to live channels only. *)
LEMMA SendIntoLive ==
  ASSUME TypeOK, ClosedIsEmpty, rx' = rx, NEW d \in Devices, NEW m, SendInto(d, m)
  PROVE  ClosedIsEmpty'
BY DEF TypeOK, ClosedIsEmpty, SendInto

(* No message waits in a channel whose receiver is gone. *)
THEOREM ChannelsLive == Spec => []ClosedIsEmpty
<1>1. Init => ClosedIsEmpty
  BY DEF Init, ClosedIsEmpty
<1>2. TypeOK /\ ClosedIsEmpty /\ [Next]_vars => ClosedIsEmpty'
  <2> SUFFICES ASSUME TypeOK, ClosedIsEmpty, [Next]_vars
               PROVE  ClosedIsEmpty'
    OBVIOUS
  <2>1. ASSUME rx' = rx, chan' = chan PROVE ClosedIsEmpty'
    BY <2>1 DEF ClosedIsEmpty
  <2>2. ASSUME NEW c \in Conns, Connect(c) PROVE ClosedIsEmpty'
    BY <2>2 DEF Connect, ClosedIsEmpty, TypeOK
  <2>3. ASSUME NEW c \in Conns,
               \/ SetOnline(c) \/ Scan(c) \/ Del(c) \/ Rescan(c) \/ ScanDone(c)
               \/ DequeueError(c) \/ Run(c) \/ ReaderEnd(c) \/ DeliverStale(c)
               \/ SetOffline(c) \/ LinkDrop(c)
        PROVE ClosedIsEmpty'
    BY <2>1, <2>3 DEF SetOnline, Scan, Del, Rescan, ScanDone, DequeueError, Run, ReaderEnd,
                      DeliverStale, SetOffline, LinkDrop
  <2>4. ASSUME NEW c \in Conns, NEW m \in Messages, Get(c, m) PROVE ClosedIsEmpty'
    BY <2>1, <2>4 DEF Get
  <2>5. ASSUME NEW c \in Conns, Deliver(c) PROVE ClosedIsEmpty'
    <3>1. DeviceOf[c] \in Devices /\ rx' = rx
      BY <2>5, RelayAssumption DEF Deliver
    <3>. QED  BY <2>1, <2>5, <3>1, SendIntoLive DEF Deliver
  <2>6. ASSUME NEW c \in Conns, Forward(c) PROVE ClosedIsEmpty'
    BY <2>6 DEF Forward, SinkRunning, ClosedIsEmpty, TypeOK
  <2>7. ASSUME NEW c \in Conns, SinkEnd(c) \/ Cleanup(c) PROVE ClosedIsEmpty'
    BY <2>7 DEF SinkEnd, Cleanup, ClosedIsEmpty, TypeOK
  <2>8. ASSUME NEW s \in Senders, NEW d \in Devices, Route(s, d) PROVE ClosedIsEmpty'
    BY <2>1, <2>8, SendIntoLive DEF Route
  <2>9. ASSUME NEW s \in Senders,
               \/ Submit(s) \/ RemoveStale(s) \/ Exists(s) \/ Set(s) \/ EnqueueError(s)
               \/ LookupError(s)
        PROVE ClosedIsEmpty'
    BY <2>1, <2>9 DEF Submit, RemoveStale, Exists, Set, EnqueueError, LookupError, connVars
  <2>10. ASSUME NEW d \in Devices, NEW m \in Messages, Ack(d, m) \/ Expire(d, m)
         PROVE ClosedIsEmpty'
    BY <2>1, <2>10 DEF Ack, Expire, connVars
  <2>11. CASE Crash
    BY <2>11 DEF Crash, ClosedIsEmpty
  <2>12. CASE UNCHANGED vars
    BY <2>1, <2>12 DEF vars, connVars
  <2>. QED
    BY <2>2, <2>3, <2>4, <2>5, <2>6, <2>7, <2>8, <2>9, <2>10, <2>11, <2>12
       DEF Next, Socket, Handler
<1>. QED  BY <1>1, <1>2, TypeCorrect, PTL DEF Spec

-----------------------------------------------------------------------------
(* Entries are missing, and messages lost, with a link only. *)

Broken(d) == \E c \in Conns : DeviceOf[c] = d /\ ~link[c]

(* Who has noticed that a link broke. *)
NoticedInv ==
  /\ \A c \in Conns : pc[c] \in {"cleanup", "offline"} => ~link[c]
  /\ \A d \in Devices : conns[d] # NoConn /\ ~rx[conns[d]] => ~link[conns[d]]
  /\ \A c \in Conns : Open(c) /\ conns[DeviceOf[c]] = NoConn => Broken(DeviceOf[c])
  /\ \A c \in Conns : pc[c] = "stale" => Broken(DeviceOf[c])
  /\ \A s \in Senders : hpc[s] = "stale" => Broken(cur[s])

LEMMA BrokenStays ==
  ASSUME \A c \in Conns : link'[c] => link[c], NEW d, Broken(d)
  PROVE  Broken(d)'
  BY DEF Broken

LEMMA NoticedNext ==
  ASSUME TypeOK, RegisteredIsOpen, NoticedInv, [Next]_vars
  PROVE  NoticedInv' /\ \A c \in Conns : link'[c] => link[c]
<1>. USE RelayAssumption
<1>1. ASSUME NEW c \in Conns, Connect(c) PROVE NoticedInv' /\ link' = link
  BY <1>1 DEF Connect, Goto, NoticedInv, Broken, Open, TypeOK, handlerVars
<1>2. ASSUME NEW c \in Conns,
             \/ SetOnline(c) \/ Scan(c) \/ Del(c) \/ Rescan(c) \/ ScanDone(c) \/ Run(c)
             \/ ReaderEnd(c) \/ SetOffline(c) \/ DequeueError(c) \/ \E m \in Messages : Get(c, m)
      PROVE  NoticedInv' /\ link' = link
  <2>1. /\ UNCHANGED <<conns, rx, link, hpc, cur, targets>>
        /\ \A b \in Conns : /\ Open(b)' => Open(b)
                            /\ pc'[b] = "stale" => pc[b] = "stale"
                            /\ pc'[b] \in {"cleanup", "offline"} =>
                                 pc[b] \in {"cleanup", "offline"} \/ ~link[b]
    BY <1>2 DEF SetOnline, Scan, Del, Rescan, ScanDone, Run, ReaderEnd, SetOffline, Get, Goto,
                DequeueError, handlerVars, TypeOK, Open
  <2>. QED  BY <2>1 DEF NoticedInv, Broken, Open
<1>3. ASSUME NEW c \in Conns, Deliver(c) PROVE NoticedInv' /\ link' = link
  <2>1. UNCHANGED <<conns, rx, link, hpc, cur, targets>>
    BY <1>3 DEF Deliver, handlerVars
  <2>2. pc' = pc \/ (pc' = [pc EXCEPT ![c] = "stale"] /\ ChannelClosed(DeviceOf[c]))
    BY <1>3 DEF Deliver
  <2>3. CASE pc' = pc
    BY <2>1, <2>3 DEF NoticedInv, Broken, Open
  <2>4. CASE pc' = [pc EXCEPT ![c] = "stale"] /\ ChannelClosed(DeviceOf[c])
    <3>1. Broken(DeviceOf[c])
      BY <2>4 DEF ChannelClosed, NoticedInv, Broken, Open, TypeOK, RegisteredIsOpen
    <3>2. pc[c] = "deliver"
      BY <1>3 DEF Deliver
    <3>. QED  BY <2>1, <2>4, <3>1, <3>2 DEF NoticedInv, Broken, Open, TypeOK
  <2>. QED  BY <2>1, <2>2, <2>3, <2>4
<1>4. ASSUME NEW c \in Conns, DeliverStale(c) PROVE NoticedInv' /\ link' = link
  BY <1>4 DEF DeliverStale, Unregister, Goto, NoticedInv, Broken, Open, TypeOK, handlerVars
<1>5. ASSUME NEW c \in Conns, Cleanup(c) PROVE NoticedInv' /\ link' = link
  <2>1. /\ UNCHANGED <<link, hpc, cur, targets>> /\ ~link[c]
        /\ conns' = [conns EXCEPT ![DeviceOf[c]] = NoConn]
        /\ pc[c] = "cleanup" /\ pc' = [pc EXCEPT ![c] = "offline"]
        /\ rx' = [rx EXCEPT ![c] = FALSE]
    BY <1>5 DEF Cleanup, Unregister, Goto, NoticedInv, handlerVars
  <2>2. Broken(DeviceOf[c])
    BY <2>1 DEF Broken
  <2>. QED  BY <2>1, <2>2 DEF NoticedInv, Broken, Open, TypeOK, RegisteredIsOpen
<1>6. ASSUME NEW c \in Conns, Forward(c) PROVE NoticedInv' /\ link' = link
  BY <1>6 DEF Forward, NoticedInv, Broken, Open, handlerVars
<1>7. ASSUME NEW c \in Conns, SinkEnd(c) PROVE NoticedInv' /\ link' = link
  BY <1>7 DEF SinkEnd, Referenced, NoticedInv, Broken, Open, TypeOK, RegisteredIsOpen, handlerVars
<1>8. ASSUME NEW c \in Conns, LinkDrop(c)
      PROVE  NoticedInv' /\ \A b \in Conns : link'[b] => link[b]
  <2>1. \A b \in Conns : link'[b] => link[b]
    BY <1>8 DEF LinkDrop, TypeOK
  <2>. QED  BY <1>8, <2>1, BrokenStays DEF LinkDrop, NoticedInv, Open, TypeOK, RegisteredIsOpen, handlerVars
<1>9. ASSUME NEW s \in Senders, Submit(s) PROVE NoticedInv' /\ link' = link
  BY <1>9 DEF Submit, NoticedInv, Broken, Open, TypeOK, connVars
<1>h. ASSUME UNCHANGED <<pc, rx, link>>,
             \A d \in Devices : \/ conns'[d] = conns[d]
                                \/ conns'[d] = NoConn /\ Broken(d),
             \A r \in Senders : hpc'[r] = "stale" => hpc[r] = "stale" /\ cur'[r] = cur[r]
      PROVE  NoticedInv' /\ link' = link
  <2>1. \A d : Broken(d)' <=> Broken(d)
    BY <1>h DEF Broken
  <2>2. \A r \in Senders : hpc'[r] = "stale" => Broken(cur'[r])
    BY <1>h DEF NoticedInv
  <2>3. /\ \A d \in Devices : conns'[d] # NoConn /\ ~rx'[conns'[d]] => ~link'[conns'[d]]
        /\ \A c \in Conns : Open(c)' /\ conns'[DeviceOf[c]] = NoConn => Broken(DeviceOf[c])
        /\ \A c \in Conns : pc'[c] \in {"cleanup", "offline"} => ~link'[c]
        /\ \A c \in Conns : pc'[c] = "stale" => Broken(DeviceOf[c])
    BY <1>h DEF NoticedInv, TypeOK, Open
  <2>. QED  BY <1>h, <2>1, <2>2, <2>3 DEF NoticedInv, Broken, Open
<1>s. ASSUME NEW s \in Senders, NEW d \in Devices, Served(s, d)
      PROVE  \A r \in Senders : hpc'[r] = "stale" => hpc[r] = "stale" /\ cur'[r] = cur[r]
  BY <1>s DEF Served, TypeOK
<1>u. ASSUME NEW s \in Senders, NEW d \in Devices, Undelivered(s, d)
      PROVE  \A r \in Senders : hpc'[r] = "stale" => hpc[r] = "stale" /\ cur'[r] = cur[r]
  BY <1>u, <1>s DEF Undelivered, TypeOK
<1>10. ASSUME NEW s \in Senders, NEW d \in Devices, Route(s, d) PROVE NoticedInv' /\ link' = link
  <2>1. UNCHANGED <<conns, pc, rx, link>>
    BY <1>10 DEF Route
  <2>2. CASE Served(s, d) \/ Undelivered(s, d)
    BY <1>h, <1>s, <1>u, <2>1, <2>2
  <2>3. CASE /\ ChannelClosed(d) /\ hpc' = [hpc EXCEPT ![s] = "stale"]
             /\ cur' = [cur EXCEPT ![s] = d] /\ UNCHANGED <<chan, targets>>
    <3>1. Broken(d)
      BY <2>3 DEF ChannelClosed, NoticedInv, Broken, Open, TypeOK, RegisteredIsOpen
    <3>. QED  BY <2>1, <2>3, <3>1 DEF NoticedInv, Broken, Open, TypeOK
  <2>. QED  BY <1>10, <2>2, <2>3 DEF Route
<1>11. ASSUME NEW s \in Senders, RemoveStale(s) PROVE NoticedInv' /\ link' = link
  <2>1. /\ UNCHANGED <<pc, rx, link>> /\ Broken(cur[s]) /\ cur[s] \in Devices
        /\ conns' = [conns EXCEPT ![cur[s]] = NoConn] /\ Undelivered(s, cur[s])
    BY <1>11 DEF RemoveStale, Unregister, NoticedInv, connVars, TypeOK
  <2>2. \A d \in Devices : conns'[d] = conns[d] \/ (conns'[d] = NoConn /\ Broken(d))
    BY <2>1 DEF TypeOK
  <2>. QED  BY <1>h, <1>u, <2>1, <2>2
<1>12. ASSUME NEW s \in Senders, Exists(s) PROVE NoticedInv' /\ link' = link
  <2>1. UNCHANGED <<conns, pc, rx, link>> /\ cur[s] \in Devices /\ hpc[s] = "exists"
    BY <1>12 DEF Exists, connVars, TypeOK
  <2>2. CASE Served(s, cur[s])
    BY <1>h, <1>s, <2>1, <2>2
  <2>3. CASE hpc' = [hpc EXCEPT ![s] = "set"] /\ UNCHANGED <<targets, cur>>
    BY <2>1, <2>3 DEF NoticedInv, Broken, Open, TypeOK
  <2>. QED  BY <1>12, <2>2, <2>3 DEF Exists
<1>13. ASSUME NEW s \in Senders, Set(s) PROVE NoticedInv' /\ link' = link
  <2>1. UNCHANGED <<conns, pc, rx, link>> /\ cur[s] \in Devices /\ Served(s, cur[s])
    BY <1>13 DEF Set, connVars, TypeOK
  <2>. QED  BY <1>h, <1>s, <2>1
<1>14. ASSUME NEW d \in Devices, NEW m \in Messages, Ack(d, m) \/ Expire(d, m)
       PROVE NoticedInv' /\ link' = link
  <2>1. UNCHANGED <<conns, pc, rx, link, hpc, cur, targets>>
    BY <1>14 DEF Ack, Expire, connVars, handlerVars
  <2>. QED  BY <1>h, <2>1
<1>15. CASE UNCHANGED vars
  BY <1>15 DEF vars, connVars, handlerVars, NoticedInv, Broken, Open
<1>16. ASSUME NEW s \in Senders, EnqueueError(s) PROVE NoticedInv' /\ link' = link
  <2>1. UNCHANGED <<conns, pc, rx, link>> /\ cur[s] \in Devices /\ Served(s, cur[s])
    BY <1>16 DEF EnqueueError, connVars, TypeOK
  <2>. QED  BY <1>h, <1>s, <2>1
<1>17. ASSUME NEW s \in Senders, LookupError(s) PROVE NoticedInv' /\ link' = link
  <2>1. /\ UNCHANGED <<conns, pc, rx, link>>
        /\ \A r \in Senders : hpc'[r] = "stale" => hpc[r] = "stale" /\ cur'[r] = cur[r]
    BY <1>17 DEF LookupError, connVars, TypeOK
  <2>. QED  BY <1>h, <2>1
<1>18. CASE Crash
  BY <1>18 DEF Crash, NoticedInv, Open, TypeOK
<1>. QED
  BY <1>1, <1>2, <1>3, <1>4, <1>5, <1>6, <1>7, <1>8, <1>9, <1>10, <1>11, <1>12, <1>13, <1>14,
     <1>15, <1>16, <1>17, <1>18 DEF Next, Socket, Handler

(* Whatever fails, and whoever connects, drains and cleans up in between: an open
   connection whose device has no entry is one of a device that had a link break. *)
THEOREM UnregisteredIsBroken == Spec => []UnregisteredNeedsLinkFailure
<1>1. Init => NoticedInv
  BY DEF Init, NoticedInv, Open
<1>2. TypeOK /\ RegisteredIsOpen /\ NoticedInv /\ [Next]_vars => NoticedInv'
  BY NoticedNext
<1>3. NoticedInv => UnregisteredNeedsLinkFailure
  BY DEF NoticedInv, UnregisteredNeedsLinkFailure, Broken
<1>. QED  BY <1>1, <1>2, <1>3, TypeCorrect, RegistrationSafe, PTL DEF Spec

Kept(m, d) == Held(m, d) \/ Received(m, d) \/ m \in expired[d] \/ Broken(d)

KeptInv == \A m \in Messages, d \in Devices :
  Kind[m] # "event" /\ d \in Dest[m] /\ Submitted(m) => Kept(m, d)

Reliable == ~Faulty /\ MaxCrashes = 0

(* Without a crash a connection ends with its link. *)
BrokenInv ==
  /\ NoticedInv
  /\ \A c \in Conns : pc[c] = "closed" => ~link[c]
  /\ \A s \in Senders : hpc[s] = "idle" => targets[s] = {}

LEMMA BrokenNext ==
  ASSUME Reliable, TypeOK, RegisteredIsOpen, BrokenInv, [Next]_vars
  PROVE  BrokenInv' /\ \A c \in Conns : link'[c] => link[c]
<1>. USE RelayAssumption
<1>1. NoticedInv' /\ \A c \in Conns : link'[c] => link[c]
  BY NoticedNext DEF BrokenInv
<1>2. ~Crash
  BY DEF Reliable, Crash, TypeOK
<1>3. ASSUME NEW c \in Conns, pc'[c] = "closed" PROVE ~link'[c]
  <2>1. pc[c] \in {"offline", "closed"}
    BY <1>2, <1>3 DEF Next, Socket, Connect, SetOnline, Scan, Del, Rescan, ScanDone, Get, DequeueError,
       Deliver, DeliverStale, Run, ReaderEnd, Cleanup, SetOffline, Goto, Forward, SinkEnd, LinkDrop,
       Submit, Handler, Route, RemoveStale, Exists, Set, EnqueueError, LookupError, Ack, Expire,
       connVars, vars, TypeOK
  <2>. QED  BY <1>1, <2>1 DEF BrokenInv, NoticedInv
<1>4. ASSUME NEW s \in Senders, hpc'[s] = "idle" PROVE targets'[s] = {}
  <2>1. CASE UNCHANGED <<hpc, targets>>
    BY <1>4, <2>1 DEF BrokenInv
  <2>2. ASSUME NEW r \in Senders, NEW d \in Devices, Served(r, d) PROVE targets'[s] = {}
    BY <1>4, <2>2 DEF Served, BrokenInv, TypeOK
  <2>3. ASSUME NEW r \in Senders, NEW d \in Devices, Undelivered(r, d) PROVE targets'[s] = {}
    BY <1>4, <2>2, <2>3 DEF Undelivered, BrokenInv, TypeOK
  <2>4. ASSUME NEW r \in Senders, NEW to \in {"stale", "set"},
               hpc' = [hpc EXCEPT ![r] = to], targets' = targets
        PROVE  targets'[s] = {}
    BY <1>4, <2>4 DEF BrokenInv, TypeOK
  <2>5. ASSUME NEW r \in Senders, Submit(r) \/ Handler(r) PROVE targets'[s] = {}
    <3>1. hpc[r] \in {"stale", "exists", "set"} => cur[r] \in Devices
      BY DEF TypeOK
    <3>2. CASE \E d \in Devices : Route(r, d)
      BY <2>2, <2>3, <2>4, <3>2 DEF Route
    <3>3. CASE RemoveStale(r)
      BY <2>3, <3>1, <3>3 DEF RemoveStale
    <3>4. CASE Exists(r)
      BY <2>2, <2>4, <3>1, <3>4 DEF Exists
    <3>5. CASE Set(r) \/ EnqueueError(r)
      BY <2>2, <3>1, <3>5 DEF Set, EnqueueError
    <3>6. CASE LookupError(r)
      BY <1>4, <3>6 DEF LookupError, BrokenInv, TypeOK
    <3>7. CASE Submit(r)
      BY <1>4, <3>7 DEF Submit, BrokenInv, TypeOK
    <3>. QED  BY <2>5, <3>2, <3>3, <3>4, <3>5, <3>6, <3>7 DEF Handler
  <2>6. ASSUME NEW c \in Conns,
               Connect(c) \/ Socket(c) \/ Forward(c) \/ SinkEnd(c) \/ LinkDrop(c)
        PROVE  UNCHANGED <<hpc, targets>>
    BY <2>6 DEF Socket, Connect, SetOnline, Scan, Del, Rescan, ScanDone, Get, DequeueError,
                Deliver, DeliverStale, Run, ReaderEnd, Cleanup, SetOffline, Forward, SinkEnd,
                LinkDrop, handlerVars
  <2>7. ASSUME NEW d \in Devices, NEW m \in Messages, Ack(d, m) \/ Expire(d, m)
        PROVE  UNCHANGED <<hpc, targets>>
    BY <2>7 DEF Ack, Expire, handlerVars
  <2>8. CASE UNCHANGED vars
    BY <2>1, <2>8 DEF vars, handlerVars
  <2>. QED  BY <1>2, <2>1, <2>5, <2>6, <2>7, <2>8 DEF Next
<1>. QED  BY <1>1, <1>3, <1>4 DEF BrokenInv

(* What the relay does to the sequences messages are in. *)
LEMMA ToSetAppend ==
  ASSUME NEW S, NEW s \in Seq(S), NEW x \in S
  PROVE  ToSet(Append(s, x)) = ToSet(s) \cup {x}
<1>1. Append(s, x) \in Seq(S) /\ Len(Append(s, x)) = Len(s) + 1 /\ Len(s) \in Nat
      /\ DOMAIN s = 1 .. Len(s) /\ DOMAIN Append(s, x) = 1 .. Len(s) + 1
      /\ Append(s, x)[Len(s) + 1] = x
      /\ \A i \in 1 .. Len(s) : Append(s, x)[i] = s[i]
  BY AppendProperties
<1>. QED  BY <1>1 DEF ToSet

LEMMA ToSetHeadTail ==
  ASSUME NEW S, NEW s \in Seq(S), s # << >>
  PROVE  ToSet(s) = {Head(s)} \cup ToSet(Tail(s))
<1>1. /\ Len(s) \in Nat \ {0} /\ DOMAIN s = 1 .. Len(s) /\ Head(s) = s[1]
      /\ DOMAIN Tail(s) = 1 .. Len(s) - 1
      /\ \A i \in 1 .. Len(s) - 1 : Tail(s)[i] = s[i + 1]
  BY HeadTailProperties
<1>2. ASSUME NEW i \in 1 .. Len(s), i # 1 PROVE s[i] \in ToSet(Tail(s))
  <2>1. i - 1 \in 1 .. Len(s) - 1 /\ Tail(s)[i - 1] = s[i]
    BY <1>1, <1>2
  <2>. QED  BY <1>1, <2>1 DEF ToSet
<1>3. \A i \in 1 .. Len(s) - 1 : i + 1 \in 1 .. Len(s)
  BY <1>1
<1>. QED  BY <1>1, <1>2, <1>3 DEF ToSet

LEMMA ToSetEmpty == ToSet(<< >>) = {}
  BY DEF ToSet

(* A send puts the message where its device will look for it. *)
LEMMA SendIntoKeeps ==
  ASSUME TypeOK, RegisteredIsOpen, NEW d \in Devices, NEW x \in Messages, SendInto(d, x)
  PROVE  /\ InChannel(x, d)'
         /\ \A m, e : InChannel(m, e) => InChannel(m, e)'
<1>1. conns[d] \in Conns /\ DeviceOf[conns[d]] = d
  BY DEF SendInto, TypeOK, RegisteredIsOpen
<1>2. /\ ToSet(chan'[conns[d]]) = ToSet(chan[conns[d]]) \cup {x}
      /\ \A c \in Conns \ {conns[d]} : chan'[c] = chan[c]
  BY <1>1, ToSetAppend DEF SendInto, TypeOK
<1>. QED  BY <1>1, <1>2 DEF InChannel

(* Where nothing moves, and what has to be looked at where something does. *)
LEMMA StillKept ==
  ASSUME NEW m, NEW d, Kept(m, d),
         m \in queue[d] => m \in queue'[d] \/ Kept(m, d)',
         InHandler(m, d) => InHandler(m, d)' \/ Kept(m, d)',
         InDrain(m, d) => InDrain(m, d)' \/ Kept(m, d)',
         InChannel(m, d) => InChannel(m, d)' \/ Kept(m, d)',
         Received(m, d) => Received(m, d)', expired[d] \subseteq expired'[d],
         \A c \in Conns : link'[c] => link[c]
  PROVE  Kept(m, d)'
<1>1. Broken(d) => Broken(d)'
  BY BrokenStays
<1>. QED  BY <1>1 DEF Kept, Held

LEMMA DrainKeeps ==
  ASSUME TypeOK, RegisteredIsOpen, BrokenInv, NEW c \in Conns,
         \/ Del(c) \/ Deliver(c) \/ \E x \in Messages : Get(c, x),
         NEW m \in Messages, NEW d \in Devices, Kept(m, d)
  PROVE  Kept(m, d)'
<1>0. \A b \in Conns : DeviceOf[b] \in Devices
  BY RelayAssumption
<1>1. ASSUME NEW x \in Messages, Get(c, x) PROVE Kept(m, d)'
  <2>1. got[c] # NoMessage => got'[c] = got[c]
    BY <1>1 DEF Get, Goto, TypeOK
  <2>2. InDrain(m, d) => InDrain(m, d)'
    BY <1>1, <2>1, RelayAssumption DEF Get, InDrain, TypeOK
  <2>. QED
    BY <1>1, <2>2, StillKept DEF Get, handlerVars, InHandler, Message, InChannel, Received
<1>2. ASSUME Del(c) PROVE Kept(m, d)'
  <2>1. got[c] \in Messages
    BY <1>2 DEF Del, Goto, TypeOK
  <2>2. /\ ToSet(batch'[c]) = ToSet(batch[c]) \cup {got[c]}
        /\ \A b \in Conns \ {c} : batch'[b] = batch[b] /\ got'[b] = got[b]
    BY <1>2, <2>1, ToSetAppend DEF Del, TypeOK
  <2>3. InDrain(m, d) => InDrain(m, d)'
    BY <2>2 DEF InDrain
  <2>4. m \in queue[d] => m \in queue'[d] \/ InDrain(m, d)'
    BY <1>0, <1>2, <2>2 DEF Del, InDrain, TypeOK
  <2>. QED
    BY <1>2, <2>3, <2>4, StillKept
       DEF Del, handlerVars, InHandler, Message, InChannel, Received, Kept, Held
<1>3. ASSUME Deliver(c) PROVE Kept(m, d)'
  <2>0. Head(batch[c]) \in Messages
    BY <1>3, HeadTailType DEF Deliver, TypeOK
  <2>. PICK x \in Messages : x = Head(batch[c])
    BY <2>0
  <2>1. ToSet(batch[c]) = {x} \cup ToSet(Tail(batch[c]))
    BY <1>3, ToSetHeadTail DEF Deliver, TypeOK
  <2>2. batch'[c] = Tail(batch[c]) /\ \A b \in Conns \ {c} : batch'[b] = batch[b]
    BY <1>3 DEF Deliver, TypeOK
  <2>3. \/ SendInto(DeviceOf[c], x)
        \/ chan' = chan /\ (ChannelClosed(DeviceOf[c]) \/ conns[DeviceOf[c]] = NoConn)
    BY <1>3 DEF Deliver
  <2>4. ChannelClosed(DeviceOf[c]) \/ conns[DeviceOf[c]] = NoConn => Broken(DeviceOf[c])
    <3>1. ASSUME NEW e \in Devices, ChannelClosed(e) PROVE Broken(e)
      <4>1. conns[e] \in Conns /\ DeviceOf[conns[e]] = e /\ ~link[conns[e]]
        BY <3>1 DEF ChannelClosed, BrokenInv, NoticedInv, TypeOK, RegisteredIsOpen
      <4>. QED  BY <4>1 DEF Broken
    <3>2. CASE conns[DeviceOf[c]] = NoConn
      BY <1>3, <3>2 DEF Deliver, BrokenInv, NoticedInv, Open
    <3>. QED  BY <1>0, <3>1, <3>2
  <2>5. link' = link /\ got' = got /\ (Broken(d) => Broken(d)')
    BY <1>3, BrokenStays DEF Deliver
  <2>6. DeviceOf[c] = d => InChannel(x, d)' \/ Broken(d)
    BY <1>0, <2>3, <2>4, SendIntoKeeps
  <2>7. InChannel(m, d) => InChannel(m, d)'
    BY <1>0, <2>1, <2>3, SendIntoKeeps DEF InChannel
  <2>8. InDrain(m, d) => InDrain(m, d)' \/ InChannel(m, d)' \/ Broken(d)
    <3>1. ASSUME NEW b \in Conns, DeviceOf[b] = d, got[b] = m \/ m \in ToSet(batch[b])
          PROVE  InDrain(m, d)' \/ InChannel(m, d)' \/ Broken(d)
      <4>1. CASE b = c /\ m = x
        BY <2>6, <3>1, <4>1
      <4>2. CASE ~(b = c /\ m = x)
        BY <2>1, <2>2, <2>5, <3>1, <4>2 DEF InDrain
      <4>. QED  BY <4>1, <4>2
    <3>. QED  BY <3>1 DEF InDrain
  <2>9. InDrain(m, d) => InDrain(m, d)' \/ Kept(m, d)'
    BY <2>5, <2>8 DEF Kept, Held
  <2>. QED
    BY <1>3, <2>5, <2>7, <2>9, StillKept DEF Deliver, handlerVars, InHandler, Message, Received
<1>. QED  BY <1>1, <1>2, <1>3

LEMMA SinkKeeps ==
  ASSUME TypeOK, RegisteredIsOpen, BrokenInv, NEW c \in Conns,
         Forward(c) \/ SinkEnd(c) \/ Cleanup(c),
         NEW m \in Messages, NEW d \in Devices, Kept(m, d)
  PROVE  Kept(m, d)'
<1>0. \A b \in Conns : DeviceOf[b] \in Devices
  BY RelayAssumption
<1>1. ASSUME Forward(c) PROVE Kept(m, d)'
  <2>0. Head(chan[c]) \in Messages
    BY <1>1, HeadTailType DEF Forward, TypeOK
  <2>. PICK x \in Messages : x = Head(chan[c])
    BY <2>0
  <2>1. ToSet(chan[c]) = {x} \cup ToSet(chan'[c])
        /\ \A b \in Conns \ {c} : chan'[b] = chan[b]
    BY <1>1, ToSetHeadTail DEF Forward, TypeOK
  <2>2. CASE link[c]
    <3>1. /\ ToSet(received'[DeviceOf[c]]) = ToSet(received[DeviceOf[c]]) \cup {x}
          /\ \A e \in Devices \ {DeviceOf[c]} : received'[e] = received[e]
      BY <1>0, <1>1, <2>2, ToSetAppend DEF Forward, TypeOK
    <3>2. InChannel(m, d) => InChannel(m, d)' \/ Received(m, d)'
      BY <2>1, <3>1 DEF InChannel, Received
    <3>3. Received(m, d) => Received(m, d)'
      BY <3>1 DEF Received
    <3>. QED
      BY <1>1, <3>2, <3>3, StillKept
         DEF Forward, handlerVars, InHandler, Message, InDrain, Kept
  <2>3. CASE ~link[c]
    <3>1. InChannel(m, d) => InChannel(m, d)' \/ Broken(d)'
      BY <1>1, <2>1, <2>3 DEF InChannel, Broken, Forward
    <3>. QED
      BY <1>1, <2>3, <3>1, StillKept
         DEF Forward, handlerVars, InHandler, Message, InDrain, Received, Kept
  <2>. QED  BY <2>2, <2>3
<1>2. ASSUME SinkEnd(c) \/ Cleanup(c) PROVE Kept(m, d)'
  <2>1. ~link[c] \/ chan[c] = << >>
    BY <1>2 DEF SinkEnd, Cleanup, Goto, BrokenInv, NoticedInv
  <2>2. /\ UNCHANGED <<link, queue, at, targets, got, batch, received, expired>>
        /\ \A b \in Conns \ {c} : chan'[b] = chan[b]
    BY <1>2 DEF SinkEnd, Cleanup, handlerVars, TypeOK
  <2>3. InChannel(m, d) => InChannel(m, d)' \/ Broken(d)'
    BY <2>1, <2>2, ToSetEmpty DEF InChannel, Broken
  <2>. QED
    BY <2>2, <2>3, StillKept DEF InHandler, Message, InDrain, Received, Kept
<1>. QED  BY <1>1, <1>2

(* A handler passes a message on before it is done with a device. *)
LEMMA ServedKeeps ==
  ASSUME TypeOK, NEW s \in Senders, NEW e \in Devices, Served(s, e), at' = at,
         NEW m, NEW d, InHandler(m, d)
  PROVE  InHandler(m, d)' \/ (m = Message(s) /\ d = e)
  BY DEF Served, InHandler, Message, TypeOK

LEMMA UndeliveredKeeps ==
  ASSUME TypeOK, NEW s \in Senders, NEW e \in Devices, Undelivered(s, e), at' = at,
         NEW m, NEW d, Kind[m] # "event", InHandler(m, d)
  PROVE  InHandler(m, d)'
<1>1. CASE Kind[Message(s)] = "event"
  BY <1>1, ServedKeeps DEF Undelivered
<1>2. CASE Kind[Message(s)] # "event"
  BY <1>2 DEF Undelivered, InHandler, Message
<1>. QED  BY <1>1, <1>2

LEMMA HandlerKeeps ==
  ASSUME Reliable, TypeOK, RegisteredIsOpen, NEW s \in Senders, Handler(s),
         NEW m \in Messages, NEW d \in Devices, Kind[m] # "event", Kept(m, d)
  PROVE  Kept(m, d)'
<1>1. ASSUME NEW e \in Devices, Route(s, e) PROVE Kept(m, d)'
  <2>1. /\ UNCHANGED <<link, queue, at, got, batch, received, expired>>
        /\ Message(s) \in Messages
    BY <1>1, MessageType DEF Route
  <2>2. CASE SendInto(e, Message(s)) /\ Served(s, e)
    <3>. PICK x \in Messages : x = Message(s)
      BY <2>1
    <3>1. InChannel(x, e)' /\ (InChannel(m, d) => InChannel(m, d)')
      BY <2>2, SendIntoKeeps
    <3>2. InHandler(m, d) => InHandler(m, d)' \/ InChannel(m, d)'
      BY <2>1, <2>2, <3>1, ServedKeeps
    <3>. QED  BY <2>1, <3>1, <3>2, StillKept DEF InDrain, Received, Kept, Held
  <2>3. CASE UNCHANGED <<chan, targets>>
    BY <2>1, <2>3, StillKept DEF InHandler, Message, InDrain, InChannel, Received
  <2>4. CASE Undelivered(s, e) /\ UNCHANGED chan
    <3>1. InHandler(m, d) => InHandler(m, d)'
      BY <2>1, <2>4, UndeliveredKeeps
    <3>. QED  BY <2>1, <2>4, <3>1, StillKept DEF InDrain, InChannel, Received
  <2>. QED  BY <1>1, <2>2, <2>3, <2>4 DEF Route
<1>2. ASSUME RemoveStale(s) PROVE Kept(m, d)'
  <2>1. /\ UNCHANGED <<link, chan, queue, at, got, batch, received, expired>>
        /\ cur[s] \in Devices /\ Undelivered(s, cur[s])
    BY <1>2 DEF RemoveStale, connVars, TypeOK
  <2>2. InHandler(m, d) => InHandler(m, d)'
    BY <2>1, UndeliveredKeeps
  <2>. QED  BY <2>1, <2>2, StillKept DEF InDrain, InChannel, Received
<1>3. ASSUME Exists(s) PROVE Kept(m, d)'
  <2>1. /\ UNCHANGED <<link, chan, queue, at, got, batch, received, expired>>
        /\ cur[s] \in Devices
    BY <1>3 DEF Exists, connVars, TypeOK
  <2>2. InHandler(m, d) => InHandler(m, d)' \/ m \in queue'[d]
    <3>1. CASE UNCHANGED targets
      BY <2>1, <3>1 DEF InHandler, Message
    <3>2. CASE Message(s) \in queue[cur[s]] /\ Served(s, cur[s])
      BY <2>1, <3>2, ServedKeeps
    <3>. QED  BY <1>3, <3>1, <3>2 DEF Exists
  <2>. QED  BY <2>1, <2>2, StillKept DEF InDrain, InChannel, Received, Kept, Held
<1>4. ASSUME Set(s) PROVE Kept(m, d)'
  <2>1. /\ UNCHANGED <<link, chan, at, got, batch, received, expired>>
        /\ cur[s] \in Devices /\ Served(s, cur[s])
        /\ queue' = [queue EXCEPT ![cur[s]] = @ \cup {Message(s)}]
    BY <1>4 DEF Set, connVars, TypeOK
  <2>2. m \in queue[d] => m \in queue'[d]
    BY <2>1 DEF TypeOK
  <2>3. InHandler(m, d) => InHandler(m, d)' \/ m \in queue'[d]
    BY <2>1, ServedKeeps DEF TypeOK
  <2>. QED  BY <2>1, <2>2, <2>3, StillKept DEF InDrain, InChannel, Received, Kept, Held
<1>. QED  BY <1>1, <1>2, <1>3, <1>4 DEF Handler, EnqueueError, LookupError, Reliable

(* Every message the relay takes is handed to the loop over its devices. *)
LEMMA SubmitKeeps ==
  ASSUME TypeOK, BrokenInv, KeptInv, NEW s \in Senders, Submit(s),
         NEW m \in Messages, NEW d \in Devices,
         Kind[m] # "event", d \in Dest[m], Submitted(m)'
  PROVE  Kept(m, d)'
<1>1. /\ UNCHANGED <<link, chan, queue, got, batch, received, expired>>
      /\ at[s] \in Nat /\ at'[s] = at[s] + 1 /\ targets[s] = {}
      /\ targets'[s] = Dest[Script[s][at[s] + 1]]
      /\ \A r \in Senders \ {s} : at'[r] = at[r] /\ targets'[r] = targets[r]
  BY DEF Submit, connVars, TypeOK, BrokenInv
<1>2. InHandler(m, d) => InHandler(m, d)'
  BY <1>1 DEF InHandler, Message
<1>3. CASE Submitted(m)
  <2>1. Kept(m, d)
    BY <1>3 DEF KeptInv
  <2>. QED  BY <1>1, <1>2, <2>1, StillKept DEF InDrain, InChannel, Received
<1>4. CASE ~Submitted(m)
  <2>1. Script[s][at[s] + 1] = m
    <3>1. PICK r \in Senders : \E i \in 1 .. at'[r] : Script[r][i] = m
      BY DEF Submitted
    <3>2. r = s
      BY <1>1, <1>4, <3>1 DEF Submitted
    <3>. QED  BY <1>1, <1>4, <3>1, <3>2 DEF Submitted
  <2>2. InHandler(m, d)'
    BY <1>1, <2>1 DEF InHandler, Message
  <2>. QED  BY <2>2 DEF Kept, Held
<1>. QED  BY <1>3, <1>4

LEMMA KeptNext ==
  ASSUME Reliable, TypeOK, RegisteredIsOpen, BrokenInv, KeptInv, [Next]_vars
  PROVE  KeptInv'
<1>. SUFFICES ASSUME NEW m \in Messages, NEW d \in Devices,
                     Kind[m] # "event", d \in Dest[m], Submitted(m)'
              PROVE  Kept(m, d)'
  BY DEF KeptInv
<1>1. ASSUME NEW s \in Senders, Submit(s) PROVE Kept(m, d)'
  BY <1>1, SubmitKeeps
<1>2. ASSUME at' = at PROVE Kept(m, d)
  BY <1>2 DEF Submitted, KeptInv
<1>3. \A c \in Conns : link'[c] => link[c]
  BY BrokenNext
<1>4. ASSUME UNCHANGED <<queue, at, targets, got, batch, chan, received, expired>>
      PROVE  Kept(m, d)'
  BY <1>2, <1>3, <1>4, StillKept DEF InHandler, Message, InDrain, InChannel, Received
<1>5. ASSUME NEW c \in Conns,
             \/ Connect(c) \/ SetOnline(c) \/ Scan(c) \/ Rescan(c) \/ ScanDone(c)
             \/ DeliverStale(c) \/ Run(c) \/ ReaderEnd(c) \/ SetOffline(c) \/ LinkDrop(c)
      PROVE  Kept(m, d)'
  BY <1>4, <1>5 DEF Connect, SetOnline, Scan, Rescan, ScanDone, DeliverStale, Run, ReaderEnd,
                    SetOffline, LinkDrop, handlerVars
<1>6. ASSUME NEW c \in Conns, Del(c) \/ Deliver(c) \/ \E x \in Messages : Get(c, x)
      PROVE  Kept(m, d)'
  <2>1. at' = at
    BY <1>6 DEF Del, Deliver, Get, handlerVars
  <2>. QED  BY <1>2, <1>6, <2>1, DrainKeeps
<1>7. ASSUME NEW c \in Conns, Forward(c) \/ SinkEnd(c) \/ Cleanup(c) PROVE Kept(m, d)'
  <2>1. at' = at
    BY <1>7 DEF Forward, SinkEnd, Cleanup, handlerVars
  <2>. QED  BY <1>2, <1>7, <2>1, SinkKeeps
<1>8. ASSUME NEW s \in Senders, Handler(s) PROVE Kept(m, d)'
  <2>1. at' = at
    BY <1>8 DEF Handler, Route, RemoveStale, Exists, Set, EnqueueError, LookupError
  <2>. QED  BY <1>2, <1>8, <2>1, HandlerKeeps
<1>9. ASSUME NEW e \in Devices, NEW x \in Messages, Ack(e, x) \/ Expire(e, x)
      PROVE  Kept(m, d)'
  <2>1. /\ UNCHANGED <<at, targets, got, batch, chan, received>>
        /\ expired[d] \subseteq expired'[d]
        /\ m \in queue[d] => m \in queue'[d] \/ Received(m, d)' \/ m \in expired'[d]
    <3>1. CASE Ack(e, x)
      BY <3>1 DEF Ack, connVars, handlerVars, TypeOK, Received
    <3>2. CASE Expire(e, x)
      BY <3>2 DEF Expire, connVars, handlerVars, TypeOK
    <3>. QED  BY <1>9, <3>1, <3>2
  <2>. QED
    BY <1>2, <1>3, <2>1, StillKept DEF InHandler, Message, InDrain, InChannel, Received, Kept
<1>10. CASE UNCHANGED vars
  BY <1>4, <1>10 DEF vars, connVars, handlerVars
<1>11. ~Crash /\ \A c \in Conns : ~DequeueError(c)
  BY DEF Reliable, Crash, DequeueError, TypeOK
<1>. QED
  BY <1>1, <1>5, <1>6, <1>7, <1>8, <1>9, <1>10, <1>11 DEF Next, Socket

(* What relaying promises while commands succeed and the process lives, however
   senders, reconnections, drains and removals of stale entries interleave, for any
   number of them: a message is lost only with a link of a connection of its device. *)
THEOREM LossNeedsFailure == ASSUME Reliable PROVE Spec => []LossNeedsLinkFailure
<1>1. Init => BrokenInv /\ KeptInv
  <2>. SUFFICES ASSUME Init PROVE BrokenInv /\ KeptInv
    OBVIOUS
  <2>1. BrokenInv
    BY DEF Init, BrokenInv, NoticedInv, Open
  <2>2. \A m : ~Submitted(m)
    BY DEF Init, Submitted
  <2>. QED  BY <2>1, <2>2 DEF KeptInv
<1>2. TypeOK /\ RegisteredIsOpen /\ BrokenInv /\ KeptInv /\ [Next]_vars
        => BrokenInv' /\ KeptInv'
  BY BrokenNext, KeptNext
<1>3. KeptInv => LossNeedsLinkFailure
  BY DEF KeptInv, Kept, LossNeedsLinkFailure, Lost, Broken
<1>. QED  BY <1>1, <1>2, <1>3, TypeCorrect, RegistrationSafe, PTL DEF Spec

-----------------------------------------------------------------------------
(* is_online, also when connections of a device overlap and the process crashes. *)

\* OnlineAgrees, and two open connections of a device have met.
OnlineInv ==
  /\ OnlineAgrees
  /\ \A c, e \in Conns : DeviceOf[c] = DeviceOf[e] /\ Open(c) /\ Open(e) /\ c # e
       => {<<c, e>>, <<e, c>>} \cap met # {}

(* A step that changes no connection from closed to open or back. *)
LEMMA OnlineSame ==
  ASSUME OnlineInv, online' = online,
         UNCHANGED <<met, crashes>>,
         \A c \in Conns : /\ Open(c)' <=> Open(c)
                          /\ pc'[c] = "online" <=> pc[c] = "online"
                          /\ pc[c] = "closed" => pc'[c] = "closed"
  PROVE  OnlineInv'
  BY DEF OnlineInv, OnlineAgrees

(* While its updates succeed, is_online errs in two ways only, however the connections of a
   device overlap: an older connection that closes after a newer one was marked online takes
   the mark away, and a crash leaves it. *)
THEOREM OnlineIsConnected ==
  ASSUME ~Faulty PROVE Spec => []OnlineAgrees
<1>1. Init => OnlineInv
  BY DEF Init, OnlineInv, OnlineAgrees, Open
<1>2. TypeOK /\ OnlineInv /\ [Next]_vars => OnlineInv'
  <2>. SUFFICES ASSUME TypeOK, OnlineInv, [Next]_vars PROVE OnlineInv'
    OBVIOUS
  <2>. USE RelayAssumption
  <2>1. ASSUME NEW c \in Conns, Connect(c) PROVE OnlineInv'
    <3>1. /\ ~Open(c) /\ Open(c)' /\ pc'[c] = "online" /\ pc[c] # "closed"
          /\ \A e \in Conns \ {c} : pc'[e] = pc[e] /\ (Open(e)' <=> Open(e))
          /\ online' = online /\ crashes' = crashes
          /\ met' = met \cup {<<e, c>> : e \in {e \in Conns : DeviceOf[e] = DeviceOf[c] /\ Open(e)}}
      BY <2>1 DEF Connect, Goto, Open, TypeOK
    <3>2. ASSUME NEW b \in Conns, Open(b)', pc'[b] # "online", ~online'[DeviceOf[b]]
          PROVE  \E e \in Conns : pc'[e] = "closed" /\ {<<b, e>>, <<e, b>>} \cap met' # {}
      <4>1. Open(b) /\ pc[b] # "online" /\ ~online[DeviceOf[b]]
        BY <3>1, <3>2
      <4>2. PICK e \in Conns : pc[e] = "closed" /\ {<<b, e>>, <<e, b>>} \cap met # {}
        BY <4>1 DEF OnlineInv, OnlineAgrees
      <4>. QED  BY <3>1, <4>2
    <3>3. \A d \in Devices :
            crashes' = 0 /\ online'[d] => \E e \in Conns : DeviceOf[e] = d /\ Open(e)'
      BY <3>1 DEF OnlineInv, OnlineAgrees
    <3>4. ASSUME NEW b \in Conns, NEW e \in Conns, b # e, DeviceOf[b] = DeviceOf[e],
                 Open(b)', Open(e)'
          PROVE  {<<b, e>>, <<e, b>>} \cap met' # {}
      <4>1. CASE b = c
        <5>1. <<e, b>> \in met'
          BY <3>1, <3>4, <4>1
        <5>. QED  BY <5>1
      <4>2. CASE e = c
        <5>1. <<b, e>> \in met'
          BY <3>1, <3>4, <4>2
        <5>. QED  BY <5>1
      <4>3. CASE b # c /\ e # c
        <5>1. {<<b, e>>, <<e, b>>} \cap met # {}
          BY <3>1, <3>4, <4>3 DEF OnlineInv
        <5>. QED  BY <3>1, <5>1
      <4>. QED  BY <4>1, <4>2, <4>3
    <3>. QED  BY <3>2, <3>3, <3>4 DEF OnlineInv, OnlineAgrees
  <2>2. ASSUME NEW c \in Conns, SetOnline(c) PROVE OnlineInv'
    <3>1. /\ online' = [online EXCEPT ![DeviceOf[c]] = TRUE] /\ DeviceOf[c] \in Devices
          /\ \A e \in Conns \ {c} : pc'[e] = pc[e]
          /\ \A e \in Conns : Open(e)' <=> Open(e)
          /\ Open(c) /\ pc[c] # "closed" /\ UNCHANGED <<met, crashes>>
      BY <2>2 DEF SetOnline, Goto, Open, TypeOK
    <3>2. ASSUME NEW b \in Conns, Open(b)', pc'[b] # "online", ~online'[DeviceOf[b]]
          PROVE  \E e \in Conns : pc'[e] = "closed" /\ {<<b, e>>, <<e, b>>} \cap met # {}
      <4>1. DeviceOf[b] # DeviceOf[c] /\ ~online[DeviceOf[b]] /\ Open(b) /\ pc[b] # "online"
        BY <3>1, <3>2 DEF TypeOK
      <4>2. PICK e \in Conns : pc[e] = "closed" /\ {<<b, e>>, <<e, b>>} \cap met # {}
        BY <4>1 DEF OnlineInv, OnlineAgrees
      <4>. QED  BY <3>1, <4>2
    <3>3. ASSUME NEW d \in Devices, crashes' = 0, online'[d]
          PROVE  \E e \in Conns : DeviceOf[e] = d /\ Open(e)'
      <4>1. d = DeviceOf[c] \/ (online[d] /\ crashes = 0)
        BY <3>1, <3>3 DEF TypeOK
      <4>. QED  BY <3>1, <4>1 DEF OnlineInv, OnlineAgrees
    <3>. QED  BY <3>1, <3>2, <3>3 DEF OnlineInv, OnlineAgrees
  <2>3. ASSUME NEW c \in Conns, SetOffline(c) PROVE OnlineInv'
    <3>1. /\ Open(c) /\ ~Open(c)' /\ pc'[c] = "closed" /\ DeviceOf[c] \in Devices
          /\ \A e \in Conns \ {c} : pc'[e] = pc[e] /\ (Open(e)' <=> Open(e))
          /\ online' = [online EXCEPT ![DeviceOf[c]] = FALSE]
          /\ UNCHANGED <<met, crashes>>
      BY <2>3 DEF SetOffline, Goto, Open, TypeOK
    <3>2. ASSUME NEW b \in Conns, Open(b)', pc'[b] # "online", ~online'[DeviceOf[b]]
          PROVE  \E e \in Conns : pc'[e] = "closed" /\ {<<b, e>>, <<e, b>>} \cap met # {}
      <4>1. b # c /\ Open(b) /\ pc[b] # "online"
        BY <3>1, <3>2
      <4>2. CASE DeviceOf[b] = DeviceOf[c]
        BY <3>1, <4>1, <4>2 DEF OnlineInv
      <4>3. CASE DeviceOf[b] # DeviceOf[c]
        <5>1. ~online[DeviceOf[b]]
          BY <3>1, <3>2, <4>3 DEF TypeOK
        <5>. QED  BY <3>1, <4>1, <5>1 DEF OnlineInv, OnlineAgrees
      <4>. QED  BY <4>2, <4>3
    <3>3. ASSUME NEW d \in Devices, crashes' = 0, online'[d]
          PROVE  \E e \in Conns : DeviceOf[e] = d /\ Open(e)'
      <4>1. d # DeviceOf[c] /\ online[d] /\ crashes = 0
        BY <3>1, <3>3 DEF TypeOK
      <4>. QED  BY <3>1, <4>1 DEF OnlineInv, OnlineAgrees
    <3>4. \A b, e \in Conns : DeviceOf[b] = DeviceOf[e] /\ Open(b)' /\ Open(e)' /\ b # e
            => {<<b, e>>, <<e, b>>} \cap met' # {}
      BY <3>1 DEF OnlineInv
    <3>. QED  BY <3>1, <3>2, <3>3, <3>4 DEF OnlineInv, OnlineAgrees
  <2>4. ASSUME NEW c \in Conns,
               \/ Scan(c) \/ Del(c) \/ Rescan(c) \/ ScanDone(c) \/ Run(c) \/ DequeueError(c)
               \/ ReaderEnd(c) \/ Cleanup(c) \/ Deliver(c) \/ DeliverStale(c)
               \/ Forward(c) \/ SinkEnd(c) \/ LinkDrop(c) \/ \E m \in Messages : Get(c, m)
        PROVE  OnlineInv'
    <3>1. UNCHANGED <<online, met, crashes>>
      BY <2>4 DEF Scan, Del, Rescan, ScanDone, Run, DequeueError, ReaderEnd, Cleanup, Deliver,
                  DeliverStale, Forward, SinkEnd, LinkDrop, Get
    <3>2. \/ pc' = pc
          \/ \E to \in ConnPhases \ {"idle", "online", "closed"} :
               /\ pc' = [pc EXCEPT ![c] = to]
               /\ pc[c] \notin {"idle", "online", "closed"}
      BY <2>4 DEF Scan, Del, Rescan, ScanDone, Run, DequeueError, ReaderEnd, Cleanup, Deliver,
                  DeliverStale, Forward, SinkEnd, LinkDrop, Get, Goto, ConnPhases
    <3>. QED  BY <3>1, <3>2, OnlineSame DEF Open, TypeOK
  <2>5. ASSUME NEW s \in Senders, Submit(s) \/ Handler(s) PROVE OnlineInv'
    <3>1. UNCHANGED <<online, met, crashes, pc>>
      BY <2>5 DEF Submit, Handler, Route, RemoveStale, Exists, Set, EnqueueError,
                  LookupError, connVars
    <3>. QED  BY <3>1, OnlineSame DEF Open
  <2>6. ASSUME NEW d \in Devices, NEW m \in Messages, Ack(d, m) \/ Expire(d, m)
        PROVE  OnlineInv'
    BY <2>6, OnlineSame DEF Ack, Expire, connVars, Open
  <2>7. CASE UNCHANGED vars
    BY <2>7, OnlineSame DEF vars, connVars, Open
  <2>8. CASE Crash
    BY <2>8 DEF Crash, OnlineInv, OnlineAgrees, Open, TypeOK
  <2>. QED
    BY <2>1, <2>2, <2>3, <2>4, <2>5, <2>6, <2>7, <2>8 DEF Next, Socket
<1>3. OnlineInv => OnlineAgrees
  BY DEF OnlineInv
<1>. QED  BY <1>1, <1>2, <1>3, TypeCorrect, PTL DEF Spec
-----------------------------------------------------------------------------
(* The relay implements the mailbox.  A copy is in one place, so a step moves it,  *)
(* drops it or leaves it where it is.                                              *)

(* Message ids are unique. *)
Once == \A r, s \in Senders : \A i \in 1 .. Len(Script[r]), j \in 1 .. Len(Script[s]) :
  Script[r][i] = Script[s][j] => r = s /\ i = j

NoRepeat(s) == \A i, j \in DOMAIN s : s[i] = s[j] => i = j

InBatch(m, d) == \E c \in Conns : DeviceOf[c] = d /\ m \in ToSet(batch[c])

Place(m, d) ==
  /\ InHandler(m, d) =>
       m \notin queue[d] /\ ~InDrain(m, d) /\ ~InChannel(m, d) /\ ~Received(m, d)
  /\ m \in queue[d] => ~InBatch(m, d) /\ ~InChannel(m, d) /\ ~Received(m, d)
  /\ InDrain(m, d) => ~InChannel(m, d) /\ ~Received(m, d)
  /\ InChannel(m, d) => ~Received(m, d)
  /\ Held(m, d) \/ Received(m, d) => Submitted(m)

Draining(c) == pc[c] \in {"scan", "drain", "del", "deliver", "stale"}
Working(c) == pc[c] \notin {"idle", "offline", "closed"}

(* What a connection works with is different messages, and nothing before and after. *)
Tidy(c) ==
  /\ NoRepeat(batch[c]) /\ NoRepeat(chan[c]) /\ got[c] \notin ToSet(batch[c])
  /\ Draining(c) \/ (batch[c] = << >> /\ got[c] = NoMessage)
  /\ Working(c) \/ chan[c] = << >>

Alone == \A c, e \in Conns : DeviceOf[c] = DeviceOf[e] /\ Open(c) /\ Open(e) => c = e

PlaceInv ==
  /\ \A m \in Messages, d \in Devices : Place(m, d)
  /\ \A c \in Conns : Tidy(c)
  /\ Alone
  /\ \A s \in Senders : hpc[s] = "idle" => targets[s] = {}
  /\ \A d \in Devices : NoRepeat(received[d])

LEMMA NoRepeatAppend ==
  ASSUME NEW S, NEW s \in Seq(S), NEW x \in S, NoRepeat(s), x \notin ToSet(s)
  PROVE  NoRepeat(Append(s, x))
<1>1. Append(s, x) \in Seq(S) /\ Len(Append(s, x)) = Len(s) + 1 /\ Len(s) \in Nat
      /\ DOMAIN s = 1 .. Len(s) /\ DOMAIN Append(s, x) = 1 .. Len(s) + 1
      /\ Append(s, x)[Len(s) + 1] = x
      /\ \A i \in 1 .. Len(s) : Append(s, x)[i] = s[i]
  BY AppendProperties
<1>2. \A i \in 1 .. Len(s) : s[i] # x
  BY <1>1 DEF ToSet
<1>3. ASSUME NEW i \in 1 .. Len(s) + 1, NEW j \in 1 .. Len(s) + 1,
             Append(s, x)[i] = Append(s, x)[j]
      PROVE  i = j
  BY <1>1, <1>2, <1>3 DEF NoRepeat
<1>. QED  BY <1>1, <1>3 DEF NoRepeat

LEMMA NoRepeatTail ==
  ASSUME NEW S, NEW s \in Seq(S), s # << >>, NoRepeat(s)
  PROVE  NoRepeat(Tail(s)) /\ Head(s) \notin ToSet(Tail(s))
<1>1. /\ Len(s) \in Nat \ {0} /\ DOMAIN s = 1 .. Len(s) /\ Head(s) = s[1]
      /\ DOMAIN Tail(s) = 1 .. Len(s) - 1
      /\ \A i \in 1 .. Len(s) - 1 : Tail(s)[i] = s[i + 1] /\ i + 1 \in 1 .. Len(s) /\ i + 1 # 1
  BY HeadTailProperties
<1>. QED  BY <1>1 DEF NoRepeat, ToSet

(* A step brings the copy to no place where it was not. *)
Fewer(m, d) ==
  /\ m \in queue'[d] => m \in queue[d]
  /\ InHandler(m, d)' => InHandler(m, d)
  /\ InDrain(m, d)' => InDrain(m, d)
  /\ InBatch(m, d)' => InBatch(m, d)
  /\ InChannel(m, d)' => InChannel(m, d)
  /\ Received(m, d)' => Received(m, d)

LEMMA PlaceLess ==
  ASSUME NEW m, NEW d, Place(m, d), Fewer(m, d), Submitted(m) => Submitted(m)'
  PROVE  Place(m, d)' /\ (Held(m, d)' => Held(m, d))
  BY DEF Place, Held, Fewer

LEMMA SubmittedStays ==
  ASSUME at' = at, NEW m
  PROVE  Submitted(m)' <=> Submitted(m)
  BY DEF Submitted

(* The connections of a device but its open one hold nothing. *)
LEMMA OnlyOne ==
  ASSUME TypeOK, PlaceInv, NEW c \in Conns, Open(c), NEW m \in Messages
  PROVE  /\ InBatch(m, DeviceOf[c]) <=> m \in ToSet(batch[c])
         /\ InChannel(m, DeviceOf[c]) <=> m \in ToSet(chan[c])
         /\ InDrain(m, DeviceOf[c]) <=> got[c] = m \/ m \in ToSet(batch[c])
<1>1. \A e \in Conns \ {c} : DeviceOf[e] = DeviceOf[c] => ~Open(e)
  BY DEF PlaceInv, Alone
<1>2. \A e \in Conns \ {c} : DeviceOf[e] = DeviceOf[c] =>
        chan[e] = << >> /\ batch[e] = << >> /\ got[e] = NoMessage
  BY <1>1 DEF PlaceInv, Tidy, Open, Draining, Working
<1>3. m # NoMessage
  BY RelayAssumption
<1>. QED  BY <1>2, <1>3, ToSetEmpty DEF InBatch, InChannel, InDrain

(* Two handlers never work on the same message. *)
LEMMA OneHandler ==
  ASSUME Once, TypeOK, PlaceInv, NEW r \in Senders, NEW s \in Senders,
         targets[r] # {}, targets[s] # {}, Message(r) = Message(s)
  PROVE  r = s
<1>1. hpc[r] # "idle" /\ hpc[s] # "idle"
  BY DEF PlaceInv
<1>2. at[r] \in 1 .. Len(Script[r]) /\ at[s] \in 1 .. Len(Script[s])
  BY <1>1, RelayAssumption DEF TypeOK
<1>. QED  BY <1>2 DEF Once, Message

(* No copy is taken or given out, though some may be lost. *)
Loses ==
  /\ at' = at /\ received' = received
  /\ \A m \in Messages, d \in Devices : Held(m, d)' => Held(m, d)

LEMMA ToSetType ==
  ASSUME TypeOK, NEW c \in Conns
  PROVE  ToSet(batch[c]) \subseteq Messages /\ ToSet(chan[c]) \subseteq Messages
  BY DEF TypeOK, ToSet

LEMMA Shrinks ==
  ASSUME TypeOK, PlaceInv, at' = at, received' = received, Alone',
         \A d \in Devices : queue'[d] \subseteq queue[d],
         \A s \in Senders : /\ targets'[s] \subseteq targets[s]
                            /\ hpc'[s] = "idle" => targets'[s] = {},
         \A c \in Conns :
           /\ NoRepeat(batch'[c]) /\ ToSet(batch'[c]) \subseteq ToSet(batch[c])
           /\ NoRepeat(chan'[c]) /\ ToSet(chan'[c]) \subseteq ToSet(chan[c])
           /\ got'[c] \in {got[c], NoMessage}
           /\ Draining(c)' \/ (batch'[c] = << >> /\ got'[c] = NoMessage)
           /\ Working(c)' \/ chan'[c] = << >>
  PROVE  PlaceInv' /\ Loses
<1>1. ASSUME NEW m \in Messages, NEW d \in Devices
      PROVE  Place(m, d)' /\ (Held(m, d)' => Held(m, d))
  <2>1. m # NoMessage
    BY RelayAssumption
  <2>2. InHandler(m, d)' => InHandler(m, d)
    BY DEF InHandler, Message
  <2>3. /\ InDrain(m, d)' => InDrain(m, d)
        /\ InBatch(m, d)' => InBatch(m, d)
        /\ InChannel(m, d)' => InChannel(m, d)
    BY <2>1 DEF InDrain, InBatch, InChannel
  <2>4. Place(m, d)
    BY DEF PlaceInv
  <2>5. m \in queue'[d] => m \in queue[d]
    OBVIOUS
  <2>6. Received(m, d)' => Received(m, d)
    BY DEF Received
  <2>7. Fewer(m, d)
    BY <2>2, <2>3, <2>5, <2>6 DEF Fewer
  <2>. QED  BY <2>4, <2>7, PlaceLess, SubmittedStays
<1>2. ASSUME NEW c \in Conns PROVE Tidy(c)'
  <2>1. got'[c] \notin ToSet(batch'[c])
    BY ZenonT(40), ToSetType, RelayAssumption DEF PlaceInv, Tidy
  <2>. QED  BY <2>1 DEF Tidy
<1>. QED  BY <1>1, <1>2 DEF PlaceInv, Loses

(* What most steps leave as it is. *)
LEMMA Same ==
  ASSUME TypeOK, PlaceInv, UNCHANGED <<at, received, targets, hpc, batch, chan, got>>, Alone',
         \A d \in Devices : queue'[d] \subseteq queue[d],
         \A c \in Conns : /\ Draining(c) => Draining(c)' \/ (batch[c] = << >> /\ got[c] = NoMessage)
                          /\ Working(c) => Working(c)' \/ chan[c] = << >>
  PROVE  PlaceInv' /\ Loses
<1>1. \A c \in Conns : Tidy(c)
  BY DEF PlaceInv
<1>. QED  BY <1>1, Shrinks DEF PlaceInv, Tidy

LEMMA AloneStays ==
  ASSUME Alone, \A c \in Conns : Open(c)' => Open(c)
  PROVE  Alone'
  BY DEF Alone

LEMMA QuietPlace ==
  ASSUME ~Overlap, TypeOK, PlaceInv, NEW c \in Conns,
         \/ Connect(c) \/ SetOnline(c) \/ Scan(c) \/ Rescan(c) \/ ScanDone(c)
         \/ DeliverStale(c) \/ Run(c) \/ ReaderEnd(c) \/ SetOffline(c) \/ LinkDrop(c)
  PROVE  PlaceInv' /\ Loses
<1>1. UNCHANGED <<at, received, targets, hpc, batch, chan, got, queue>>
  BY DEF Connect, SetOnline, Scan, Rescan, ScanDone, DeliverStale, Run, ReaderEnd, SetOffline,
         LinkDrop, handlerVars
<1>2. Alone'
  <2>1. CASE Connect(c)
    <3>1. \A e \in Conns : DeviceOf[e] = DeviceOf[c] => ~Open(e)
      BY <2>1 DEF Connect
    <3>2. \A e \in Conns : Open(e)' <=> Open(e) \/ e = c
      BY <2>1 DEF Connect, Goto, Open, TypeOK
    <3>. QED  BY <3>1, <3>2 DEF PlaceInv, Alone
  <2>2. CASE ~Connect(c)
    <3>1. \A e \in Conns : Open(e)' => Open(e)
      BY <2>2 DEF SetOnline, Scan, Rescan, ScanDone, DeliverStale, Run, ReaderEnd, SetOffline,
                  LinkDrop, Goto, Open, TypeOK
    <3>. QED  BY <3>1, AloneStays DEF PlaceInv
  <2>. QED  BY <2>1, <2>2
<1>3. Tidy(c)
  BY DEF PlaceInv
<1>4. \A e \in Conns : /\ Draining(e) => Draining(e)' \/ (batch[e] = << >> /\ got[e] = NoMessage)
                       /\ Working(e) => Working(e)' \/ chan[e] = << >>
  <2>1. \A e \in Conns \ {c} : pc'[e] = pc[e]
    BY DEF Connect, SetOnline, Scan, Rescan, ScanDone, DeliverStale, Run, ReaderEnd, SetOffline,
           LinkDrop, Goto, TypeOK
  <2>2. pc[c] = "deliver" /\ pc'[c] # "deliver" => batch[c] = << >> /\ got[c] = NoMessage
    BY DEF Connect, SetOnline, Scan, Rescan, ScanDone, DeliverStale, Run, ReaderEnd, SetOffline,
           LinkDrop, Goto, TypeOK
  <2>3. /\ Draining(c) /\ pc[c] # "deliver" => Draining(c)'
        /\ Working(c) => Working(c)'
    BY DEF Connect, SetOnline, Scan, Rescan, ScanDone, DeliverStale, Run, ReaderEnd, SetOffline,
           LinkDrop, Goto, TypeOK, Draining, Working
  <2>. QED  BY <2>1, <2>2, <2>3 DEF Draining, Working
<1>. QED  BY <1>1, <1>2, <1>4, Same

LEMMA SinkPlace ==
  ASSUME TypeOK, PlaceInv, NEW c \in Conns, SinkEnd(c) \/ Cleanup(c) \/ DequeueError(c)
  PROVE  PlaceInv' /\ Loses
<1>1. /\ UNCHANGED <<at, received, targets, hpc>>
      /\ \A d \in Devices : queue'[d] \subseteq queue[d]
      /\ \A e \in Conns \ {c} : pc'[e] = pc[e] /\ batch'[e] = batch[e] /\ chan'[e] = chan[e]
                                /\ got'[e] = got[e]
  <2>1. CASE SinkEnd(c) \/ Cleanup(c)
    BY <2>1 DEF SinkEnd, Cleanup, Goto, handlerVars, TypeOK
  <2>2. CASE DequeueError(c)
    <3>1. queue' = queue \/ queue' = [queue EXCEPT ![DeviceOf[c]] = @ \ {got[c]}]
      BY <2>2 DEF DequeueError
    <3>2. ASSUME NEW d \in Devices PROVE queue'[d] \subseteq queue[d]
      <4>1. CASE queue' = queue
        BY <4>1
      <4>2. CASE queue' = [queue EXCEPT ![DeviceOf[c]] = @ \ {got[c]}]
        BY <4>2 DEF TypeOK
      <4>. QED  BY <3>1, <4>1, <4>2
    <3>. QED  BY <2>2, <3>2 DEF DequeueError, handlerVars, TypeOK
  <2>. QED  BY <2>1, <2>2
<1>2. Alone'
  <2>1. \A e \in Conns : Open(e)' => Open(e)
    BY DEF SinkEnd, Cleanup, DequeueError, Goto, Open, TypeOK
  <2>. QED  BY <2>1, AloneStays DEF PlaceInv
<1>3. NoRepeat(<< >>)
  BY DEF NoRepeat
<1>4. \/ /\ batch'[c] = batch[c] /\ got'[c] = got[c] /\ chan'[c] = << >>
         /\ Draining(c) => Draining(c)'
      \/ /\ batch'[c] = << >> /\ got'[c] = NoMessage /\ chan'[c] = chan[c]
         /\ Working(c) => Working(c)'
  BY DEF SinkEnd, Cleanup, DequeueError, Goto, TypeOK, Draining, Working
<1>5. \A e \in Conns : Tidy(e)
  BY DEF PlaceInv
<1>6. \A e \in Conns \ {c} : Draining(e)' = Draining(e) /\ Working(e)' = Working(e)
  BY <1>1 DEF Draining, Working
<1>. QED  BY <1>1, <1>2, <1>3, <1>4, <1>5, <1>6, Shrinks, ToSetEmpty DEF PlaceInv, Tidy

LEMMA EnvironmentPlace ==
  ASSUME TypeOK, PlaceInv,
         Crash \/ \E d \in Devices, m \in Messages : Ack(d, m) \/ Expire(d, m)
  PROVE  PlaceInv' /\ Loses
<1>1. ASSUME NEW d \in Devices, NEW m \in Messages, Ack(d, m) \/ Expire(d, m)
      PROVE  PlaceInv' /\ Loses
  <2>1. /\ UNCHANGED <<pc, at, received, targets, hpc, batch, chan, got>>
        /\ \A e \in Devices : queue'[e] \subseteq queue[e]
    <3>1. queue' = [queue EXCEPT ![d] = @ \ {m}]
      BY <1>1 DEF Ack, Expire
    <3>. QED  BY <1>1, <3>1 DEF Ack, Expire, connVars, handlerVars, TypeOK
  <2>2. Alone'
    BY <2>1, AloneStays DEF PlaceInv, Open
  <2>. QED  BY <2>1, <2>2, Same DEF Draining, Working
<1>2. ASSUME Crash PROVE PlaceInv' /\ Loses
  <2>1. Alone'
    <3>1. \A e \in Conns : Open(e)' => Open(e)
      BY <1>2 DEF Crash, Open
    <3>. QED  BY <3>1, AloneStays DEF PlaceInv
  <2>2. NoRepeat(<< >>)
    BY DEF NoRepeat
  <2>3. /\ UNCHANGED <<at, received, queue>>
        /\ \A s \in Senders : targets'[s] = {}
        /\ \A c \in Conns : batch'[c] = << >> /\ chan'[c] = << >> /\ got'[c] = NoMessage
    BY <1>2 DEF Crash
  <2>. QED  BY <2>1, <2>2, <2>3, Shrinks, ToSetEmpty
<1>. QED  BY <1>1, <1>2

-----------------------------------------------------------------------------
(* One copy moves: its new place, and the order around it, are shown case by case. *)
LEMMA Moved ==
  ASSUME PlaceInv, at' = at, NEW x \in Messages, NEW e \in Devices, Place(x, e)',
         \A m \in Messages, d \in Devices : m # x \/ d # e => Fewer(m, d),
         \A c \in Conns : Tidy(c)',
         Alone',
         \A s \in Senders : hpc'[s] = "idle" => targets'[s] = {},
         \A d \in Devices : NoRepeat(received'[d])
  PROVE  /\ PlaceInv'
         /\ \A m \in Messages, d \in Devices : m # x \/ d # e => (Held(m, d)' => Held(m, d))
<1>1. ASSUME NEW m \in Messages, NEW d \in Devices
      PROVE  Place(m, d)' /\ (m # x \/ d # e => (Held(m, d)' => Held(m, d)))
  <2>1. Place(m, d) /\ (Submitted(m)' <=> Submitted(m))
    BY SubmittedStays DEF PlaceInv
  <2>2. CASE m # x \/ d # e
    BY <2>1, <2>2, PlaceLess
  <2>3. CASE m = x /\ d = e
    BY <2>3
  <2>. QED  BY <2>2, <2>3
<1>. QED  BY <1>1 DEF PlaceInv

(* What a sink, a drain or a handler leaves of another copy. *)
LEMMA FewerBy ==
  ASSUME NEW m \in Messages, NEW d \in Devices,
         received' = received, m \in queue'[d] => m \in queue[d],
         InHandler(m, d)' => InHandler(m, d), InDrain(m, d)' => InDrain(m, d),
         InBatch(m, d)' => InBatch(m, d), InChannel(m, d)' => InChannel(m, d)
  PROVE  Fewer(m, d)
<1>1. Received(m, d)' => Received(m, d)
  BY DEF Received
<1>. QED  BY <1>1 DEF Fewer

LEMMA GetPlace ==
  ASSUME TypeOK, PlaceInv, NEW c \in Conns, NEW x \in Messages, Get(c, x)
  PROVE  PlaceInv' /\ Loses
<1>. DEFINE e == DeviceOf[c]
<1>0. e \in Devices /\ x # NoMessage
  BY RelayAssumption
<1>1. UNCHANGED <<at, received, targets, hpc, batch, chan, queue>>
  BY DEF Get, handlerVars
<1>2. Alone'
  <2>1. \A b \in Conns : Open(b)' => Open(b)
    BY DEF Get, Goto, Open, TypeOK
  <2>. QED  BY <2>1, AloneStays DEF PlaceInv
<1>3. CASE UNCHANGED <<pc, got>>
  BY <1>1, <1>2, <1>3, Same DEF Draining, Working
<1>4. CASE x \in queue[e] /\ Goto(c, "drain", "del") /\ got' = [got EXCEPT ![c] = x]
  <2>1. /\ got'[c] = x
        /\ \A b \in Conns \ {c} : got'[b] = got[b] /\ pc'[b] = pc[b]
        /\ pc[c] = "drain" /\ pc'[c] = "del"
    BY <1>4 DEF Goto, TypeOK
  <2>2. Place(x, e)
    BY <1>0 DEF PlaceInv
  <2>3. /\ x \in queue'[e] /\ ~InHandler(x, e)' /\ ~InBatch(x, e)' /\ ~InChannel(x, e)'
        /\ ~Received(x, e)' /\ Submitted(x)'
    BY <1>1, <1>4, <2>2
       DEF Place, Held, InHandler, Message, InBatch, InChannel, Received, Submitted
  <2>4. Place(x, e)'
    BY <2>3 DEF Place
  <2>5. ASSUME NEW m \in Messages, NEW d \in Devices, m # x \/ d # e PROVE Fewer(m, d)
    <3>1. InDrain(m, d)' => InDrain(m, d)
      BY <1>1, <2>1, <2>5 DEF InDrain
    <3>. QED  BY <1>1, <3>1, FewerBy DEF InHandler, Message, InBatch, InChannel
  <2>6. ASSUME NEW b \in Conns PROVE Tidy(b)'
    <3>1. Tidy(b) /\ Tidy(c)
      BY DEF PlaceInv
    <3>2. CASE b # c
      BY <1>1, <2>1, <3>1, <3>2 DEF Tidy, Draining, Working
    <3>3. CASE b = c
      <4>1. x \notin ToSet(batch[c])
        BY <1>4, <2>2 DEF Place, InBatch
      <4>. QED  BY <1>1, <2>1, <3>1, <3>3, <4>1 DEF Tidy, Draining, Working
    <3>. QED  BY <3>2, <3>3
  <2>7. /\ PlaceInv'
        /\ \A m \in Messages, d \in Devices : m # x \/ d # e => (Held(m, d)' => Held(m, d))
    BY <1>0, <1>1, <1>2, <2>4, <2>5, <2>6, Moved DEF PlaceInv
  <2>8. Held(x, e)
    BY <1>4 DEF Held
  <2>. QED  BY <1>1, <2>7, <2>8 DEF Loses
<1>. QED  BY <1>3, <1>4 DEF Get

LEMMA DelPlace ==
  ASSUME TypeOK, PlaceInv, NEW c \in Conns, Del(c)
  PROVE  PlaceInv' /\ Loses
<1>. DEFINE e == DeviceOf[c]
<1>0. e \in Devices /\ pc[c] = "del" /\ got[c] \in Messages
  BY RelayAssumption DEF Del, Goto, TypeOK
<1>. PICK x \in Messages : x = got[c]
  BY <1>0
<1>1. /\ UNCHANGED <<at, received, targets, hpc, chan>>
      /\ queue'[e] = queue[e] \ {x}
      /\ \A d \in Devices \ {e} : queue'[d] = queue[d]
      /\ batch'[c] = Append(batch[c], x) /\ got'[c] = NoMessage /\ pc'[c] = "drain"
      /\ \A b \in Conns \ {c} : got'[b] = got[b] /\ pc'[b] = pc[b] /\ batch'[b] = batch[b]
  BY <1>0 DEF Del, Goto, handlerVars, TypeOK
<1>2. Alone'
  <2>1. \A b \in Conns : Open(b)' => Open(b)
    BY <1>0, <1>1 DEF Open
  <2>. QED  BY <2>1, AloneStays DEF PlaceInv
<1>3. Place(x, e) /\ InDrain(x, e)
  BY <1>0 DEF PlaceInv, InDrain
<1>4. ToSet(batch'[c]) = ToSet(batch[c]) \cup {x} /\ NoRepeat(batch'[c])
  <2>1. batch[c] \in Seq(Messages) /\ NoRepeat(batch[c]) /\ x \notin ToSet(batch[c])
    BY DEF TypeOK, PlaceInv, Tidy
  <2>. QED  BY <1>1, <2>1, ToSetAppend, NoRepeatAppend
<1>5. /\ x \notin queue'[e] /\ ~InHandler(x, e)' /\ ~InChannel(x, e)'
      /\ ~Received(x, e)' /\ Submitted(x)'
  BY <1>1, <1>3 DEF Place, Held, InHandler, Message, InChannel, Received, Submitted
<1>6. Place(x, e)'
  BY <1>5 DEF Place
<1>7. ASSUME NEW m \in Messages, NEW d \in Devices, m # x \/ d # e PROVE Fewer(m, d)
  <2>1. m # NoMessage
    BY RelayAssumption
  <2>2. InBatch(m, d)' => InBatch(m, d)
    BY <1>1, <1>4, <1>7 DEF InBatch
  <2>3. InDrain(m, d)' => InDrain(m, d)
    BY <1>1, <1>4, <1>7, <2>1 DEF InDrain
  <2>. QED  BY <1>1, <2>2, <2>3, FewerBy DEF InHandler, Message, InChannel
<1>8. ASSUME NEW b \in Conns PROVE Tidy(b)'
  <2>1. Tidy(b) /\ Tidy(c)
    BY DEF PlaceInv
  <2>2. CASE b # c
    BY <1>1, <2>1, <2>2 DEF Tidy, Draining, Working
  <2>3. CASE b = c
    <3>1. NoMessage \notin ToSet(batch'[c])
      BY <1>4, ToSetType, RelayAssumption
    <3>. QED  BY <1>0, <1>1, <1>4, <2>1, <2>3, <3>1 DEF Tidy, Draining, Working
  <2>. QED  BY <2>2, <2>3
<1>9. /\ PlaceInv'
      /\ \A m \in Messages, d \in Devices : m # x \/ d # e => (Held(m, d)' => Held(m, d))
  BY <1>0, <1>1, <1>2, <1>6, <1>7, <1>8, Moved DEF PlaceInv
<1>10. Held(x, e)
  BY <1>3 DEF Held
<1>. QED  BY <1>1, <1>9, <1>10 DEF Loses

(* What dropping the head of a list leaves. *)
LEMMA TailOf ==
  ASSUME NEW s \in Seq(Messages), s # << >>, NoRepeat(s)
  PROVE  /\ Head(s) \in Messages /\ Head(s) \in ToSet(s)
         /\ ToSet(Tail(s)) \subseteq ToSet(s) /\ Head(s) \notin ToSet(Tail(s))
         /\ NoRepeat(Tail(s))
  BY HeadTailType, ToSetHeadTail, NoRepeatTail

LEMMA DeliverPlace ==
  ASSUME TypeOK, RegisteredIsOpen, PlaceInv, NEW c \in Conns, Deliver(c)
  PROVE  PlaceInv' /\ Loses
<1>. DEFINE e == DeviceOf[c]
<1>0. /\ e \in Devices /\ pc[c] = "deliver" /\ Open(c)
      /\ Head(batch[c]) \in Messages /\ Head(batch[c]) \in ToSet(batch[c])
      /\ ToSet(Tail(batch[c])) \subseteq ToSet(batch[c])
      /\ Head(batch[c]) \notin ToSet(Tail(batch[c])) /\ NoRepeat(Tail(batch[c]))
  BY ZenonT(40), TailOf, RelayAssumption DEF Deliver, Open, TypeOK, PlaceInv, Tidy
<1>. PICK x \in Messages : x = Head(batch[c])
  BY <1>0
<1>1. /\ UNCHANGED <<at, received, targets, hpc, got, queue>>
      /\ batch'[c] = Tail(batch[c])
      /\ \A b \in Conns \ {c} : pc'[b] = pc[b] /\ batch'[b] = batch[b]
      /\ pc'[c] \in {"deliver", "stale"}
  BY <1>0 DEF Deliver, handlerVars, TypeOK
<1>2. Alone'
  <2>1. \A b \in Conns : Open(b)' => Open(b)
    BY <1>0, <1>1 DEF Open
  <2>. QED  BY <2>1, AloneStays DEF PlaceInv
<1>3. CASE chan' = chan
  <2>1. ASSUME NEW b \in Conns PROVE Tidy(b)
    BY DEF PlaceInv
  <2>2. \A b \in Conns : Draining(b)' = Draining(b) /\ Working(b)' = Working(b)
    BY <1>0, <1>1 DEF Draining, Working
  <2>3. ASSUME NEW b \in Conns
        PROVE  /\ NoRepeat(batch'[b]) /\ ToSet(batch'[b]) \subseteq ToSet(batch[b])
               /\ NoRepeat(chan'[b]) /\ chan'[b] = chan[b] /\ got'[b] = got[b]
               /\ Draining(b)' \/ (batch'[b] = << >> /\ got'[b] = NoMessage)
               /\ Working(b)' \/ chan'[b] = << >>
    <3>1. CASE b # c
      BY <1>1, <1>3, <2>1, <2>2, <3>1 DEF Tidy
    <3>2. CASE b = c
      BY <1>0, <1>1, <1>3, <2>1, <2>2, <3>2 DEF Tidy, Draining
    <3>. QED  BY <3>1, <3>2
  <2>. QED  BY <1>1, <1>2, <2>3, Shrinks DEF PlaceInv
<1>4. CASE SendInto(e, x) /\ pc' = pc
  <2>1. conns[e] = c
    <3>1. conns[e] \in Conns /\ DeviceOf[conns[e]] = e /\ Open(conns[e])
      BY <1>0, <1>4 DEF SendInto, TypeOK, RegisteredIsOpen, Open
    <3>. QED  BY <1>0, <3>1 DEF PlaceInv, Alone
  <2>2. /\ chan'[c] = Append(chan[c], x)
        /\ \A b \in Conns \ {c} : chan'[b] = chan[b]
    BY <1>4, <2>1 DEF SendInto, TypeOK
  <2>3. Place(x, e) /\ InDrain(x, e) /\ InBatch(x, e)
    BY <1>0 DEF PlaceInv, InDrain, InBatch
  <2>4. ToSet(chan'[c]) = ToSet(chan[c]) \cup {x} /\ NoRepeat(chan'[c])
    <3>1. chan[c] \in Seq(Messages) /\ NoRepeat(chan[c])
      BY DEF TypeOK, PlaceInv, Tidy
    <3>2. x \notin ToSet(chan[c])
      BY <2>3 DEF Place, InChannel
    <3>. QED  BY <2>2, <3>1, <3>2, ToSetAppend, NoRepeatAppend
  <2>5. /\ x \notin queue'[e] /\ ~InHandler(x, e)' /\ ~Received(x, e)' /\ Submitted(x)'
    BY <1>1, <2>3 DEF Place, Held, InHandler, Message, Received, Submitted
  <2>6. ~InDrain(x, e)'
    <3>1. \A b \in Conns \ {c} : DeviceOf[b] = e => got[b] = NoMessage /\ batch[b] = << >>
      BY <1>0 DEF PlaceInv, Alone, Tidy, Draining, Open
    <3>2. got[c] = NoMessage
      BY <1>0 DEF TypeOK
    <3>. QED  BY <1>0, <1>1, <3>1, <3>2, ToSetEmpty, RelayAssumption DEF InDrain
  <2>7. Place(x, e)'
    <3>1. InBatch(x, e)' => InDrain(x, e)'
      BY DEF InBatch, InDrain
    <3>. QED  BY <2>5, <2>6, <3>1 DEF Place
  <2>8. ASSUME NEW m \in Messages, NEW d \in Devices, m # x \/ d # e PROVE Fewer(m, d)
    <3>1. InChannel(m, d)' => InChannel(m, d)
      BY <2>2, <2>4, <2>8 DEF InChannel
    <3>2. InBatch(m, d)' => InBatch(m, d)
      BY <1>0, <1>1 DEF InBatch
    <3>3. InDrain(m, d)' => InDrain(m, d)
      BY <1>0, <1>1 DEF InDrain
    <3>. QED  BY <1>1, <3>1, <3>2, <3>3, FewerBy DEF InHandler, Message
  <2>9. ASSUME NEW b \in Conns PROVE Tidy(b)'
    <3>1. Tidy(b) /\ Tidy(c) /\ Draining(c) /\ Working(c)
      BY <1>0 DEF PlaceInv, Draining, Working
    <3>2. Draining(b)' = Draining(b) /\ Working(b)' = Working(b)
      BY <1>4 DEF Draining, Working
    <3>3. CASE b # c
      BY <1>1, <2>2, <3>1, <3>2, <3>3 DEF Tidy
    <3>4. CASE b = c
      BY <1>0, <1>1, <2>4, <3>1, <3>2, <3>4 DEF Tidy
    <3>. QED  BY <3>3, <3>4
  <2>10. /\ PlaceInv'
         /\ \A m \in Messages, d \in Devices : m # x \/ d # e => (Held(m, d)' => Held(m, d))
    BY <1>0, <1>1, <1>2, <2>7, <2>8, <2>9, Moved DEF PlaceInv
  <2>11. Held(x, e)
    BY <2>3 DEF Held
  <2>. QED  BY <1>1, <2>10, <2>11 DEF Loses
<1>. QED  BY <1>3, <1>4 DEF Deliver

(* The sink gives a message to the device: the end of its copy. *)
GivenOut(x, e) ==
  /\ at' = at /\ Held(x, e) /\ ~Received(x, e) /\ ~Held(x, e)' /\ Received(x, e)'
  /\ \A m \in Messages, d \in Devices : m # x \/ d # e =>
       (Held(m, d)' <=> Held(m, d)) /\ (Received(m, d)' <=> Received(m, d))

LEMMA ForwardPlace ==
  ASSUME TypeOK, PlaceInv, NEW c \in Conns, Forward(c)
  PROVE  PlaceInv' /\ (Loses \/ \E x \in Messages, e \in Devices : GivenOut(x, e))
<1>. DEFINE e == DeviceOf[c]
<1>0. /\ e \in Devices /\ Open(c) /\ Working(c)
      /\ Head(chan[c]) \in Messages /\ Head(chan[c]) \in ToSet(chan[c])
      /\ ToSet(chan[c]) = {Head(chan[c])} \cup ToSet(Tail(chan[c]))
      /\ Head(chan[c]) \notin ToSet(Tail(chan[c])) /\ NoRepeat(Tail(chan[c]))
  BY ZenonT(40), TailOf, ToSetHeadTail, RelayAssumption DEF Forward, SinkRunning, Open, Working, TypeOK, PlaceInv, Tidy
<1>. PICK x \in Messages : x = Head(chan[c])
  BY <1>0
<1>1. /\ UNCHANGED <<pc, at, targets, hpc, got, batch, queue>>
      /\ chan'[c] = Tail(chan[c])
      /\ \A b \in Conns \ {c} : chan'[b] = chan[b]
  BY <1>0 DEF Forward, handlerVars, TypeOK
<1>2. Alone'
  BY <1>1, AloneStays DEF PlaceInv, Open
<1>t. \A b \in Conns : Tidy(b) /\ Draining(b)' = Draining(b) /\ Working(b)' = Working(b)
  BY <1>1 DEF PlaceInv, Draining, Working
<1>3. CASE ~link[c]
  <2>1. received' = received
    BY <1>3 DEF Forward
  <2>. QED  BY <1>0, <1>1, <1>2, <1>t, <2>1, Shrinks DEF PlaceInv, Tidy
<1>4. CASE link[c]
  <2>1. Place(x, e) /\ InChannel(x, e) /\ ~Received(x, e)
    BY <1>0 DEF PlaceInv, Place, InChannel
  <2>2. /\ ToSet(received'[e]) = ToSet(received[e]) \cup {x} /\ NoRepeat(received'[e])
        /\ \A d \in Devices \ {e} : received'[d] = received[d]
    <3>1. received[e] \in Seq(Messages) /\ NoRepeat(received[e]) /\ x \notin ToSet(received[e])
      BY <1>0, <2>1 DEF TypeOK, PlaceInv, Received
    <3>2. received' = [received EXCEPT ![e] = Append(@, x)]
      BY <1>4 DEF Forward
    <3>. QED  BY <1>0, <3>1, <3>2, ToSetAppend, NoRepeatAppend DEF TypeOK
  <2>3. ~InChannel(x, e)'
    <3>1. \A b \in Conns \ {c} : DeviceOf[b] = e => chan[b] = << >>
      BY <1>0 DEF PlaceInv, Alone, Tidy, Working, Open
    <3>. QED  BY <1>0, <1>1, <3>1, ToSetEmpty DEF InChannel
  <2>4. /\ x \notin queue'[e] /\ ~InHandler(x, e)' /\ ~InDrain(x, e)' /\ Received(x, e)'
        /\ Submitted(x)'
    BY <1>1, <2>1, <2>2 DEF Place, Held, InHandler, Message, InDrain, Received, Submitted
  <2>5. Place(x, e)' /\ ~Held(x, e)' /\ Held(x, e)
    BY <2>1, <2>3, <2>4 DEF Place, Held
  <2>6. ASSUME NEW m \in Messages, NEW d \in Devices, m # x \/ d # e
        PROVE  /\ Fewer(m, d)
               /\ Received(m, d)' <=> Received(m, d)
               /\ Held(m, d)' <=> Held(m, d)
    <3>1. Received(m, d)' <=> Received(m, d)
      BY <2>2, <2>6 DEF Received
    <3>2. InChannel(m, d)' <=> InChannel(m, d)
      BY <1>0, <1>1, <2>6 DEF InChannel
    <3>3. /\ m \in queue'[d] <=> m \in queue[d]
          /\ InHandler(m, d)' <=> InHandler(m, d)
          /\ InDrain(m, d)' <=> InDrain(m, d)
          /\ InBatch(m, d)' <=> InBatch(m, d)
      BY <1>1 DEF InHandler, Message, InDrain, InBatch
    <3>. QED  BY <3>1, <3>2, <3>3 DEF Fewer, Held
  <2>7. ASSUME NEW b \in Conns PROVE Tidy(b)'
    <3>1. CASE b # c
      BY <1>1, <1>t, <3>1 DEF Tidy
    <3>2. CASE b = c
      BY <1>0, <1>1, <1>t, <3>2 DEF Tidy
    <3>. QED  BY <3>1, <3>2
  <2>8. PlaceInv'
    BY <1>0, <1>1, <1>2, <2>2, <2>5, <2>6, <2>7, Moved DEF PlaceInv
  <2>9. GivenOut(x, e)
    BY <1>1, <2>1, <2>4, <2>5, <2>6, <2>8 DEF GivenOut
  <2>. QED  BY <1>0, <2>8, <2>9
<1>. QED  BY <1>3, <1>4 DEF TypeOK

(* A handler only gets done with devices. *)
HandlerShrinks ==
  \A s \in Senders : /\ targets'[s] \subseteq targets[s]
                     /\ hpc'[s] = "idle" => targets'[s] = {}

LEMMA ServedShrinks ==
  ASSUME TypeOK, PlaceInv, NEW s \in Senders, NEW e \in Devices, Served(s, e)
  PROVE  HandlerShrinks /\ e \notin targets'[s]
<1>1. /\ targets'[s] = targets[s] \ {e}
      /\ hpc'[s] = "idle" => targets[s] = {e}
      /\ \A t \in Senders \ {s} : targets'[t] = targets[t] /\ hpc'[t] = hpc[t]
  BY DEF Served, TypeOK
<1>2. ASSUME NEW t \in Senders
      PROVE  targets'[t] \subseteq targets[t] /\ (hpc'[t] = "idle" => targets'[t] = {})
  <2>1. CASE t = s
    BY <1>1, <2>1
  <2>2. CASE t # s
    BY <1>1, <2>2 DEF PlaceInv
  <2>. QED  BY <2>1, <2>2
<1>. QED  BY <1>1, <1>2 DEF HandlerShrinks

LEMMA UndeliveredShrinks ==
  ASSUME TypeOK, PlaceInv, NEW s \in Senders, NEW e \in Devices, Undelivered(s, e)
  PROVE  HandlerShrinks
<1>1. CASE Kind[Message(s)] = "event"
  BY <1>1, ServedShrinks DEF Undelivered
<1>2. CASE Kind[Message(s)] # "event"
  BY <1>2 DEF Undelivered, HandlerShrinks, PlaceInv, TypeOK
<1>. QED  BY <1>1, <1>2

LEMMA HandlerSame ==
  ASSUME TypeOK, PlaceInv, UNCHANGED <<pc, at, received, batch, chan, got, queue>>,
         HandlerShrinks
  PROVE  PlaceInv' /\ Loses
<1>1. Alone'
  BY AloneStays DEF PlaceInv, Open
<1>2. \A c \in Conns : Tidy(c) /\ Draining(c)' = Draining(c) /\ Working(c)' = Working(c)
  BY DEF PlaceInv, Draining, Working
<1>. QED  BY <1>1, <1>2, Shrinks DEF HandlerShrinks, PlaceInv, Tidy

(* The copy a handler is done with is in no handler, since ids are unique. *)
LEMMA HandedOn ==
  ASSUME Once, TypeOK, PlaceInv, NEW s \in Senders, NEW e \in targets[s],
         at' = at, HandlerShrinks, e \notin targets'[s], NEW x, x = Message(s)
  PROVE  ~InHandler(x, e)'
<1>1. ASSUME NEW r \in Senders, e \in targets'[r], Message(r) = Message(s) PROVE FALSE
  <2>1. e \in targets[r]
    BY <1>1 DEF HandlerShrinks
  <2>2. r = s
    BY <1>1, <2>1, OneHandler
  <2>. QED  BY <1>1, <2>2
<1>. QED  BY <1>1 DEF InHandler, Message

(* From the handler into Redis. *)
LEMMA QueuedPlace ==
  ASSUME Once, TypeOK, PlaceInv, NEW s \in Senders, hpc[s] = "set", Served(s, cur[s]),
         queue' = [queue EXCEPT ![cur[s]] = @ \cup {Message(s)}],
         UNCHANGED <<pc, at, received, batch, chan, got>>
  PROVE  PlaceInv' /\ Loses
<1>0. Message(s) \in Messages /\ cur[s] \in targets[s] /\ cur[s] \in Devices
  BY MessageType DEF TypeOK
<1>. PICK e \in Devices : e = cur[s]
  BY <1>0
<1>. PICK x \in Messages : x = Message(s)
  BY <1>0
<1>1. HandlerShrinks /\ e \notin targets'[s]
  BY <1>0, ServedShrinks
<1>2. Place(x, e) /\ InHandler(x, e) /\ ~InHandler(x, e)'
  BY <1>0, <1>1, HandedOn DEF PlaceInv, InHandler
<1>3. /\ x \in queue'[e] /\ queue'[e] = queue[e] \cup {x}
      /\ \A d \in Devices \ {e} : queue'[d] = queue[d]
  BY <1>0 DEF TypeOK
<1>4. /\ ~InDrain(x, e)' /\ ~InChannel(x, e)' /\ ~Received(x, e)' /\ Submitted(x)'
  BY <1>2 DEF Place, Held, InDrain, InChannel, Received, Submitted
<1>5. Place(x, e)'
  <2>1. InBatch(x, e)' => InDrain(x, e)'
    BY DEF InBatch, InDrain
  <2>. QED  BY <1>2, <1>4, <2>1 DEF Place
<1>6. ASSUME NEW m \in Messages, NEW d \in Devices, m # x \/ d # e PROVE Fewer(m, d)
  <2>1. InHandler(m, d)' => InHandler(m, d)
    BY <1>1 DEF InHandler, Message, HandlerShrinks
  <2>2. m \in queue'[d] => m \in queue[d]
    BY <1>3, <1>6
  <2>. QED  BY <2>1, <2>2, FewerBy DEF InDrain, InBatch, InChannel
<1>7. Alone'
  BY AloneStays DEF PlaceInv, Open
<1>8. \A c \in Conns : Tidy(c)'
  BY DEF PlaceInv, Tidy, Draining, Working
<1>9. /\ PlaceInv'
      /\ \A m \in Messages, d \in Devices : m # x \/ d # e => (Held(m, d)' => Held(m, d))
  BY <1>0, <1>1, <1>5, <1>6, <1>7, <1>8, Moved DEF PlaceInv, HandlerShrinks
<1>10. Held(x, e)
  BY <1>2 DEF Held
<1>. QED  BY <1>9, <1>10 DEF Loses

(* From the handler into a channel. *)
LEMMA SentPlace ==
  ASSUME Once, TypeOK, RegisteredIsOpen, PlaceInv, NEW s \in Senders, NEW e \in targets[s],
         hpc[s] = "route", SendInto(e, Message(s)), Served(s, e),
         UNCHANGED <<pc, at, received, batch, queue, got>>
  PROVE  PlaceInv' /\ Loses
<1>0. Message(s) \in Messages /\ e \in Devices
  BY MessageType DEF TypeOK
<1>. PICK x \in Messages : x = Message(s)
  BY <1>0
<1>1. HandlerShrinks /\ e \notin targets'[s]
  BY <1>0, ServedShrinks
<1>2. Place(x, e) /\ InHandler(x, e) /\ ~InHandler(x, e)'
  BY <1>0, <1>1, HandedOn DEF PlaceInv, InHandler
<1>3. conns[e] \in Conns /\ DeviceOf[conns[e]] = e /\ Working(conns[e])
  BY <1>0 DEF SendInto, TypeOK, RegisteredIsOpen, Working
<1>. PICK c \in Conns : c = conns[e]
  BY <1>3
<1>4. /\ chan'[c] = Append(chan[c], x)
      /\ \A b \in Conns \ {c} : chan'[b] = chan[b]
  BY DEF SendInto, TypeOK
<1>5. ToSet(chan'[c]) = ToSet(chan[c]) \cup {x} /\ NoRepeat(chan'[c])
  <2>1. chan[c] \in Seq(Messages) /\ NoRepeat(chan[c])
    BY DEF TypeOK, PlaceInv, Tidy
  <2>2. x \notin ToSet(chan[c])
    BY <1>2, <1>3 DEF Place, InChannel
  <2>. QED  BY <1>4, <2>1, <2>2, ToSetAppend, NoRepeatAppend
<1>6. /\ x \notin queue'[e] /\ ~InDrain(x, e)' /\ ~Received(x, e)' /\ Submitted(x)'
  BY <1>2 DEF Place, Held, InDrain, Received, Submitted
<1>7. Place(x, e)'
  BY <1>2, <1>6 DEF Place
<1>8. ASSUME NEW m \in Messages, NEW d \in Devices, m # x \/ d # e PROVE Fewer(m, d)
  <2>1. InHandler(m, d)' => InHandler(m, d)
    BY <1>1 DEF InHandler, Message, HandlerShrinks
  <2>2. InChannel(m, d)' => InChannel(m, d)
    BY <1>3, <1>4, <1>5, <1>8 DEF InChannel
  <2>. QED  BY <2>1, <2>2, FewerBy DEF InDrain, InBatch
<1>9. Alone'
  BY AloneStays DEF PlaceInv, Open
<1>10. ASSUME NEW b \in Conns PROVE Tidy(b)'
  <2>1. Tidy(b) /\ Draining(b)' = Draining(b) /\ Working(b)' = Working(b)
    BY DEF PlaceInv, Draining, Working
  <2>2. CASE b = c
    BY <1>3, <1>5, <2>1, <2>2 DEF Tidy
  <2>3. CASE b # c
    BY <1>4, <2>1, <2>3 DEF Tidy
  <2>. QED  BY <2>2, <2>3
<1>11. /\ PlaceInv'
       /\ \A m \in Messages, d \in Devices : m # x \/ d # e => (Held(m, d)' => Held(m, d))
  BY <1>0, <1>1, <1>7, <1>8, <1>9, <1>10, Moved DEF PlaceInv, HandlerShrinks
<1>12. Held(x, e)
  BY <1>2 DEF Held
<1>. QED  BY <1>11, <1>12 DEF Loses

LEMMA HandlerPlace ==
  ASSUME Once, TypeOK, RegisteredIsOpen, PlaceInv, NEW s \in Senders, Handler(s)
  PROVE  PlaceInv' /\ Loses
<1>1. ASSUME NEW e \in Devices, Route(s, e) PROVE PlaceInv' /\ Loses
  <2>1. /\ UNCHANGED <<pc, at, received, batch, got, queue>>
        /\ hpc[s] = "route" /\ e \in targets[s]
    BY <1>1 DEF Route
  <2>2. CASE SendInto(e, Message(s)) /\ Served(s, e)
    BY <2>1, <2>2, SentPlace
  <2>3. CASE hpc' = [hpc EXCEPT ![s] = "stale"] /\ UNCHANGED <<chan, targets>>
    <3>1. HandlerShrinks
      BY <2>1, <2>3 DEF HandlerShrinks, PlaceInv, TypeOK
    <3>. QED  BY <2>1, <2>3, <3>1, HandlerSame
  <2>4. CASE Undelivered(s, e) /\ UNCHANGED chan
    BY <2>1, <2>4, UndeliveredShrinks, HandlerSame
  <2>. QED  BY <1>1, <2>2, <2>3, <2>4 DEF Route
<1>2. ASSUME RemoveStale(s) PROVE PlaceInv' /\ Loses
  BY <1>2, UndeliveredShrinks, HandlerSame DEF RemoveStale, connVars, TypeOK
<1>3. ASSUME Exists(s) PROVE PlaceInv' /\ Loses
  <2>1. UNCHANGED <<pc, at, received, batch, chan, got, queue>> /\ cur[s] \in Devices
    BY <1>3 DEF Exists, connVars, TypeOK
  <2>2. CASE Served(s, cur[s])
    BY <2>1, <2>2, ServedShrinks, HandlerSame
  <2>3. CASE hpc' = [hpc EXCEPT ![s] = "set"] /\ UNCHANGED targets
    <3>1. HandlerShrinks
      BY <2>3 DEF HandlerShrinks, PlaceInv, TypeOK
    <3>. QED  BY <2>1, <3>1, HandlerSame
  <2>. QED  BY <1>3, <2>2, <2>3 DEF Exists
<1>4. ASSUME Set(s) PROVE PlaceInv' /\ Loses
  BY <1>4, QueuedPlace DEF Set, connVars
<1>5. ASSUME EnqueueError(s) PROVE PlaceInv' /\ Loses
  <2>1. UNCHANGED <<pc, at, received, batch, chan, got>> /\ Served(s, cur[s]) /\ cur[s] \in Devices
    BY <1>5 DEF EnqueueError, connVars, TypeOK
  <2>2. CASE queue' = queue
    BY <2>1, <2>2, ServedShrinks, HandlerSame
  <2>3. CASE hpc[s] = "set" /\ queue' = [queue EXCEPT ![cur[s]] = @ \cup {Message(s)}]
    BY <2>1, <2>3, QueuedPlace
  <2>. QED  BY <1>5, <2>2, <2>3 DEF EnqueueError
<1>6. ASSUME LookupError(s) PROVE PlaceInv' /\ Loses
  <2>1. HandlerShrinks
    BY <1>6 DEF LookupError, HandlerShrinks, PlaceInv, TypeOK
  <2>. QED  BY <1>6, <2>1, HandlerSame DEF LookupError, connVars
<1>. QED  BY <1>1, <1>2, <1>3, <1>4, <1>5, <1>6 DEF Handler

(* A message is taken: a copy for each of its devices, of none of which anything
   was there before. *)
Taken(x) ==
  /\ received' = received
  /\ \A d \in Devices : ~Held(x, d) /\ ~Received(x, d) /\ (Held(x, d)' <=> d \in Dest[x])
  /\ ~Submitted(x) /\ Submitted(x)'
  /\ \A m \in Messages \ {x} : /\ Submitted(m)' <=> Submitted(m)
                               /\ \A d \in Devices : Held(m, d)' <=> Held(m, d)

LEMMA SubmitPlace ==
  ASSUME Once, TypeOK, PlaceInv, NEW s \in Senders, Submit(s)
  PROVE  PlaceInv' /\ \E x \in Messages : Taken(x)
<1>. DEFINE n == at[s] + 1
<1>0. /\ at[s] \in Nat /\ n \in 1 .. Len(Script[s]) /\ Script[s] \in Seq(Messages)
      /\ hpc[s] = "idle" /\ targets[s] = {}
  <2>1. Script[s] \in Seq(Messages) /\ Len(Script[s]) \in Nat
    BY RelayAssumption
  <2>2. at[s] \in Nat /\ at[s] < Len(Script[s]) /\ hpc[s] = "idle"
    BY DEF Submit, TypeOK
  <2>3. n \in 1 .. Len(Script[s])
    BY <2>1, <2>2
  <2>. QED  BY <2>1, <2>2, <2>3 DEF PlaceInv
<1>. PICK x \in Messages : x = Script[s][n]
  BY <1>0
<1>1. /\ UNCHANGED <<pc, received, batch, chan, got, queue>>
      /\ at' = [at EXCEPT ![s] = n] /\ targets'[s] = Dest[x] /\ hpc'[s] = "route"
      /\ \A r \in Senders \ {s} : targets'[r] = targets[r] /\ hpc'[r] = hpc[r]
  BY DEF Submit, connVars, TypeOK
<1>2. at'[s] = n /\ \A r \in Senders \ {s} : at'[r] = at[r]
  BY <1>1 DEF TypeOK
<1>3. \A r \in Senders : at[r] \in Nat /\ at[r] <= Len(Script[r])
  BY DEF TypeOK
<1>4. ~Submitted(x)
  <2>1. ASSUME NEW r \in Senders, NEW i \in 1 .. at[r], Script[r][i] = x PROVE FALSE
    <3>1. i \in 1 .. Len(Script[r])
      BY <1>3, RelayAssumption
    <3>2. r = s /\ i = n
      BY <1>0, <2>1, <3>1 DEF Once
    <3>. QED  BY <1>0, <3>2
  <2>. QED  BY <2>1 DEF Submitted
<1>5. \A d \in Devices : Place(x, d) /\ ~Held(x, d) /\ ~Received(x, d)
  BY <1>4 DEF PlaceInv, Place
<1>6. Submitted(x)'
  BY <1>0, <1>2 DEF Submitted
<1>7. ASSUME NEW m \in Messages \ {x} PROVE Submitted(m)' <=> Submitted(m)
  <2>1. ASSUME Submitted(m) PROVE Submitted(m)'
    <3>1. PICK r \in Senders : \E i \in 1 .. at[r] : Script[r][i] = m
      BY <2>1 DEF Submitted
    <3>2. 1 .. at[r] \subseteq 1 .. at'[r]
      BY <1>0, <1>2, <1>3
    <3>. QED  BY <3>1, <3>2 DEF Submitted
  <2>2. ASSUME Submitted(m)' PROVE Submitted(m)
    <3>1. PICK r \in Senders : \E i \in 1 .. at'[r] : Script[r][i] = m
      BY <2>2 DEF Submitted
    <3>2. PICK i \in 1 .. at'[r] : Script[r][i] = m
      BY <3>1
    <3>3. i \in 1 .. at[r]
      <4>1. CASE r # s
        BY <1>2, <4>1
      <4>2. CASE r = s
        <5>1. i # n
          BY <3>2, <4>2
        <5>. QED  BY <1>0, <1>2, <4>2, <5>1
      <4>. QED  BY <4>1, <4>2
    <3>. QED  BY <3>2, <3>3 DEF Submitted
  <2>. QED  BY <2>1, <2>2
<1>8. ASSUME NEW m \in Messages, NEW d \in Devices
      PROVE  InHandler(m, d)' <=> InHandler(m, d) \/ (m = x /\ d \in Dest[x])
  <2>1. \A r \in Senders \ {s} : Script[r][at'[r]] = Script[r][at[r]]
    BY <1>2
  <2>2. Script[s][at'[s]] = x
    BY <1>2
  <2>. QED  BY <1>0, <1>1, <2>1, <2>2 DEF InHandler, Message
<1>9. ASSUME NEW m \in Messages, NEW d \in Devices
      PROVE  /\ m \in queue'[d] <=> m \in queue[d]
             /\ InDrain(m, d)' <=> InDrain(m, d)
             /\ InBatch(m, d)' <=> InBatch(m, d)
             /\ InChannel(m, d)' <=> InChannel(m, d)
             /\ Received(m, d)' <=> Received(m, d)
  BY <1>1 DEF InDrain, InBatch, InChannel, Received
<1>10. ASSUME NEW m \in Messages, NEW d \in Devices PROVE Place(m, d)'
  <2>1. CASE m = x
    BY <1>5, <1>6, <1>8, <1>9, <2>1 DEF Place, Held
  <2>2. CASE m # x
    <3>1. Place(m, d) /\ (InHandler(m, d)' <=> InHandler(m, d))
      BY <1>8, <2>2 DEF PlaceInv
    <3>. QED  BY <1>7, <1>9, <2>2, <3>1 DEF Place, Held
  <2>. QED  BY <2>1, <2>2
<1>11. PlaceInv'
  <2>1. Alone'
    BY <1>1, AloneStays DEF PlaceInv, Open
  <2>2. \A c \in Conns : Tidy(c)'
    BY <1>1 DEF PlaceInv, Tidy, Draining, Working
  <2>3. \A r \in Senders : hpc'[r] = "idle" => targets'[r] = {}
    BY <1>1 DEF PlaceInv
  <2>. QED  BY <1>1, <1>10, <2>1, <2>2, <2>3 DEF PlaceInv
<1>12. Taken(x)
  <2>1. ASSUME NEW d \in Devices PROVE Held(x, d)' <=> d \in Dest[x]
    BY <1>5, <1>8, <1>9 DEF Held
  <2>2. ASSUME NEW m \in Messages \ {x}, NEW d \in Devices PROVE Held(m, d)' <=> Held(m, d)
    BY <1>8, <1>9 DEF Held
  <2>. QED  BY <1>1, <1>4, <1>5, <1>6, <1>7, <2>1, <2>2 DEF Taken
<1>. QED  BY <1>11, <1>12

(* Every step of the relay, as far as the mailbox is concerned. *)
LEMMA PlaceNext ==
  ASSUME Once, ~Overlap, TypeOK, RegisteredIsOpen, PlaceInv, [Next]_vars
  PROVE  /\ PlaceInv'
         /\ \/ Loses
            \/ \E x \in Messages : Taken(x)
            \/ \E x \in Messages, e \in Devices : GivenOut(x, e)
<1>1. ASSUME NEW c \in Conns, NEW x \in Messages, Get(c, x) PROVE PlaceInv' /\ Loses
  BY <1>1, GetPlace
<1>2. CASE UNCHANGED vars
  <2>1. UNCHANGED <<at, received, targets, hpc, batch, chan, got, queue, pc>>
    BY <1>2 DEF vars, connVars, handlerVars
  <2>2. Alone'
    BY <2>1, AloneStays DEF PlaceInv, Open
  <2>. QED  BY <2>1, <2>2, Same DEF Draining, Working
<1>. QED
  BY <1>1, <1>2, QuietPlace, SinkPlace, DelPlace, DeliverPlace, ForwardPlace, EnvironmentPlace,
     HandlerPlace, SubmitPlace
     DEF Next, Socket

(* Under the invariant a copy has one of the mailbox's four statuses. *)
StatusOf(m, d) ==
  IF Received(m, d) THEN "received"
  ELSE IF Held(m, d) THEN "held" ELSE IF Submitted(m) THEN "gone" ELSE "new"

LEMMA StatusIs ==
  TypeOK /\ PlaceInv =>
    /\ DOMAIN CopyStatus = Copy /\ CopyStatus = [k \in Copy |-> CopyStatus[k]]
    /\ \A k \in Copy : CopyStatus[k] = StatusOf(k[1], k[2])
<1>. SUFFICES ASSUME TypeOK, PlaceInv
              PROVE  \A k \in Copy : CopyStatus[k] = StatusOf(k[1], k[2])
  BY DEF CopyStatus
<1>. TAKE k \in Copy
<1>. PICK m \in Messages, d \in Devices : k[1] = m /\ k[2] = d
  BY DEF Copy
<1>. DEFINE At == {i \in DOMAIN received[d] : received[d][i] = m}
<1>1. /\ Received(m, d) <=> At # {}
      /\ \A i, j \in At : i = j
  BY DEF Received, ToSet, PlaceInv, NoRepeat
<1>2. Arrivals(m, d) = IF Received(m, d) THEN 1 ELSE 0
  <2>1. CASE At = {}
    BY <1>1, <2>1, FS_EmptySet DEF Arrivals
  <2>2. CASE At # {}
    <3>1. PICK i : At = {i}
      BY <1>1, <2>2
    <3>. QED  BY <1>1, <2>2, <3>1, FS_Singleton DEF Arrivals
  <2>. QED  BY <2>1, <2>2
<1>3. Received(m, d) => ~Held(m, d)
  BY DEF PlaceInv, Place, Held
<1>. HIDE DEF At
<1>4. CopyStatus[k] =
        IF Arrivals(m, d) > 0
        THEN IF Arrivals(m, d) = 1 /\ ~Held(m, d) THEN "received" ELSE "duplicated"
        ELSE IF Held(m, d) THEN "held" ELSE IF Submitted(m) THEN "gone" ELSE "new"
  BY DEF CopyStatus
<1>5. StatusOf(k[1], k[2]) = StatusOf(m, d)
  OBVIOUS
<1>. QED  BY <1>2, <1>3, <1>4, <1>5 DEF StatusOf

StatusAgrees ==
  /\ CopyStatus = [k \in Copy |-> CopyStatus[k]]
  /\ \A k \in Copy : CopyStatus[k] = StatusOf(k[1], k[2])

LEMMA StatusThen == TypeOK /\ PlaceInv => StatusAgrees
  BY StatusIs DEF StatusAgrees

LEMMA StatusNext == TypeOK' /\ PlaceInv' => StatusAgrees'
  BY StatusThen, PTL

LEMMA LosesDrops ==
  ASSUME StatusAgrees, StatusAgrees', PlaceInv, PlaceInv', Loses
  PROVE  Box!Drop
<1>. DEFINE K == {k \in Copy : Held(k[1], k[2]) /\ ~Held(k[1], k[2])'}
<1>1. ASSUME NEW k \in Copy
      PROVE  /\ k \in K => CopyStatus[k] = "held"
             /\ CopyStatus'[k] = IF k \in K THEN "gone" ELSE CopyStatus[k]
  <2>. PICK m \in Messages, d \in Devices : k[1] = m /\ k[2] = d
    BY DEF Copy
  <2>1. /\ Received(m, d)' <=> Received(m, d)
        /\ Submitted(m)' <=> Submitted(m)
        /\ Held(m, d)' => Held(m, d)
    BY SubmittedStays DEF Loses, Received
  <2>2. Held(m, d) => ~Received(m, d) /\ Submitted(m)
    BY DEF PlaceInv, Place, Held
  <2>3. k \in K <=> Held(m, d) /\ ~Held(m, d)'
    OBVIOUS
  <2>4. CopyStatus[k] = StatusOf(m, d) /\ CopyStatus'[k] = StatusOf(m, d)'
    BY DEF StatusAgrees
  <2>. QED  BY <2>1, <2>2, <2>3, <2>4 DEF StatusOf
<1>2. CopyStatus' = [k \in Copy |-> CopyStatus'[k]]
  BY DEF StatusAgrees
<1>3. K \in SUBSET Copy
  OBVIOUS
<1>. HIDE DEF K
<1>4. Box!Move(K, "held", "gone")
  BY <1>1, <1>2, <1>3 DEF Box!Move
<1>. QED  BY <1>3, <1>4 DEF Box!Drop

LEMMA TakenAccepts ==
  ASSUME StatusAgrees, StatusAgrees', PlaceInv, PlaceInv', NEW x \in Messages, Taken(x)
  PROVE  Box!Accept
<1>. DEFINE K == {k \in Copy : k[1] = x}
<1>1. ASSUME NEW k \in Copy
      PROVE  /\ k \in K => CopyStatus[k] = "new"
             /\ CopyStatus'[k] = IF k \in K THEN "held" ELSE CopyStatus[k]
  <2>. PICK m \in Messages, d \in Devices : k[1] = m /\ k[2] = d /\ d \in Dest[m]
    BY RelayAssumption DEF Copy
  <2>1. Received(m, d)' <=> Received(m, d)
    BY DEF Taken, Received
  <2>2. CopyStatus[k] = StatusOf(m, d) /\ CopyStatus'[k] = StatusOf(m, d)'
    BY DEF StatusAgrees
  <2>3. CASE m = x
    BY <2>1, <2>2, <2>3 DEF StatusOf, Taken
  <2>4. CASE m # x
    <3>1. /\ Submitted(m)' <=> Submitted(m)
          /\ Held(m, d)' <=> Held(m, d)
      BY <2>4 DEF Taken
    <3>. QED  BY <2>1, <2>2, <2>4, <3>1 DEF StatusOf
  <2>. QED  BY <2>3, <2>4
<1>2. CopyStatus' = [k \in Copy |-> CopyStatus'[k]]
  BY DEF StatusAgrees
<1>3. K \in SUBSET Copy
  OBVIOUS
<1>. HIDE DEF K
<1>4. Box!Move(K, "new", "held")
  BY <1>1, <1>2, <1>3 DEF Box!Move
<1>. QED  BY <1>3, <1>4 DEF Box!Accept

(* The device gets a copy; one of a message for other devices is none of the mailbox's. *)
LEMMA GivenOutGives ==
  ASSUME StatusAgrees, StatusAgrees', PlaceInv, PlaceInv',
         NEW x \in Messages, NEW e \in Devices, GivenOut(x, e)
  PROVE  Box!GiveOut \/ CopyStatus' = CopyStatus
<1>1. ASSUME NEW k \in Copy
      PROVE  /\ k = <<x, e>> => CopyStatus[k] = "held" /\ CopyStatus'[k] = "received"
             /\ k # <<x, e>> => CopyStatus'[k] = CopyStatus[k]
  <2>. PICK m \in Messages, d \in Devices : k = <<m, d>>
    BY DEF Copy
  <2>1. Submitted(m)' <=> Submitted(m)
    BY SubmittedStays DEF GivenOut
  <2>2. CopyStatus[k] = StatusOf(m, d) /\ CopyStatus'[k] = StatusOf(m, d)'
    BY DEF StatusAgrees
  <2>3. CASE k = <<x, e>>
    BY <2>1, <2>2, <2>3 DEF StatusOf, GivenOut
  <2>4. CASE k # <<x, e>>
    <3>1. /\ Received(m, d)' <=> Received(m, d)
          /\ Held(m, d)' <=> Held(m, d)
      BY <2>4 DEF GivenOut
    <3>. QED  BY <2>1, <2>2, <2>4, <3>1 DEF StatusOf
  <2>. QED  BY <2>3, <2>4
<1>2. /\ CopyStatus' = [k \in Copy |-> CopyStatus'[k]]
      /\ CopyStatus = [k \in Copy |-> CopyStatus[k]]
  BY DEF StatusAgrees
<1>3. CASE <<x, e>> \in Copy
  <2>1. Box!Move({<<x, e>>}, "held", "received")
    BY <1>1, <1>2, <1>3 DEF Box!Move
  <2>. QED  BY <1>3, <2>1 DEF Box!GiveOut
<1>4. CASE <<x, e>> \notin Copy
  BY <1>1, <1>2, <1>4
<1>. QED  BY <1>3, <1>4

(* The relay keeps the mailbox's promise for any number of devices, connections,
   senders and messages, whatever commands fail, keys expire and crashes happen, as
   long as ids are unique and a device does not reconnect before its old connection is
   cleaned up: a copy is taken once, arrives at most once, and never comes back. *)
THEOREM ImplementsMailbox == ASSUME Once, ~Overlap PROVE Spec => MailboxSpec
<1>1. Init => PlaceInv
  <2>. SUFFICES ASSUME Init PROVE PlaceInv
    OBVIOUS
  <2>1. \A m, d : ~InHandler(m, d) /\ ~Submitted(m)
    BY DEF Init, InHandler, Submitted
  <2>2. ASSUME NEW m \in Messages, NEW d \in Devices
        PROVE  m \notin queue[d] /\ ~InDrain(m, d) /\ ~InChannel(m, d) /\ ~Received(m, d)
    BY ToSetEmpty, RelayAssumption DEF Init, InDrain, InChannel, Received
  <2>3. \A m \in Messages, d \in Devices : Place(m, d)
    BY <2>1, <2>2 DEF Place, Held
  <2>. QED  BY <2>3, ToSetEmpty DEF Init, PlaceInv, Tidy, Alone, Open, NoRepeat, Working
<1>2. TypeOK /\ RegisteredIsOpen /\ PlaceInv /\ [Next]_vars => PlaceInv'
  BY PlaceNext
<1>3. Init /\ TypeOK /\ PlaceInv => Box!Init
  <2>. SUFFICES ASSUME Init, TypeOK, PlaceInv PROVE Box!Init
    OBVIOUS
  <2>1. StatusAgrees
    BY StatusThen
  <2>2. ASSUME NEW k \in Copy PROVE CopyStatus[k] = "new"
    <3>. PICK m \in Messages, d \in Devices : k[1] = m /\ k[2] = d
      BY DEF Copy
    <3>1. ~Submitted(m)
      BY DEF Init, Submitted
    <3>2. ~Received(m, d) /\ ~Held(m, d)
      BY <3>1 DEF PlaceInv, Place
    <3>. QED  BY <2>1, <3>1, <3>2 DEF StatusAgrees, StatusOf
  <2>. QED  BY <2>1, <2>2 DEF StatusAgrees, Box!Init
<1>4. TypeOK /\ TypeOK' /\ RegisteredIsOpen /\ PlaceInv /\ [Next]_vars => [Box!Next]_CopyStatus
  <2>. SUFFICES ASSUME TypeOK, TypeOK', RegisteredIsOpen, PlaceInv, [Next]_vars
                PROVE  [Box!Next]_CopyStatus
    OBVIOUS
  <2>1. StatusAgrees /\ StatusAgrees' /\ PlaceInv'
    BY PlaceNext, StatusThen, StatusNext
  <2>. QED
    BY <2>1, PlaceNext, LosesDrops, TakenAccepts, GivenOutGives DEF Box!Next
<1>. QED
  BY <1>1, <1>2, <1>3, <1>4, TypeCorrect, RegistrationSafe, PTL DEF Spec, MailboxSpec, Box!Spec

-----------------------------------------------------------------------------
(* What the mailbox promises *)

LEMMA MailboxTyped == Box!Spec => []Box!TypeOK
<1>1. Box!Init => Box!TypeOK
  BY DEF Box!Init, Box!TypeOK
<1>2. Box!TypeOK /\ [Box!Next]_CopyStatus => Box!TypeOK'
  BY DEF Box!TypeOK, Box!Next, Box!Accept, Box!GiveOut, Box!Drop, Box!Move
<1>. QED  BY <1>1, <1>2, PTL DEF Box!Spec

LEMMA MailboxNeverBack == Box!Spec => Box!NeverBack
<1>. DEFINE Onward ==
       \A k \in Copy :
         /\ CopyStatus[k] \in {"received", "gone"} => CopyStatus'[k] = CopyStatus[k]
         /\ CopyStatus[k] = "held" => CopyStatus'[k] # "new"
<1>1. [Box!Next]_CopyStatus => [Onward]_CopyStatus
  BY DEF Box!Next, Box!Accept, Box!GiveOut, Box!Drop, Box!Move
<1>. QED  BY <1>1, PTL DEF Box!Spec, Box!NeverBack

(* However queue, drains and live channels interleave, whatever fails or expires, and
   over any number of crashes: no message arrives twice at a device, and none that
   arrived is kept by the server. *)
AtMostOnce == \A k \in Copy :
  /\ Arrivals(k[1], k[2]) <= 1
  /\ Arrivals(k[1], k[2]) = 1 => ~Held(k[1], k[2])

THEOREM ArrivesOnce == ASSUME Once, ~Overlap PROVE Spec => []AtMostOnce
<1>1. TypeOK /\ Box!TypeOK => AtMostOnce
  <2>. SUFFICES ASSUME TypeOK, Box!TypeOK, NEW k \in Copy
                PROVE  /\ Arrivals(k[1], k[2]) <= 1
                       /\ Arrivals(k[1], k[2]) = 1 => ~Held(k[1], k[2])
    BY DEF AtMostOnce
  <2>1. PICK m \in Messages, d \in Devices : k[1] = m /\ k[2] = d
    BY DEF Copy
  <2>2. Arrivals(m, d) \in Nat
    <3>1. received[d] \in Seq(Messages)
      BY DEF TypeOK
    <3>2. {i \in DOMAIN received[d] : received[d][i] = m} \in SUBSET (1 .. Len(received[d]))
      BY <3>1
    <3>3. IsFiniteSet(1 .. Len(received[d]))
      BY <3>1, FS_Interval
    <3>. QED  BY <3>2, <3>3, FS_Subset, FS_CardinalityType DEF Arrivals
  <2>3. CopyStatus[k] \in {"new", "held", "received", "gone"}
    BY DEF Box!TypeOK
  <2>4. CopyStatus[k] =
          IF Arrivals(m, d) > 0
          THEN IF Arrivals(m, d) = 1 /\ ~Held(m, d) THEN "received" ELSE "duplicated"
          ELSE IF Held(m, d) THEN "held" ELSE IF Submitted(m) THEN "gone" ELSE "new"
    BY <2>1 DEF CopyStatus
  <2>. QED  BY <2>1, <2>2, <2>3, <2>4
<1>. QED  BY <1>1, ImplementsMailbox, MailboxTyped, TypeCorrect, PTL DEF MailboxSpec

(* A copy that arrived or was lost stays so: no retry, no drain and no sink brings it
   back. *)
THEOREM NeverComesBack == ASSUME Once, ~Overlap PROVE Spec => Box!NeverBack
BY ImplementsMailbox, MailboxNeverBack, PTL DEF MailboxSpec
=============================================================================
