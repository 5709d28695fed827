---------------------------------- MODULE Wipe ---------------------------------
(***************************************************************************)
(* Remote wipe: the commands are stored in Redis under                     *)
(* wipe:{device}:{wipe_id} (crates/hysj-messaging/src/wipe.rs), pushed     *)
(* over the WebSocket when they are issued (routes/wipe.rs and the         *)
(* WipeCommand arm of ws/handler.rs), when a device connects               *)
(* (deliver_pending_wipes) and by a sweep every five minutes               *)
(* (background/wipe_pending.rs); an acknowledgement deletes the key.       *)
(*                                                                         *)
(* A connection is the server's side of one WebSocket; it can be opened    *)
(* again once it is closed.  A device may have several: the map holds the  *)
(* last that registered, and a cleanup removes the entry of its device,    *)
(* whoever it belongs to.  What is pushed while the link of the entry is   *)
(* down is lost; a command that is in a channel when the link breaks is    *)
(* one pushed after it broke.                                              *)
(*                                                                         *)
(* Every SET, DEL, push and removal of an entry is a step.  The SCAN and   *)
(* GETs of get_pending_wipes are one step, the pushes of what it read come *)
(* later.                                                                  *)
(***************************************************************************)
EXTENDS Naturals, FiniteSets

CONSTANTS Devices,
          Conns,                 \* connections
          DeviceOf,              \* the device of each connection
          Wipes,                 \* wipe ids
          Lists,                 \* the device lists a wipe is for (own, partner's)
          Issuer,                \* the device that issues it
          MaxFaults,             \* bound: failed commands, removals by Redis, crashes
          Sweeper,               \* the task that sweeps
          NoConn, NoDevice

ASSUME WipeAssumption ==
  /\ DeviceOf \in [Conns -> Devices]
  /\ Lists \in [Wipes -> SUBSET (SUBSET Devices)]
  /\ Issuer \in [Wipes -> Devices]
  /\ MaxFaults \in Nat
  /\ NoConn \notin Conns /\ NoDevice \notin Devices
  /\ "none" \notin Conns /\ "rest" \notin Conns

VARIABLES entry,                 \* AppState.connections
          link,                  \* is the network path of a connection up?
          stored,                \* Redis: wipes under wipe:{device}:
          ipc,                   \* where the handler that issues a wipe is
          via,                   \* which handler: "rest", or the connection whose reader it is
          targets,               \* target_devices
          todo,                  \* targets its current loop has not reached
          dpc,                   \* where handle_socket is
          batch,                 \* what deliver_pending_wipes read and has not pushed
          removing,              \* the device whose entry a task found stale and is to remove
          keys,                  \* the sweep: keys SCAN returned, not handled
          swept,                 \* the device it is pushing to
          sweepBatch,            \* what it read and has not pushed
          reached,               \* wipes that reached a device
          acked,                 \* wipes acknowledged in the name of a device
          expired,               \* wipes Redis removed
          faults

issueVars == <<ipc, via, targets, todo>>
connVars == <<entry, link, dpc, batch>>
sweepVars == <<keys, swept, sweepBatch>>
ghostVars == <<reached, acked, expired>>
vars == <<stored, issueVars, connVars, removing, sweepVars, ghostVars, faults>>

\* The tasks that push.
Tasks == Wipes \cup Conns \cup {Sweeper}

Open(c) == dpc[c] # "closed"

Issuing(w) == ipc[w] \in {"set", "push"}

\* The reader loop of c waits for a frame.
Reading(c) == dpc[c] = "run" /\ \A w \in Wipes : via[w] = c => ~Issuing(w)

Registered(d) == entry[d] # NoConn

Init ==
  /\ entry = [d \in Devices |-> NoConn]
  /\ link = [c \in Conns |-> FALSE]
  /\ stored = [d \in Devices |-> {}]
  /\ ipc = [w \in Wipes |-> "new"]
  /\ via = [w \in Wipes |-> "none"]
  /\ targets = [w \in Wipes |-> {}]
  /\ todo = [w \in Wipes |-> {}]
  /\ dpc = [c \in Conns |-> "closed"]
  /\ batch = [c \in Conns |-> {}]
  /\ removing = [t \in Tasks |-> NoDevice]
  /\ keys = {}
  /\ swept = NoDevice
  /\ sweepBatch = {}
  /\ reached = [d \in Devices |-> {}]
  /\ acked = [d \in Devices |-> {}]
  /\ expired = [d \in Devices |-> {}]
  /\ faults = 0

Fault == faults < MaxFaults /\ faults' = faults + 1

\* send_to_device by task t; nobody looks at the result.  The channel of a connection whose
\* link is down is closed when its sink task has found out.
Push(t, w, d) ==
  /\ removing[t] = NoDevice
  /\ \/ /\ Registered(d) => ~link[entry[d]]
        /\ UNCHANGED <<reached, removing>>
     \/ /\ Registered(d) /\ link[entry[d]]
        /\ reached' = [reached EXCEPT ![d] = @ \cup {w}]
        /\ UNCHANGED removing
     \/ /\ Registered(d) /\ ~link[entry[d]] /\ dpc[entry[d]] = "run"
        /\ removing' = [removing EXCEPT ![t] = d]
        /\ UNCHANGED reached

\* The entry is removed later, when it may be that of a newer connection.
RemoveStale(t) ==
  /\ removing[t] # NoDevice
  /\ entry' = [entry EXCEPT ![removing[t]] = NoConn]
  /\ removing' = [removing EXCEPT ![t] = NoDevice]
  /\ UNCHANGED <<stored, issueVars, link, dpc, batch, sweepVars, ghostVars, faults>>

-----------------------------------------------------------------------------
(* Issuing: POST /api/wipe and WsMessage::WipeCommand *)

Begin(w, handler, devices) ==
  /\ ipc[w] = "new"
  /\ ipc' = [ipc EXCEPT ![w] = "set"]
  /\ via' = [via EXCEPT ![w] = handler]
  /\ targets' = [targets EXCEPT ![w] = devices]
  /\ todo' = [todo EXCEPT ![w] = devices]
  /\ UNCHANGED <<stored, connVars, removing, sweepVars, ghostVars>>

\* The REST handler gives up when a list cannot be read or there is no device.
IssueRest(w) ==
  /\ UNION Lists[w] # {}
  /\ Begin(w, "rest", UNION Lists[w])
  /\ UNCHANGED faults

\* The WebSocket handler takes a list that cannot be read for an empty one.
IssueWs(w, c) ==
  /\ Reading(c) /\ DeviceOf[c] = Issuer[w]
  /\ \/ Begin(w, c, UNION Lists[w]) /\ UNCHANGED faults
     \/ Fault /\ \E read \in SUBSET Lists[w] : Begin(w, c, UNION read)

\* issue_wipe: SET EX for one target.
Store(w, d) ==
  /\ ipc[w] = "set" /\ d \in todo[w]
  /\ stored' = [stored EXCEPT ![d] = @ \cup {w}]
  /\ todo' = [todo EXCEPT ![w] = @ \ {d}]
  /\ UNCHANGED <<ipc, via, targets, connVars, removing, sweepVars, ghostVars, faults>>

\* The first SET that fails ends the loop and the handler: the targets before
\* it, and this one if the command was executed, keep the wipe.
StoreError(w, d) ==
  /\ ipc[w] = "set" /\ d \in todo[w] /\ Fault
  /\ \/ UNCHANGED stored
     \/ stored' = [stored EXCEPT ![d] = @ \cup {w}]
  /\ ipc' = [ipc EXCEPT ![w] = "failed"]
  /\ UNCHANGED <<via, targets, todo, connVars, removing, sweepVars, ghostVars>>

\* Over the WebSocket the issuing device is not told.
StoreDone(w) ==
  /\ ipc[w] = "set" /\ todo[w] = {}
  /\ ipc' = [ipc EXCEPT ![w] = "push"]
  /\ todo' = [todo EXCEPT ![w] =
                IF via[w] = "rest" THEN targets[w] ELSE targets[w] \ {Issuer[w]}]
  /\ UNCHANGED <<stored, via, targets, connVars, removing, sweepVars, ghostVars, faults>>

IssuePush(w, d) ==
  /\ ipc[w] = "push" /\ d \in todo[w]
  /\ Push(w, w, d)
  /\ todo' = [todo EXCEPT ![w] = @ \ {d}]
  /\ UNCHANGED <<stored, ipc, via, targets, connVars, sweepVars, acked, expired, faults>>

\* The REST response carries the wipe id; over the WebSocket nobody learns it.
IssueDone(w) ==
  /\ ipc[w] = "push" /\ todo[w] = {} /\ removing[w] = NoDevice
  /\ ipc' = [ipc EXCEPT ![w] = "done"]
  /\ UNCHANGED <<stored, via, targets, todo, connVars, removing, sweepVars, ghostVars, faults>>

Handler(w) ==
  \/ StoreDone(w) \/ IssueDone(w) \/ RemoveStale(w)
  \/ \E d \in Devices : Store(w, d) \/ IssuePush(w, d)

-----------------------------------------------------------------------------
(* Connections: handle_socket as far as wipes are concerned *)

\* connections.insert: an entry of the same device is replaced; its connection runs on.
Connect(c) ==
  /\ dpc[c] = "closed"
  /\ entry' = [entry EXCEPT ![DeviceOf[c]] = c]
  /\ link' = [link EXCEPT ![c] = TRUE]
  /\ dpc' = [dpc EXCEPT ![c] = "read"]
  /\ UNCHANGED <<stored, issueVars, batch, removing, sweepVars, ghostVars, faults>>

\* get_pending_wipes; when it fails nothing is delivered.
ReadPending(c) ==
  /\ dpc[c] = "read"
  /\ \/ batch' = [batch EXCEPT ![c] = stored[DeviceOf[c]]] /\ UNCHANGED faults
     \/ Fault /\ UNCHANGED batch
  /\ dpc' = [dpc EXCEPT ![c] = "push"]
  /\ UNCHANGED <<stored, issueVars, entry, link, removing, sweepVars, ghostVars>>

\* Mutant: what cannot be pushed is stored again.
PushPendingOrStore(c, w) ==
  LET d == DeviceOf[c]
  IN  /\ dpc[c] = "push" /\ w \in batch[c]
      /\ Push(c, w, d)
      /\ stored' = IF w \in reached'[d] THEN stored ELSE [stored EXCEPT ![d] = @ \cup {w}]
      /\ batch' = [batch EXCEPT ![c] = @ \ {w}]
      /\ UNCHANGED <<issueVars, entry, link, dpc, sweepVars, acked, expired, faults>>

PushPending(c, w) ==
  /\ dpc[c] = "push" /\ w \in batch[c]
  /\ Push(c, w, DeviceOf[c])
  /\ batch' = [batch EXCEPT ![c] = @ \ {w}]
  /\ UNCHANGED <<stored, issueVars, entry, link, dpc, sweepVars, acked, expired, faults>>

\* Mutant: the loop ends early.
PendingDoneEarly(c) ==
  /\ dpc[c] = "push"
  /\ dpc' = [dpc EXCEPT ![c] = "run"]
  /\ UNCHANGED <<stored, issueVars, entry, link, batch, removing, sweepVars, ghostVars, faults>>

\* The reader loop starts when everything pending is delivered.
PendingDone(c) ==
  /\ dpc[c] = "push" /\ batch[c] = {} /\ removing[c] = NoDevice
  /\ dpc' = [dpc EXCEPT ![c] = "run"]
  /\ UNCHANGED <<stored, issueVars, entry, link, batch, removing, sweepVars, ghostVars, faults>>

LinkDrop(c) ==
  /\ Open(c) /\ link[c]
  /\ link' = [link EXCEPT ![c] = FALSE]
  /\ UNCHANGED <<stored, issueVars, entry, dpc, batch, removing, sweepVars, ghostVars, faults>>

\* connections.remove(&device_id), also when the entry is that of a newer connection.
Cleanup(c) ==
  /\ Reading(c) /\ ~link[c]
  /\ entry' = [entry EXCEPT ![DeviceOf[c]] = NoConn]
  /\ dpc' = [dpc EXCEPT ![c] = "closed"]
  /\ UNCHANGED <<stored, issueVars, link, batch, removing, sweepVars, ghostVars, faults>>

Socket(c) ==
  \/ ReadPending(c) \/ PendingDone(c) \/ RemoveStale(c)
  \/ \E w \in Wipes : PushPending(c, w)

-----------------------------------------------------------------------------
(* The sweep *)

SweepIdle == keys = {} /\ swept = NoDevice

SweepStart ==
  /\ SweepIdle
  /\ keys' = {k \in Devices \X Wipes : k[2] \in stored[k[1]]}
  /\ UNCHANGED <<stored, issueVars, connVars, removing, swept, sweepBatch, ghostVars,
                 faults>>

\* Mutant: the sweep serves the devices that are not in the map.
SweepKeyOffline(k) ==
  /\ k \in keys /\ swept = NoDevice
  /\ keys' = keys \ {k}
  /\ \/ ~Registered(k[1]) /\ swept' = k[1] /\ sweepBatch' = stored[k[1]]
     \/ Registered(k[1]) /\ UNCHANGED <<swept, sweepBatch>>
  /\ UNCHANGED <<stored, issueVars, connVars, removing, ghostVars, faults>>

\* For a key of a device in the map, every pending wipe of that device is read.
SweepKey(k) ==
  /\ k \in keys /\ swept = NoDevice
  /\ keys' = keys \ {k}
  /\ \/ /\ Registered(k[1])
        /\ swept' = k[1] /\ sweepBatch' = stored[k[1]]
        /\ UNCHANGED faults
     \/ ~Registered(k[1]) /\ UNCHANGED <<swept, sweepBatch, faults>>
     \/ Registered(k[1]) /\ Fault /\ UNCHANGED <<swept, sweepBatch>>
  /\ UNCHANGED <<stored, issueVars, connVars, removing, ghostVars>>

SweepPush(w) ==
  /\ swept # NoDevice /\ w \in sweepBatch
  /\ Push(Sweeper, w, swept)
  /\ sweepBatch' = sweepBatch \ {w}
  /\ UNCHANGED <<stored, issueVars, connVars, keys, swept, acked, expired, faults>>

SweepNext ==
  /\ swept # NoDevice /\ sweepBatch = {} /\ removing[Sweeper] = NoDevice
  /\ swept' = NoDevice
  /\ UNCHANGED <<stored, issueVars, connVars, removing, keys, sweepBatch, ghostVars, faults>>

Sweep ==
  \/ SweepStart \/ SweepNext \/ RemoveStale(Sweeper)
  \/ \E k \in Devices \X Wipes : SweepKey(k)
  \/ \E w \in Wipes : SweepPush(w)

-----------------------------------------------------------------------------
(* Acknowledgement, status, environment *)

\* A WipeAck must name the wipe id, which the WipeCommand that is pushed does not carry: it
\* is in the REST response, and from there on anybody may have it.
Disclosed(w) == ipc[w] = "done" /\ via[w] = "rest"

\* Mutant: the key is deleted for every device.
AckForAll(c, d, w) ==
  /\ Reading(c) /\ Disclosed(w)
  /\ stored' = [e \in Devices |-> stored[e] \ {w}]
  /\ acked' = [acked EXCEPT ![d] = @ \cup {w}]
  /\ UNCHANGED <<issueVars, connVars, removing, sweepVars, reached, expired, faults>>

\* WipeAck: the key of the device and the wipe it names is deleted, whoever sends it, and
\* whether or not that device ever got the command.
Ack(c, d, w) ==
  /\ Reading(c) /\ Disclosed(w)
  /\ stored' = [stored EXCEPT ![d] = @ \ {w}]
  /\ acked' = [acked EXCEPT ![d] = @ \cup {w}]
  /\ UNCHANGED <<issueVars, connVars, removing, sweepVars, reached, expired, faults>>

\* The TTL of 30 days, or eviction by Redis.
Expire(d, w) ==
  /\ w \in stored[d] /\ Fault
  /\ stored' = [stored EXCEPT ![d] = @ \ {w}]
  /\ expired' = [expired EXCEPT ![d] = @ \cup {w}]
  /\ UNCHANGED <<issueVars, connVars, removing, sweepVars, reached, acked>>

Crash ==
  /\ Fault
  /\ entry' = [d \in Devices |-> NoConn]
  /\ link' = [c \in Conns |-> FALSE]
  /\ ipc' = [w \in Wipes |-> IF Issuing(w) THEN "failed" ELSE ipc[w]]
  /\ dpc' = [c \in Conns |-> "closed"]
  /\ batch' = [c \in Conns |-> {}]
  /\ removing' = [t \in Tasks |-> NoDevice]
  /\ keys' = {} /\ swept' = NoDevice /\ sweepBatch' = {}
  /\ UNCHANGED <<stored, via, targets, todo, ghostVars>>

Next ==
  \/ \E w \in Wipes : IssueRest(w) \/ Handler(w)
  \/ \E w \in Wipes, c \in Conns : IssueWs(w, c) \/ \E d \in Devices : Ack(c, d, w)
  \/ \E w \in Wipes, d \in Devices : StoreError(w, d) \/ Expire(d, w)
  \/ \E c \in Conns : Connect(c) \/ Socket(c) \/ LinkDrop(c) \/ Cleanup(c)
  \/ Sweep
  \/ Crash

Spec == Init /\ [][Next]_vars

\* Tasks are polled, commands return, the sweep's timer fires.
Fairness ==
  /\ WF_vars(Sweep)
  /\ \A w \in Wipes : WF_vars(Handler(w))
  /\ \A c \in Conns : WF_vars(Socket(c))

FairSpec == Spec /\ Fairness

-----------------------------------------------------------------------------
\* Type invariant; an entry is that of an open connection of the device, and
\* deliver_pending_wipes and the sweep hold a batch only while they push it.
TypeOK ==
  /\ entry \in [Devices -> Conns \cup {NoConn}]
  /\ link \in [Conns -> BOOLEAN]
  /\ stored \in [Devices -> SUBSET Wipes]
  /\ ipc \in [Wipes -> {"new", "set", "push", "done", "failed"}]
  /\ via \in [Wipes -> {"none", "rest"} \cup Conns]
  /\ targets \in [Wipes -> SUBSET Devices] /\ todo \in [Wipes -> SUBSET Devices]
  /\ dpc \in [Conns -> {"closed", "read", "push", "run"}]
  /\ batch \in [Conns -> SUBSET Wipes]
  /\ removing \in [Tasks -> Devices \cup {NoDevice}]
  /\ keys \subseteq Devices \X Wipes
  /\ swept \in Devices \cup {NoDevice} /\ sweepBatch \subseteq Wipes
  /\ reached \in [Devices -> SUBSET Wipes] /\ acked \in [Devices -> SUBSET Wipes]
  /\ expired \in [Devices -> SUBSET Wipes]
  /\ faults \in 0 .. MaxFaults
  /\ \A w \in Wipes : todo[w] \subseteq targets[w]
  /\ \A d \in Devices : Registered(d) => DeviceOf[entry[d]] = d /\ Open(entry[d])
  /\ \A c \in Conns : batch[c] # {} => dpc[c] = "push"
  /\ sweepBatch # {} => swept # NoDevice

\* wipe.rs:15, "waiting for a device to acknowledge": a wipe that was issued,
\* or that reached the device already, stays in Redis until a WipeAck names
\* that device and that wipe, or Redis removed it.  A device that lost the
\* command on a dead link, or crashed over it, gets it again; failed commands,
\* crashes and connections that overlap remove nothing.  It says nothing of
\* who sent the WipeAck.
AtLeastOnce ==
  \A d \in Devices, w \in Wipes :
    (ipc[w] \in {"push", "done"} /\ d \in targets[w]) \/ w \in reached[d]
      => w \in stored[d] \cup acked[d] \cup expired[d]

\* An acknowledged wipe is not stored again, although several tasks read, push
\* and delete the same keys.
AckedIsGone == \A d \in Devices : stored[d] \cap acked[d] = {}

\* A stored wipe reaches a device whose entry in the map stays that of a working
\* connection, also when the push of its handler came before the device
\* registered and the device read its pending wipes before the key was set.
\* A device whose entry an older connection's cleanup took is not served, though
\* it is connected.
Served(d) == Registered(d) /\ link[entry[d]]

PendingWipeReaches ==
  \A d \in Devices, w \in Wipes :
    w \in stored[d] /\ Served(d) ~> w \in reached[d] \/ w \notin stored[d] \/ ~Served(d)
=============================================================================
