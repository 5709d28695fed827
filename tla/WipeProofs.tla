------------------------------- MODULE WipeProofs ------------------------------
(***************************************************************************)
(* Remote wipe keeps its promise for any number of devices, wipes and      *)
(* faults: a command that was issued, or that reached its device, stays in *)
(* Redis until an acknowledgement names that device or Redis removes it.   *)
(*                                                                         *)
(* Inductive, this says more: everything that some task is about to push   *)
(* was read from Redis or stored there before, and an acknowledged wipe is *)
(* one whose handler has finished, so that nobody stores it again.         *)
(***************************************************************************)
EXTENDS Wipe, TLAPS

Kept(d) == stored[d] \cup acked[d] \cup expired[d]

Stored(w, d) ==
  \/ ipc[w] = "set" /\ d \in targets[w] \ todo[w]
  \/ ipc[w] \in {"push", "done"} /\ d \in targets[w]

InHand(w, d) ==
  \/ w \in reached[d]
  \/ \E c \in Conns : DeviceOf[c] = d /\ w \in batch[c]
  \/ d = swept /\ w \in sweepBatch

KeptInv == \A d \in Devices, w \in Wipes : Stored(w, d) \/ InHand(w, d) => w \in Kept(d)

AckInv == \A d \in Devices : \A w \in acked[d] : ipc[w] = "done" /\ w \notin stored[d]

(* No clause of the type invariant needs another invariant. *)
LEMMA InitType == Init => TypeOK
BY WipeAssumption DEF Init, TypeOK, Registered

LEMMA PushType ==
  ASSUME TypeOK, NEW t \in Tasks, NEW w \in Wipes, NEW d \in Devices, Push(t, w, d)
  PROVE  /\ reached' \in [Devices -> SUBSET Wipes]
         /\ removing' \in [Tasks -> Devices \cup {NoDevice}]
BY DEF TypeOK, Push

LEMMA RemoveType ==
  ASSUME TypeOK, NEW t \in Tasks, RemoveStale(t)
  PROVE  TypeOK'
<1>1. /\ removing[t] \in Devices
      /\ entry' = [entry EXCEPT ![removing[t]] = NoConn]
      /\ removing' = [removing EXCEPT ![t] = NoDevice]
      /\ UNCHANGED <<stored, ipc, via, targets, todo, link, dpc, batch, keys, swept, sweepBatch,
                      reached, acked, expired, faults>>
  BY DEF TypeOK, RemoveStale, issueVars, sweepVars, ghostVars
<1>2. entry' \in [Devices -> Conns \cup {NoConn}]
      /\ \A d \in Devices : Registered(d)' => entry'[d] = entry[d] /\ Registered(d)
  BY <1>1 DEF TypeOK, Registered
<1>. QED  BY <1>1, <1>2 DEF TypeOK, Open

LEMMA HandlerType ==
  ASSUME TypeOK, NEW w \in Wipes,
         IssueRest(w) \/ (\E c \in Conns : IssueWs(w, c)) \/ Handler(w)
  PROVE  TypeOK'
<1>0. w \in Tasks
  BY DEF Tasks
<1>1. ASSUME NEW devices \in SUBSET Devices, NEW h \in {"rest"} \cup Conns,
             Begin(w, h, devices), faults' \in 0 .. MaxFaults
      PROVE  TypeOK'
  BY <1>1 DEF TypeOK, Begin, connVars, Registered, Open, sweepVars, ghostVars
<1>2. CASE IssueRest(w)
  BY <1>1, <1>2, WipeAssumption DEF IssueRest, TypeOK
<1>3. ASSUME NEW c \in Conns, IssueWs(w, c)
      PROVE  TypeOK'
  <2>1. faults' \in 0 .. MaxFaults
    BY <1>3, WipeAssumption DEF IssueWs, Fault, TypeOK
  <2>2. PICK devices \in SUBSET Devices : Begin(w, c, devices)
    BY <1>3, WipeAssumption DEF IssueWs
  <2>. QED  BY <1>1, <2>1, <2>2
<1>4. CASE \E d \in Devices : Store(w, d)
  BY <1>4 DEF TypeOK, Store, connVars, Registered, Open, sweepVars, ghostVars
<1>5. CASE StoreDone(w)
  BY <1>5 DEF TypeOK, StoreDone, connVars, Registered, Open, sweepVars, ghostVars
<1>6. CASE \E d \in Devices : IssuePush(w, d)
  BY <1>0, <1>6, PushType DEF TypeOK, IssuePush, connVars, Registered, Open, sweepVars
<1>7. CASE IssueDone(w)
  BY <1>7 DEF TypeOK, IssueDone, connVars, Registered, Open, sweepVars, ghostVars
<1>. QED  BY <1>0, <1>2, <1>3, <1>4, <1>5, <1>6, <1>7, RemoveType DEF Handler

LEMMA SocketType ==
  ASSUME TypeOK, NEW c \in Conns, Connect(c) \/ Socket(c) \/ LinkDrop(c) \/ Cleanup(c)
  PROVE  TypeOK'
<1>0. c \in Tasks /\ DeviceOf[c] \in Devices
  BY WipeAssumption DEF Tasks
<1>1. CASE Connect(c)
  BY <1>0, <1>1, WipeAssumption
    DEF TypeOK, Connect, issueVars, sweepVars, ghostVars, Registered, Open
<1>2. CASE ReadPending(c)
  <2>1. /\ dpc[c] = "read" /\ dpc' = [dpc EXCEPT ![c] = "push"]
        /\ batch' = batch \/ batch' = [batch EXCEPT ![c] = stored[DeviceOf[c]]]
        /\ faults' \in 0 .. MaxFaults
    BY <1>2, WipeAssumption DEF TypeOK, ReadPending, Fault
  <2>2. /\ UNCHANGED <<entry, link, stored, removing, ipc, via, targets, todo, keys, swept>>
        /\ UNCHANGED <<sweepBatch, reached, acked, expired>>
    BY <1>2 DEF ReadPending, issueVars, sweepVars, ghostVars
  <2>3. \A e \in Conns : /\ dpc'[e] # "closed" <=> dpc[e] # "closed"
                         /\ batch'[e] # {} => dpc'[e] = "push"
                         /\ dpc'[e] \in {"closed", "read", "push", "run"}
                         /\ batch'[e] \in SUBSET Wipes
    BY <1>0, <2>1 DEF TypeOK
  <2>4. \A d \in Devices : Registered(d)' => DeviceOf[entry'[d]] = d /\ Open(entry[d])'
    BY <2>2, <2>3 DEF TypeOK, Registered, Open
  <2>5. dpc' \in [Conns -> {"closed", "read", "push", "run"}] /\ batch' \in [Conns -> SUBSET Wipes]
    BY <1>0, <2>1 DEF TypeOK
  <2>. QED  BY <2>1, <2>2, <2>3, <2>4, <2>5 DEF TypeOK, Registered
<1>3. CASE \E w \in Wipes : PushPending(c, w)
  BY <1>0, <1>3, PushType DEF TypeOK, PushPending, issueVars, sweepVars, Registered, Open
<1>4. CASE PendingDone(c)
  BY <1>4 DEF TypeOK, PendingDone, issueVars, sweepVars, ghostVars, Registered, Open
<1>5. CASE LinkDrop(c)
  BY <1>5 DEF TypeOK, LinkDrop, issueVars, sweepVars, ghostVars, Registered, Open
<1>6. CASE Cleanup(c)
  BY <1>0, <1>6 DEF TypeOK, Cleanup, issueVars, sweepVars, ghostVars, Registered, Open, Reading
<1>. QED  BY <1>0, <1>1, <1>2, <1>3, <1>4, <1>5, <1>6, RemoveType DEF Socket

LEMMA SweepType ==
  ASSUME TypeOK, Sweep
  PROVE  TypeOK'
<1>0. Sweeper \in Tasks
  BY DEF Tasks
<1>1. CASE SweepStart
  BY <1>1 DEF TypeOK, SweepStart, SweepIdle, issueVars, connVars, Registered, Open, ghostVars
<1>2. CASE \E k \in Devices \X Wipes : SweepKey(k)
  BY <1>2, WipeAssumption
    DEF TypeOK, SweepKey, Fault, issueVars, connVars, Registered, Open, ghostVars
<1>3. CASE \E w \in Wipes : SweepPush(w)
  BY <1>0, <1>3, PushType DEF TypeOK, SweepPush, issueVars, connVars, Registered, Open
<1>4. CASE SweepNext
  BY <1>4 DEF TypeOK, SweepNext, issueVars, connVars, Registered, Open, ghostVars
<1>. QED  BY <1>0, <1>1, <1>2, <1>3, <1>4, RemoveType DEF Sweep

(* Type correctness of remote wipe: a batch is held only while it is pushed,
   and a handler's targets still to be reached are targets. *)
THEOREM WipeTypeCorrect == Spec => []TypeOK
<1>1. TypeOK /\ [Next]_vars => TypeOK'
  <2>. SUFFICES ASSUME TypeOK, [Next]_vars PROVE TypeOK'
    OBVIOUS
  <2>1. CASE \E w \in Wipes : \/ IssueRest(w) \/ Handler(w)
                              \/ \E c \in Conns : IssueWs(w, c)
    BY <2>1, HandlerType
  <2>2. CASE \E c \in Conns : Connect(c) \/ Socket(c) \/ LinkDrop(c) \/ Cleanup(c)
    BY <2>2, SocketType
  <2>3. CASE Sweep
    BY <2>3, SweepType
  <2>4. ASSUME NEW w \in Wipes, NEW d \in Devices, StoreError(w, d)
        PROVE  TypeOK'
    <3>1. /\ stored' \in [Devices -> SUBSET Wipes] /\ ipc' = [ipc EXCEPT ![w] = "failed"]
          /\ faults' \in 0 .. MaxFaults
      <4>1. faults \in 0 .. MaxFaults /\ faults < MaxFaults /\ faults' = faults + 1
        BY <2>4 DEF TypeOK, StoreError, Fault
      <4>2. stored \in [Devices -> SUBSET Wipes]
            /\ (stored' = stored \/ stored' = [stored EXCEPT ![d] = @ \cup {w}])
        BY <2>4 DEF TypeOK, StoreError
      <4>. QED  BY <2>4, <4>1, <4>2, WipeAssumption DEF StoreError
    <3>2. UNCHANGED <<entry, link, via, targets, todo, dpc, batch, removing, keys, swept,
                      sweepBatch, reached, acked, expired>>
      BY <2>4 DEF StoreError, connVars, sweepVars, ghostVars
    <3>. QED  BY <3>1, <3>2 DEF TypeOK, Registered, Open
  <2>5. ASSUME NEW c \in Conns, NEW w \in Wipes, NEW d \in Devices, Ack(c, d, w)
        PROVE  TypeOK'
    BY <2>5 DEF TypeOK, Ack, issueVars, connVars, sweepVars, Registered, Open
  <2>6. ASSUME NEW w \in Wipes, NEW d \in Devices, Expire(d, w)
        PROVE  TypeOK'
    BY <2>6, WipeAssumption
      DEF TypeOK, Expire, Fault, issueVars, connVars, sweepVars, Registered, Open
  <2>7. CASE Crash
    BY <2>7, WipeAssumption DEF TypeOK, Crash, Fault, ghostVars, Registered
  <2>8. CASE UNCHANGED vars
    BY <2>8 DEF TypeOK, vars, issueVars, connVars, sweepVars, ghostVars, Registered, Open
  <2>. QED  BY <2>1, <2>2, <2>3, <2>4, <2>5, <2>6, <2>7, <2>8 DEF Next
<1>. QED  BY InitType, <1>1, PTL DEF Spec

LEMMA InitKept == Init => KeptInv /\ AckInv
BY DEF Init, KeptInv, AckInv, Stored, InHand, Kept

LEMMA PushKept ==
  ASSUME TypeOK, NEW t, NEW w \in Wipes, NEW d \in Devices, Push(t, w, d)
  PROVE  \A e \in Devices : reached'[e] \subseteq reached[e] \cup (IF e = d THEN {w} ELSE {})
BY DEF TypeOK, Push

LEMMA RemoveKept ==
  ASSUME KeptInv, AckInv, NEW t, RemoveStale(t)
  PROVE  KeptInv' /\ AckInv'
BY DEF KeptInv, AckInv, Stored, InHand, Kept, RemoveStale, issueVars, sweepVars, ghostVars

LEMMA HandlerKept ==
  ASSUME TypeOK, KeptInv, AckInv, NEW w \in Wipes,
         IssueRest(w) \/ (\E c \in Conns : IssueWs(w, c)) \/ Handler(w)
  PROVE  KeptInv' /\ AckInv'
<1>. USE DEF KeptInv, AckInv, Stored, InHand, Kept
<1>1. ASSUME NEW devices \in SUBSET Devices, NEW h, Begin(w, h, devices)
      PROVE  KeptInv' /\ AckInv'
  BY <1>1 DEF TypeOK, Begin, connVars, sweepVars, ghostVars
<1>2. CASE IssueRest(w)
  BY <1>1, <1>2, WipeAssumption DEF IssueRest
<1>3. ASSUME NEW c \in Conns, IssueWs(w, c)
      PROVE  KeptInv' /\ AckInv'
  <2>1. PICK devices \in SUBSET Devices : Begin(w, c, devices)
    BY <1>3, WipeAssumption DEF IssueWs
  <2>. QED  BY <1>1, <2>1
<1>4. CASE \E d \in Devices : Store(w, d)
  BY <1>4 DEF TypeOK, Store, connVars, sweepVars, ghostVars
<1>5. CASE StoreDone(w)
  BY <1>5 DEF TypeOK, StoreDone, connVars, sweepVars, ghostVars
<1>6. CASE \E d \in Devices : IssuePush(w, d)
  BY <1>6, PushKept DEF TypeOK, IssuePush, connVars, sweepVars
<1>7. CASE IssueDone(w)
  BY <1>7 DEF TypeOK, IssueDone, connVars, sweepVars, ghostVars
<1>. QED  BY <1>2, <1>3, <1>4, <1>5, <1>6, <1>7, RemoveKept DEF Handler

LEMMA SocketKept ==
  ASSUME TypeOK, KeptInv, AckInv, NEW c \in Conns,
         Connect(c) \/ Socket(c) \/ LinkDrop(c) \/ Cleanup(c)
  PROVE  KeptInv' /\ AckInv'
<1>. USE DEF KeptInv, AckInv, Stored, InHand, Kept
<1>0. DeviceOf[c] \in Devices
  BY WipeAssumption
<1>1. CASE Connect(c) \/ PendingDone(c) \/ LinkDrop(c) \/ Cleanup(c)
  BY <1>1 DEF Connect, PendingDone, LinkDrop, Cleanup, issueVars, sweepVars, ghostVars
<1>2. CASE ReadPending(c)
  <2>1. /\ UNCHANGED <<stored, ipc, via, targets, todo, swept, sweepBatch, reached, acked>>
        /\ UNCHANGED expired
    BY <1>2 DEF ReadPending, issueVars, sweepVars, ghostVars
  <2>2. \A e \in Conns, w \in Wipes :
          w \in batch'[e] => w \in batch[e] \/ w \in stored[DeviceOf[e]]
    BY <1>2 DEF TypeOK, ReadPending
  <2>. QED  BY <2>1, <2>2
<1>3. CASE \E w \in Wipes : PushPending(c, w)
  BY <1>0, <1>3, PushKept DEF TypeOK, PushPending, issueVars, sweepVars
<1>. QED  BY <1>1, <1>2, <1>3, RemoveKept DEF Socket

LEMMA SweepKept ==
  ASSUME TypeOK, KeptInv, AckInv, Sweep
  PROVE  KeptInv' /\ AckInv'
<1>. USE DEF KeptInv, AckInv, Stored, InHand, Kept
<1>1. CASE SweepStart
  BY <1>1 DEF TypeOK, SweepStart, SweepIdle, issueVars, connVars, ghostVars
<1>2. CASE \E k \in Devices \X Wipes : SweepKey(k)
  BY <1>2 DEF TypeOK, SweepKey, issueVars, connVars, ghostVars
<1>3. CASE \E w \in Wipes : SweepPush(w)
  BY <1>3, PushKept, WipeAssumption DEF TypeOK, SweepPush, issueVars, connVars
<1>4. CASE SweepNext
  BY <1>4 DEF TypeOK, SweepNext, issueVars, connVars, ghostVars
<1>. QED  BY <1>1, <1>2, <1>3, <1>4, RemoveKept DEF Sweep

LEMMA StepKept ==
  ASSUME TypeOK, KeptInv, AckInv, [Next]_vars
  PROVE  KeptInv' /\ AckInv'
<1>1. CASE \E w \in Wipes : \/ IssueRest(w) \/ Handler(w)
                            \/ \E c \in Conns : IssueWs(w, c)
  BY <1>1, HandlerKept
<1>2. CASE \E c \in Conns : Connect(c) \/ Socket(c) \/ LinkDrop(c) \/ Cleanup(c)
  BY <1>2, SocketKept
<1>3. CASE Sweep
  BY <1>3, SweepKept
<1>. USE DEF KeptInv, AckInv, Stored, InHand, Kept
<1>4. ASSUME NEW w \in Wipes, NEW d \in Devices, StoreError(w, d)
      PROVE  KeptInv' /\ AckInv'
  <2>1. \A e \in Devices : stored[e] \subseteq stored'[e]
                          /\ (stored'[e] = stored[e] \/ stored'[e] = stored[e] \cup {w})
    BY <1>4 DEF TypeOK, StoreError
  <2>2. /\ ipc[w] = "set" /\ ipc'[w] = "failed"
        /\ \A x \in Wipes \ {w} : ipc'[x] = ipc[x]
        /\ UNCHANGED <<targets, todo, batch, swept, sweepBatch, reached, acked, expired>>
    BY <1>4 DEF TypeOK, StoreError, connVars, sweepVars, ghostVars
  <2>3. \A e \in Devices, x \in Wipes : Kept(e) \subseteq Kept(e)'
                                        /\ (Stored(x, e)' => Stored(x, e))
                                        /\ (InHand(x, e)' => InHand(x, e))
    BY <2>1, <2>2
  <2>4. KeptInv'
    BY <2>3
  <2>5. AckInv'
    BY <2>1, <2>2 DEF TypeOK
  <2>. QED  BY <2>4, <2>5
<1>5. ASSUME NEW c \in Conns, NEW w \in Wipes, NEW d \in Devices, Ack(c, d, w)
      PROVE  KeptInv' /\ AckInv'
  BY <1>5 DEF TypeOK, Ack, Disclosed, issueVars, connVars, sweepVars
<1>6. ASSUME NEW w \in Wipes, NEW d \in Devices, Expire(d, w)
      PROVE  KeptInv' /\ AckInv'
  BY <1>6 DEF TypeOK, Expire, issueVars, connVars, sweepVars
<1>7. CASE Crash
  BY <1>7, WipeAssumption DEF TypeOK, Crash, Issuing, ghostVars
<1>8. CASE UNCHANGED vars
  BY <1>8 DEF vars, issueVars, connVars, sweepVars, ghostVars
<1>. QED  BY <1>1, <1>2, <1>3, <1>4, <1>5, <1>6, <1>7, <1>8 DEF Next

LEMMA KeptAlways == Spec => [](KeptInv /\ AckInv)
<1>1. (KeptInv /\ AckInv) /\ TypeOK /\ [Next]_vars => (KeptInv /\ AckInv)'
  BY StepKept
<1>. QED  BY InitKept, WipeTypeCorrect, <1>1, PTL DEF Spec

(* A wipe whose handler went through its targets, or that reached a device,
   is in Redis until a WipeAck, whoever sent it, names that device and that wipe, or Redis
   removed it: neither failed commands nor crashes, reconnections or sweeps remove one. *)
THEOREM WipeAtLeastOnce == Spec => []AtLeastOnce
<1>1. KeptInv => AtLeastOnce
  BY DEF KeptInv, AtLeastOnce, Stored, InHand, Kept
<1>. QED  BY KeptAlways, <1>1, PTL

(* An acknowledged wipe never comes back. *)
THEOREM WipeAckedIsGone == Spec => []AckedIsGone
<1>1. AckInv => AckedIsGone
  BY DEF AckInv, AckedIsGone
<1>. QED  BY KeptAlways, <1>1, PTL
=============================================================================
