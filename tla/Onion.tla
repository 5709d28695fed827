---------------------------------- MODULE Onion --------------------------------
(***************************************************************************)
(* Sealed sender and onion routing (hysj-crypto/src/sealed.rs, onion.rs,   *)
(* through native/src/api.rs) on symbolic keys: what is encrypted to a     *)
(* public key is a record that names its owner, and nobody else takes it   *)
(* apart.  A node is both an address and the owner of a key.               *)
(*                                                                         *)
(* A client seals a message and wraps the blob for a route.  The programs  *)
(* of the nodes and of the exit, which hands the blob to the recipients,   *)
(* are not in the repository: a node unwraps what it gets and forwards the *)
(* payload to the hop it finds.  Packets can be lost, repeated and late,   *)
(* as they never leave `wire`.                                             *)
(***************************************************************************)
EXTENDS Naturals, Sequences

CONSTANTS OnionNodes,
          Correspondents,        \* people who seal and open
          Final,                 \* "FINAL", the address in the innermost layer
          MaxHops,               \* bound on the length of a route, 3 in the docs
          MaxOnions              \* bound on the messages sent

ASSUME OnionAssumption ==
  /\ Final \notin OnionNodes
  /\ MaxHops \in Nat \ {0} /\ MaxOnions \in Nat

VARIABLES posted,                \* messages that were sealed and wrapped, with their route
          wire,                  \* packets: where each goes, and who unwrapped it so far
          read                   \* what each correspondent opened

onionVars == <<posted, wire, read>>

Routes == UNION {[1 .. n -> OnionNodes] : n \in 1 .. MaxHops}

\* The sender's certificate: a signature of the server over some user's id, which has
\* 64 bytes, or anything else, such as the certificate the API issues.
Certificates == [form : {"signature"}, over : Correspondents] \cup {[form |-> "other"]}

OnionInit ==
  /\ posted = << >> /\ wire = {}
  /\ read = [u \in Correspondents |-> {}]

-----------------------------------------------------------------------------
\* sealed::seal: everything about the sender is inside.
Seal(text, sender, cert, recipient) ==
  [for |-> recipient, inner |-> [sender |-> sender, cert |-> cert, text |-> text]]

\* sealed::open, for the owner of the key.  With a verification key a certificate of 64
\* bytes has to be a signature over the sender's id.
Opens(blob, u, verifies) ==
  /\ blob.for = u
  /\ verifies /\ blob.inner.cert.form = "signature"
       => blob.inner.cert.over = blob.inner.sender

NextHop(route, i) == IF i = Len(route) THEN Final ELSE route[i + 1]

\* Mutant: the layers are put on from the first node to the last.
WrapForwards(payload, route) ==
  LET around[i \in 0 .. Len(route)] ==
        IF i = 0 THEN payload
        ELSE [for |-> route[i], next |-> NextHop(route, i), payload |-> around[i - 1]]
  IN  around[Len(route)]

\* onion::wrap_onion: a layer for each node, the last one's innermost.
WrapOnion(payload, route) ==
  LET layer[i \in 1 .. Len(route) + 1] ==
        IF i > Len(route) THEN payload
        ELSE [for |-> route[i], next |-> NextHop(route, i), payload |-> layer[i + 1]]
  IN  layer[1]

-----------------------------------------------------------------------------
\* sealed_sender_seal and onion_wrap; the first node is the client's choice.
SendOnion(s, r, cert, route) ==
  /\ Len(posted) < MaxOnions
  /\ LET blob == Seal(Len(posted) + 1, s, cert, r)
     IN  wire' = wire \cup {[message |-> Len(posted) + 1, at |-> route[1], path |-> << >>,
                             packet |-> WrapOnion(blob, route)]}
  /\ posted' = Append(posted, [sender |-> s, to |-> r, route |-> route])
  /\ UNCHANGED read

\* onion_unwrap_layer with the key of node n, and the way on.
UnwrapLayer(n) == \E w \in wire :
  /\ w.at = n /\ w.packet.for = n
  /\ wire' = wire \cup {[w EXCEPT !.at = w.packet.next, !.path = Append(@, n),
                                  !.packet = w.packet.payload]}
  /\ UNCHANGED <<posted, read>>

\* sealed_sender_open, with or without a verification key.
OpenSealed(u, verifies) == \E w \in wire :
  /\ w.at = Final /\ Opens(w.packet, u, verifies)
  /\ read' = [read EXCEPT ![u] = @ \cup {[message |-> w.message, path |-> w.path,
                                         content |-> w.packet.inner]}]
  /\ UNCHANGED <<posted, wire>>

OnionNext ==
  \/ \E s, r \in Correspondents, cert \in Certificates, route \in Routes :
       SendOnion(s, r, cert, route)
  \/ \E n \in OnionNodes : UnwrapLayer(n)
  \/ \E u \in Correspondents, verifies \in BOOLEAN : OpenSealed(u, verifies)

OnionSpec == OnionInit /\ [][OnionNext]_onionVars

-----------------------------------------------------------------------------
(* Properties *)

OnionTypeOK ==
  /\ posted \in Seq([sender : Correspondents, to : Correspondents, route : Routes])
  /\ Len(posted) <= MaxOnions
  /\ \A w \in wire : /\ w.message \in DOMAIN posted
                     /\ w.at \in OnionNodes \cup {Final}
                     /\ w.path \in {<< >>} \cup Routes
  /\ \A u \in Correspondents : \A x \in read[u] : x.message \in DOMAIN posted

IsLayer(packet) == "next" \in DOMAIN packet

\* What is left of a packet when the owners in K put their keys together.
LeftBy(K, packet) ==
  LET left[i \in 0 .. MaxHops] ==
        IF i = 0 THEN packet
        ELSE IF IsLayer(left[i - 1]) /\ left[i - 1].for \in K THEN left[i - 1].payload
        ELSE left[i - 1]
  IN  left[MaxHops]

\* The keys a packet on the wire is still under.
KeysLeft(w) ==
  LET route == posted[w.message].route
  IN  {route[i] : i \in Len(w.path) + 1 .. Len(route)} \cup {posted[w.message].to}

\* THREAT_MODEL.md:31, "No single relay knows both the sender and the recipient": a
\* packet goes the way its sender chose and wherever it is, it takes the keys of all the
\* nodes left on that way together with the recipient's to find the sender in it, and
\* those are enough, also when a node comes twice or a packet is repeated or late.
OnlyTogether ==
  /\ \A w \in wire :
       LET route == posted[w.message].route
           n     == Len(w.path)
       IN  /\ n <= Len(route) /\ w.path = SubSeq(route, 1, n)
           /\ w.at = IF n = Len(route) THEN Final ELSE route[n + 1]
           /\ \A K \in SUBSET (OnionNodes \cup Correspondents) :
                LET left == LeftBy(K, w.packet)
                IN  (~IsLayer(left) /\ left.for \in K) <=> KeysLeft(w) \subseteq K
  /\ \A u \in Correspondents : \A x \in read[u] :
       /\ posted[x.message].to = u /\ x.path = posted[x.message].route
       /\ x.content.sender = posted[x.message].sender
=============================================================================
