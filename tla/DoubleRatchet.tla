----------------------------- MODULE DoubleRatchet -----------------------------
(***************************************************************************)
(* Two parties running the Double Ratchet over a network that loses and    *)
(* reorders messages and delivers up to MaxLate of them again or too late. *)
(* One RatchetState per party is used directly: encrypt and decrypt mutate *)
(* it in place, as a caller of hysj-crypto holding `&mut self` does.       *)
(*                                                                         *)
(* Party "alice" is the X3DH initiator (init_sender), party "bob" the      *)
(* responder (init_receiver, with the pre-key pair <<"bob", 0>>).          *)
(***************************************************************************)
EXTENDS Ratchet

CONSTANTS MaxSent,               \* bound: messages a party encrypts
          MaxKeyPairs,           \* bound: key pairs a party generates
          MaxLate                \* bound: late deliveries

ASSUME BoundsAssumption ==
  /\ MaxSent \in Nat
  /\ MaxKeyPairs \in Nat
  /\ MaxLate \in Nat

VARIABLES st,                    \* the RatchetState of each party
          generated,             \* number of key pairs a party has generated
          sent,                  \* messages each party encrypted, in order
          handed,                \* positions in the peer's sent given to decrypt
          opened,                \* those of them that decrypted
          late                   \* number of late deliveries

vars == <<st, generated, sent, handed, opened, late>>

Init ==
  /\ st = InitialState
  /\ generated = InitialKeyPairs
  /\ sent = [p \in Party |-> << >>]
  /\ handed = [p \in Party |-> {}]
  /\ opened = [p \in Party |-> {}]
  /\ late = 0

SendMessage(p) ==
  /\ CanEncrypt(st[p])
  /\ Len(sent[p]) < MaxSent
  /\ sent' = [sent EXCEPT ![p] = Append(@, Sealed(st[p]))]
  /\ st' = [st EXCEPT ![p] = AfterEncrypt(@)]
  /\ UNCHANGED <<generated, handed, opened, late>>

Fresh(p) == KeyPair(p, generated[p] + 1)

\* The i-th message of the peer was handed over before, or its key may have been
\* evicted: the peer has sent MAX_SKIPPED_KEYS messages since.
Late(p, i) == i \in handed[p] \/ i + MaxSkippedKeys <= Len(sent[Peer(p)])

\* The network hands over the i-th message of the peer.
Receive(p, i) ==
  LET m == sent[Peer(p)][i]
      d == Decrypt(st[p], m, Fresh(p))
  IN  /\ Late(p, i) => late < MaxLate
      /\ Ratchets(st[p], m) => generated[p] < MaxKeyPairs
      /\ st' = [st EXCEPT ![p] = d.st]
      /\ opened' = [opened EXCEPT ![p] = IF d.ok THEN @ \cup {i} ELSE @]
      /\ generated' = [generated EXCEPT ![p] = IF Ratchets(st[p], m) THEN @ + 1 ELSE @]
      /\ handed' = [handed EXCEPT ![p] = @ \cup {i}]
      /\ late' = IF Late(p, i) THEN late + 1 ELSE late
      /\ UNCHANGED sent

Next == \E p \in Party :
          \/ SendMessage(p)
          \/ \E i \in DOMAIN sent[Peer(p)] : Receive(p, i)

Spec == Init /\ [][Next]_vars

-----------------------------------------------------------------------------
\* Type invariant: a state is a record with the fields of the struct, its
\* counters are numbers and its cache is coherent and within its capacity.
TypeOK ==
  /\ generated \in [Party -> Nat]
  /\ late \in 0 .. MaxLate
  /\ \A p \in Party :
       /\ DOMAIN st[p] = {"root", "sendCK", "recvCK", "dhs", "dhr",
                          "ns", "nr", "pn", "skipped"}
       /\ st[p].ns \in Nat /\ st[p].nr \in Nat /\ st[p].pn \in Nat
       /\ Coherent(st[p].skipped)
       /\ CacheLen(st[p].skipped) <= MaxSkippedKeys
       /\ opened[p] \subseteq handed[p]
       /\ handed[p] \subseteq DOMAIN sent[Peer(p)]

\* THREAT_MODEL.md:15, "Every message uses a unique encryption key": encrypt
\* derives a key from the chain and steps past it, so no two messages of the
\* session, of either party and across every ratchet, use the same key.
KeysUnique ==
  \A p, q \in Party : \A i \in DOMAIN sent[p], j \in DOMAIN sent[q] :
    sent[p][i].key = sent[q][j].key => p = q /\ i = j

\* What a party holding state s can still compute: a cached key, a key further
\* on one of its chains, or a key of a chain that its root key and its current
\* secret lead to.
Computable(s, key) ==
  \/ \E id \in DOMAIN s.skipped.keys : s.skipped.keys[id] = key
  \/ \E ck \in {s.sendCK, s.recvCK} \ {NoKey} :
       ck.chain = key.chain /\ ck.step <= key.step
  \/ /\ IsStrictPrefix(s.root, key.chain)
     /\ \A i \in Len(s.root) + 1 .. Len(key.chain) : s.dhs \in key.chain[i]

\* Neither a message this party encrypted nor one it decrypted can be opened
\* with the state that is left: take removes a cached key, the chains and the
\* root key only move forward.
ForwardSecrecy ==
  \A p \in Party :
    /\ \A i \in DOMAIN sent[p] : ~Computable(st[p], sent[p][i].key)
    /\ \A i \in opened[p] : ~Computable(st[p], sent[Peer(p)][i].key)

\* The limit of skip_missed_messages forbids message m: the gap it closes, in
\* the chain that ends or in the one that begins, exceeds MAX_SKIP.
TooFar(s, m) ==
  \/ NeedsRatchet(s, m) /\ SkipFails(s, m.pn)
  \/ SkipFails(Ratcheted(s, m, NoKey), m.n)

\* As long as nothing is delivered late: whatever was lost and in whatever order
\* the rest arrived, also after attempts that failed because the gap was too
\* wide, a message that is not late decrypts unless its own gap is too wide.
\* skip_missed_messages kept its key or will derive it, and eviction took only
\* older ones.
Deliverable ==
  late = 0 =>
    \A p \in Party : \A i \in DOMAIN sent[Peer(p)] :
      LET m == sent[Peer(p)][i]
      IN  Late(p, i) \/ TooFar(st[p], m) \/ Decrypt(st[p], m, Fresh(p)).ok
=============================================================================
