----------------------------- MODULE NativeSession -----------------------------
(***************************************************************************)
(* The ratchet as the Flutter application uses it, through the FFI         *)
(* functions of native/src/api.rs.  The application keeps each session as  *)
(* a serialized blob; ratchet_encrypt and ratchet_decrypt deserialize it,  *)
(* run one operation on the copy and return the new blob, which replaces   *)
(* the old one only when the call succeeds.                                *)
(*                                                                         *)
(* RatchetState::serialize is serde_json::to_vec(self).expect(...).  JSON  *)
(* objects take string keys only, and the cache of skipped keys is a       *)
(* HashMap<(String, u32), Vec<u8>>: to_vec fails on every state whose      *)
(* cache is not empty, and the call panics.                                *)
(***************************************************************************)
EXTENDS Ratchet

CONSTANTS MaxSent,               \* bound: messages a party encrypts
          MaxKeyPairs,           \* bound: key pairs that reach a blob
          MaxFailures            \* bound: calls that do not succeed

ASSUME BoundsAssumption == MaxSent \in Nat /\ MaxKeyPairs \in Nat /\ MaxFailures \in Nat

VARIABLES session,               \* the blob each application holds
          generated,             \* key pairs that reached a blob
          sent,                  \* messages of each party, in sending order
          released,              \* positions in the peer's sent, in the order their plaintexts were returned
          outcome,               \* result of the last call: "ok", "err" or "panic"
          failedCalls            \* number of calls that did not succeed

vars == <<session, generated, sent, released, outcome, failedCalls>>

Fresh(p) == KeyPair(p, generated[p] + 1)

Init ==
  /\ session = InitialState
  /\ generated = InitialKeyPairs
  /\ sent = [p \in Party |-> << >>]
  /\ released = [p \in Party |-> << >>]
  /\ outcome = "ok"
  /\ failedCalls = 0

\* Mutant: a cache that is not empty is written out.
AlwaysSerializable(s) == TRUE

Serializable(s) == CacheLen(s.skipped) = 0

EncryptCall(s) ==
  IF ~CanEncrypt(s) THEN "err"
  ELSE IF Serializable(AfterEncrypt(s)) THEN "ok" ELSE "panic"

DecryptCall(s, m, fresh) ==
  LET d == Decrypt(s, m, fresh)
  IN  IF ~d.ok THEN "err" ELSE IF Serializable(d.st) THEN "ok" ELSE "panic"

\* The caller keeps the old blob on an error and on a panic.
Fail(result) ==
  /\ failedCalls < MaxFailures
  /\ outcome' = result
  /\ failedCalls' = failedCalls + 1
  /\ UNCHANGED <<session, generated, sent, released>>

RatchetEncrypt(p) ==
  LET result == EncryptCall(session[p])
  IN  \/ result # "ok" /\ Fail(result)
      \/ /\ result = "ok"
         /\ Len(sent[p]) < MaxSent
         /\ sent' = [sent EXCEPT ![p] = Append(@, Sealed(session[p]))]
         /\ session' = [session EXCEPT ![p] = AfterEncrypt(@)]
         /\ outcome' = "ok"
         /\ UNCHANGED <<generated, released, failedCalls>>

\* Mutant: the caller gets the plaintext and keeps the old blob.
RatchetDecryptStale(p, i) ==
  LET result == DecryptCall(session[p], sent[Peer(p)][i], Fresh(p))
  IN  \/ result # "ok" /\ Fail(result)
      \/ /\ result = "ok"
         /\ released' = [released EXCEPT ![p] = Append(@, i)]
         /\ outcome' = "ok"
         /\ UNCHANGED <<session, generated, sent, failedCalls>>

\* Any message of the peer, in any order and any number of times.
RatchetDecrypt(p, i) ==
  LET m      == sent[Peer(p)][i]
      result == DecryptCall(session[p], m, Fresh(p))
  IN  \/ result # "ok" /\ Fail(result)
      \/ /\ result = "ok"
         /\ generated[p] < MaxKeyPairs \/ ~Ratchets(session[p], m)
         /\ session' = [session EXCEPT ![p] = Decrypt(@, m, Fresh(p)).st]
         /\ generated' = [generated EXCEPT ![p] = IF Ratchets(session[p], m) THEN @ + 1 ELSE @]
         /\ released' = [released EXCEPT ![p] = Append(@, i)]
         /\ outcome' = "ok"
         /\ UNCHANGED <<sent, failedCalls>>

Next == \E p \in Party : RatchetEncrypt(p) \/ \E i \in DOMAIN sent[Peer(p)] : RatchetDecrypt(p, i)

Spec == Init /\ [][Next]_vars

-----------------------------------------------------------------------------
\* Type invariant: positions exist, the counters of a blob are numbers.
TypeOK ==
  /\ outcome \in {"ok", "err", "panic"}
  /\ failedCalls \in 0 .. MaxFailures
  /\ generated \in [Party -> Nat]
  /\ \A p \in Party :
       /\ released[p] \in Seq(DOMAIN sent[Peer(p)])
       /\ session[p].ns \in Nat /\ session[p].nr \in Nat /\ session[p].pn \in Nat

\* No call, repeated as often as the application likes, returns the plaintext
\* of one message twice: each key leaves the blob that opened it.
ReleasedOnce ==
  \A p \in Party : \A i \in ToSet(released[p]) :
    DecryptCall(session[p], sent[Peer(p)][i], Fresh(p)) # "ok"

\* A replay, an attempt out of order or a panic in between does no harm: the
\* copy it spoiled is thrown away, and the first message not released yet
\* still opens.
NextOpens ==
  \A p \in Party : \A i \in DOMAIN sent[Peer(p)] :
    1 .. i - 1 \subseteq ToSet(released[p]) /\ i \notin ToSet(released[p])
      => DecryptCall(session[p], sent[Peer(p)][i], Fresh(p)) = "ok"

\* The plaintexts p got out of its peer's messages, under the name of the peer.
Opened(p) == [k \in DOMAIN released[Peer(p)] |-> sent[p][released[Peer(p)][k]]]

Wire == INSTANCE Channel WITH Ends <- Party, written <- sent, read <- [p \in Party |-> Opened(p)]

\* The two applications have a channel that gives each message out once and in
\* the order of sending, whatever order they are handed in and however often.
\* The order is what serialize costs: a blob never holds a skipped key, so one
\* lost message ends the conversation in its direction.
ChannelSpec == Wire!Spec

\* double_ratchet.rs:254, `.expect("ratchet state serialization should not
\* fail")`: no call panics.
SerializationNeverFails == outcome # "panic"
=============================================================================
