--------------------------- MODULE RatchetProofs ----------------------------
(***************************************************************************)
(* A Double Ratchet session between two parties, for any number of         *)
(* messages, ratchets, losses and late deliveries: no two messages are     *)
(* sealed with the same key, no key that was used can be computed from the *)
(* state left, and what is not late can be decrypted.                      *)
(*                                                                         *)
(* Every chain ends with a Diffie-Hellman output. The first invariant says *)
(* that the outputs at the end of the chains in use were made of key pairs *)
(* generated so far; a ratchet mixes in a fresh pair, so the chain it      *)
(* begins is new, and within a chain the step only grows.                  *)
(*                                                                         *)
(* The second says of every key that decrypted a message that it is gone:  *)
(* it is not in the cache, the receiving chain is past it, and the root    *)
(* key has passed its chain by an odd number of outputs, the chains of     *)
(* what the party encrypted by an even one. decrypt keeps it so            *)
(* (RatchetLemmas).                                                        *)
(*                                                                         *)
(* The third holds as long as nothing was late. Each party has passed a    *)
(* beginning of what its peer sent; of this the cache holds, in order, all *)
(* that was not handed over and is not too old, and the rest is, in order, *)
(* what its receiving chain and, of the party behind, the chain after it   *)
(* will open.                                                              *)
(***************************************************************************)
EXTENDS DoubleRatchet, RatchetLemmas

\* A chain key whose last output is made of key pairs in K.
BornOf(ck, K) ==
  /\ ck \in ChainKeys
  /\ ck.chain # << >>
  /\ ck.chain[Len(ck.chain)] \subseteq K

StateOK(s, K) ==
  /\ DOMAIN s = Fields
  /\ s.root \in Seq(SUBSET AllKeyPairs)
  /\ s.dhs \in K
  /\ s.ns \in Nat /\ s.pn \in Nat
  /\ s.sendCK # NoKey => BornOf(s.sendCK, K)

SentOK ==
  /\ sent = [p \in Party |-> sent[p]]
  /\ \A p \in Party :
    /\ sent[p] \in Seq([dh : Known(generated), pn : Nat, n : Nat, key : ChainKeys])
    /\ \A i \in DOMAIN sent[p] : BornOf(sent[p][i].key, Known(generated))

\* The sending chain of a party is its own, and past every key it gave.
ChainsApart ==
  \A p \in Party : st[p].sendCK # NoKey =>
    /\ \A i \in DOMAIN sent[p] :
         sent[p][i].key.chain = st[p].sendCK.chain => sent[p][i].key.step < st[p].sendCK.step
    /\ \A i \in DOMAIN sent[Peer(p)] : sent[Peer(p)][i].key.chain # st[p].sendCK.chain
    /\ st[Peer(p)].sendCK # NoKey => st[Peer(p)].sendCK.chain # st[p].sendCK.chain

KeyInv ==
  /\ generated \in [Party -> Nat]
  /\ st = [p \in Party |-> st[p]]
  /\ \A p \in Party : StateOK(st[p], Known(generated))
  /\ SentOK
  /\ ChainsApart
  /\ KeysUnique

-----------------------------------------------------------------------------
(* The inductive step *)

(* The chain that a ratchet begins: typed, and unlike every chain that ends
   with older key pairs. *)
LEMMA NewChainFresh ==
  ASSUME NEW K \in SUBSET AllKeyPairs, NEW fresh \in AllKeyPairs, fresh \notin K,
         NEW s, StateOK(s, K), NEW t, NEW theirs \in K,
         NextSending(s, t, theirs, fresh)
  PROVE  /\ StateOK(t, K \cup {fresh})
         /\ t.sendCK # NoKey => \A ck : BornOf(ck, K) => ck.chain # t.sendCK.chain
<1> DEFINE root1 == Append(s.root, DH(s.dhs, theirs))
           chain == Append(root1, DH(fresh, theirs))
<1>1. DH(s.dhs, theirs) \in SUBSET AllKeyPairs /\ DH(fresh, theirs) \in SUBSET AllKeyPairs
  BY DEF StateOK, DH
<1>2. root1 \in Seq(SUBSET AllKeyPairs)
  BY <1>1 DEF StateOK
<1>3. /\ chain \in Seq(SUBSET AllKeyPairs) /\ Len(chain) = Len(root1) + 1
      /\ chain[Len(chain)] = DH(fresh, theirs)
  BY <1>1, <1>2
<1>4. t.root = chain /\ t.sendCK = [chain |-> chain, step |-> 0]
  BY DEF NextSending
<1>5. chain # << >>
  BY <1>2, <1>3
<1>6. BornOf(t.sendCK, K \cup {fresh})
  <2> HIDE DEF chain
  <2>1. t.sendCK \in ChainKeys
    BY <1>3, <1>4 DEF ChainKeys
  <2>2. t.sendCK.chain = chain
    BY <1>4
  <2>3. DH(fresh, theirs) \subseteq K \cup {fresh}
    BY DEF DH
  <2>. QED  BY <1>3, <1>5, <2>1, <2>2, <2>3 DEF BornOf
<1>7. StateOK(t, K \cup {fresh})
  <2> HIDE DEF chain
  <2>. QED  BY <1>3, <1>4, <1>6 DEF StateOK, NextSending
<1>8. ASSUME NEW ck, BornOf(ck, K) PROVE ck.chain # t.sendCK.chain
  <2> HIDE DEF chain
  <2>1. fresh \in chain[Len(chain)]
    BY <1>3 DEF DH
  <2>2. fresh \notin ck.chain[Len(ck.chain)]
    BY <1>8 DEF BornOf
  <2>3. t.sendCK.chain = chain
    BY <1>4
  <2>. QED  BY <2>1, <2>2, <2>3
<1>. QED  BY <1>7, <1>8

LEMMA BornMonotone ==
  ASSUME NEW K, NEW L, K \subseteq L
  PROVE  /\ \A ck : BornOf(ck, K) => BornOf(ck, L)
         /\ \A s : StateOK(s, K) => StateOK(s, L)
BY DEF BornOf, StateOK

LEMMA InitKeyInv == Init => KeyInv
<1> SUFFICES ASSUME Init PROVE KeyInv
  OBVIOUS
<1> DEFINE K == Known(generated)
           out == DH(KeyPair("alice", 1), KeyPair("bob", 0))
<1>1. generated = [p \in Party |-> IF p = "alice" THEN 1 ELSE 0] /\ generated \in [Party -> Nat]
  BY DEF Init, InitialKeyPairs
<1>2. KeyPair("alice", 1) \in K /\ KeyPair("bob", 0) \in K
  BY <1>1 DEF Known, AllKeyPairs, KeyPair, Party
<1>3. out \in SUBSET K /\ out \in SUBSET AllKeyPairs
  BY <1>2 DEF DH, Known
<1>4. st["alice"] = InitSender(KeyPair("alice", 1), KeyPair("bob", 0))
      /\ st["bob"] = InitReceiver(KeyPair("bob", 0))
  BY DEF Init, InitialState, Party
<1>5. Append(<< >>, out) \in Seq(SUBSET AllKeyPairs) /\ Append(<< >>, out) # << >>
      /\ Append(<< >>, out)[Len(Append(<< >>, out))] = out
  <2>1. << >> \in Seq(SUBSET AllKeyPairs)
    OBVIOUS
  <2> HIDE DEF out
  <2>. QED  BY <1>3, <2>1
<1>6. StateOK(st["alice"], K)
  <2>1. /\ DOMAIN st["alice"] = Fields
        /\ st["alice"].root = Append(<< >>, out)
        /\ st["alice"].sendCK = [chain |-> Append(<< >>, out), step |-> 0]
        /\ st["alice"].dhs = KeyPair("alice", 1)
        /\ st["alice"].ns = 0 /\ st["alice"].pn = 0
    BY <1>4 DEF InitSender, MixRoot, NewChain, Fields
  <2> HIDE DEF out, K
  <2>2. BornOf(st["alice"].sendCK, K)
    BY <1>3, <1>5, <2>1 DEF BornOf, ChainKeys
  <2>. QED  BY <1>2, <1>5, <2>1, <2>2 DEF StateOK
<1>7. StateOK(st["bob"], K) /\ st["bob"].sendCK = NoKey
  <2>1. /\ DOMAIN st["bob"] = Fields
        /\ st["bob"].root = << >> /\ st["bob"].sendCK = NoKey
        /\ st["bob"].dhs = KeyPair("bob", 0)
        /\ st["bob"].ns = 0 /\ st["bob"].pn = 0
    BY <1>4 DEF InitReceiver, Fields
  <2> HIDE DEF K
  <2>. QED  BY <1>2, <2>1 DEF StateOK
<1>8. \A p \in Party : StateOK(st[p], K)
  BY <1>6, <1>7 DEF Party
<1>9. \A p \in Party : sent[p] = << >>
  BY DEF Init
<1>10. SentOK
  BY <1>9 DEF SentOK, Init
<1>11. ChainsApart
  BY <1>7, <1>9 DEF ChainsApart, Party, Peer
<1>12. KeysUnique
  BY <1>9 DEF KeysUnique
<1>13. st = [p \in Party |-> st[p]]
  BY DEF Init, InitialState
<1>. QED  BY <1>1, <1>8, <1>10, <1>11, <1>12, <1>13 DEF KeyInv

LEMMA SendKeyInv ==
  ASSUME KeyInv, NEW p \in Party, SendMessage(p)
  PROVE  KeyInv'
<1> DEFINE K == Known(generated)
           ck == st[p].sendCK
           q == Peer(p)
<1>1. q \in Party /\ q # p /\ Peer(q) = p /\ Party = {p, q}
  BY PeerFacts
<1>2. /\ StateOK(st[p], K) /\ ck # NoKey /\ BornOf(ck, K)
      /\ ck \in ChainKeys
  BY DEF KeyInv, StateOK, SendMessage, CanEncrypt, BornOf
<1>3. /\ st'[q] = st[q]
      /\ DOMAIN st'[p] = Fields
      /\ st'[p].sendCK = [ck EXCEPT !.step = @ + 1]
      /\ st'[p].root = st[p].root /\ st'[p].dhs = st[p].dhs
      /\ st'[p].ns = st[p].ns + 1 /\ st'[p].pn = st[p].pn
      /\ st' = [r \in Party |-> st'[r]]
  BY <1>1, <1>2 DEF KeyInv, SendMessage, AfterEncrypt, Advance, StateOK, Fields
<1>4. generated' = generated /\ Known(generated)' = K
  BY DEF SendMessage, Known
<1>5. /\ st'[p].sendCK.chain = ck.chain /\ st'[p].sendCK.step = ck.step + 1
      /\ BornOf(st'[p].sendCK, K)
  BY <1>2, <1>3 DEF BornOf, ChainKeys
<1>6. StateOK(st'[p], K) /\ StateOK(st'[q], K)
  BY <1>1, <1>2, <1>3, <1>5 DEF StateOK, KeyInv
<1> DEFINE msg == Sealed(st[p])
<1>7. msg \in [dh : K, pn : Nat, n : Nat, key : ChainKeys] /\ msg.key = ck
  BY <1>2 DEF Sealed, StateOK
<1>8. /\ sent[p] \in Seq([dh : K, pn : Nat, n : Nat, key : ChainKeys])
      /\ sent[q] \in Seq([dh : K, pn : Nat, n : Nat, key : ChainKeys])
  BY <1>1 DEF KeyInv, SentOK
<1>9. /\ sent'[p] = Append(sent[p], msg) /\ sent'[q] = sent[q]
      /\ sent' = [r \in Party |-> sent'[r]]
  BY <1>1 DEF SendMessage, KeyInv, SentOK
<1> HIDE DEF msg
<1>10. /\ DOMAIN sent'[p] = DOMAIN sent[p] \cup {Len(sent[p]) + 1}
       /\ Len(sent[p]) + 1 \notin DOMAIN sent[p]
       /\ \A i \in DOMAIN sent[p] : sent'[p][i] = sent[p][i]
       /\ sent'[p][Len(sent[p]) + 1] = msg
  BY SMTT(30), <1>7, <1>8, <1>9
<1>10a. sent'[p] \in Seq([dh : K, pn : Nat, n : Nat, key : ChainKeys])
  BY <1>7, <1>8, <1>9
<1> HIDE DEF K, ck, q
<1>11. \A r \in Party : \A i \in DOMAIN sent[r] :
         BornOf(sent[r][i].key, K) /\ sent[r][i].key \in ChainKeys
  BY DEF KeyInv, SentOK, K, BornOf
<1>12. SentOK'
  <2>1. \A i \in DOMAIN sent'[p] : BornOf(sent'[p][i].key, K)
    BY <1>2, <1>7, <1>10, <1>11
  <2>2. \A i \in DOMAIN sent'[q] : BornOf(sent'[q][i].key, K)
    BY <1>1, <1>9, <1>11
  <2>. QED  BY <1>1, <1>4, <1>8, <1>9, <1>10a, <2>1, <2>2 DEF SentOK
<1>13. /\ \A i \in DOMAIN sent[p] : sent[p][i].key.chain = ck.chain => sent[p][i].key.step < ck.step
       /\ \A i \in DOMAIN sent[q] : sent[q][i].key.chain # ck.chain
       /\ st[q].sendCK # NoKey =>
            /\ st[q].sendCK.chain # ck.chain
            /\ \A i \in DOMAIN sent[q] : sent[q][i].key.chain = st[q].sendCK.chain
                                           => sent[q][i].key.step < st[q].sendCK.step
            /\ \A i \in DOMAIN sent[p] : sent[p][i].key.chain # st[q].sendCK.chain
  BY <1>1, <1>2 DEF KeyInv, ChainsApart, ck, q
<1>14. \A i \in DOMAIN sent[p] : sent[p][i].key.step \in Nat /\ ck.step \in Nat
  BY <1>2, <1>11 DEF ChainKeys
<1>15. ChainsApart'
  <2>1. ck.step \in Nat
    BY <1>2 DEF ChainKeys
  <2>2. st'[p].sendCK # NoKey =>
          /\ \A i \in DOMAIN sent'[p] : sent'[p][i].key.chain = st'[p].sendCK.chain
                                          => sent'[p][i].key.step < st'[p].sendCK.step
          /\ \A i \in DOMAIN sent'[q] : sent'[q][i].key.chain # st'[p].sendCK.chain
          /\ st'[q].sendCK # NoKey => st'[q].sendCK.chain # st'[p].sendCK.chain
    <3>1. \A i \in DOMAIN sent[p] : sent[p][i].key.chain = ck.chain
                                       => sent[p][i].key.step < ck.step + 1
      BY <1>13, <1>14, <2>1
    <3>2. ck.step < ck.step + 1
      BY <2>1
    <3>3. \A i \in DOMAIN sent'[p] : sent'[p][i].key.chain = ck.chain
                                        => sent'[p][i].key.step < ck.step + 1
      BY <1>7, <1>10, <3>1, <3>2
    <3>. QED  BY <1>3, <1>5, <1>9, <1>13, <3>3
  <2>3. st'[q].sendCK # NoKey =>
          /\ \A i \in DOMAIN sent'[q] : sent'[q][i].key.chain = st'[q].sendCK.chain
                                          => sent'[q][i].key.step < st'[q].sendCK.step
          /\ \A i \in DOMAIN sent'[p] : sent'[p][i].key.chain # st'[q].sendCK.chain
          /\ st'[p].sendCK # NoKey => st'[p].sendCK.chain # st'[q].sendCK.chain
    BY <1>3, <1>5, <1>7, <1>9, <1>10, <1>13
  <2>. QED  BY <1>1, <2>2, <2>3 DEF ChainsApart, q
<1>16. KeysUnique'
  <2>1. \A i \in DOMAIN sent[p] : sent[p][i].key # ck
    BY <1>13, <1>14
  <2>2. \A i \in DOMAIN sent[q] : sent[q][i].key # ck
    BY <1>13
  <2>3. \A a, b \in Party : \A i \in DOMAIN sent[a], j \in DOMAIN sent[b] :
          sent[a][i].key = sent[b][j].key => a = b /\ i = j
    BY DEF KeyInv, KeysUnique
  <2>4. ASSUME NEW a \in Party, NEW b \in Party, NEW i \in DOMAIN sent'[a], NEW j \in DOMAIN sent'[b],
               sent'[a][i].key = sent'[b][j].key
        PROVE  a = b /\ i = j
    <3> DEFINE last == Len(sent[p]) + 1
    <3>1. /\ a \in {p, q} /\ b \in {p, q}
          /\ i \in DOMAIN sent[a] \/ (a = p /\ i = last)
          /\ j \in DOMAIN sent[b] \/ (b = p /\ j = last)
      BY <1>1, <1>9, <1>10, <2>4
    <3>2. /\ \A k \in DOMAIN sent[a] : sent'[a][k] = sent[a][k]
          /\ \A k \in DOMAIN sent[b] : sent'[b][k] = sent[b][k]
          /\ sent'[p][last].key = ck
      BY <1>7, <1>9, <1>10, <3>1
    <3>3. \A c \in Party : \A k \in DOMAIN sent[c] : sent[c][k].key # ck
      BY <1>1, <2>1, <2>2
    <3> HIDE DEF last
    <3>4. CASE i \in DOMAIN sent[a] /\ j \in DOMAIN sent[b]
      BY <2>3, <2>4, <3>2, <3>4
    <3>5. CASE i \in DOMAIN sent[a] /\ b = p /\ j = last
      BY <2>4, <3>2, <3>3, <3>5
    <3>6. CASE a = p /\ i = last /\ j \in DOMAIN sent[b]
      BY <2>4, <3>2, <3>3, <3>6
    <3>7. CASE a = p /\ i = last /\ b = p /\ j = last
      BY <3>7
    <3>. QED  BY <3>1, <3>4, <3>5, <3>6, <3>7
  <2>. QED  BY <2>4 DEF KeysUnique
<1>17. \A r \in Party : StateOK(st'[r], Known(generated'))
  <2>1. Known(generated') = K
    BY <1>4
  <2>. QED  BY <1>1, <1>6, <2>1
<1>. QED  BY <1>3, <1>4, <1>12, <1>15, <1>16, <1>17 DEF KeyInv

LEMMA ReceiveKeyInv ==
  ASSUME KeyInv, NEW p \in Party, NEW i \in DOMAIN sent[Peer(p)], Receive(p, i)
  PROVE  KeyInv'
<1> DEFINE K == Known(generated)
           q == Peer(p)
           m == sent[q][i]
           t == Decrypt(st[p], m, Fresh(p)).st
<1>1. q \in Party /\ q # p /\ Peer(q) = p /\ Party = {p, q}
  BY PeerFacts
<1>2. StateOK(st[p], K) /\ StateOK(st[q], K) /\ DOMAIN st[p] = Fields
  BY <1>1 DEF KeyInv, StateOK
<1>3. m.dh \in K
  <2>1. sent[q] \in Seq([dh : K, pn : Nat, n : Nat, key : ChainKeys])
    BY <1>1 DEF KeyInv, SentOK
  <2>2. i \in DOMAIN sent[q]
    OBVIOUS
  <2> HIDE DEF K, q
  <2>3. sent[q][i] \in [dh : K, pn : Nat, n : Nat, key : ChainKeys]
    BY <2>1, <2>2, ElementType
  <2>. QED  BY <2>3
<1>4. /\ st' = [r \in Party |-> st'[r]]
      /\ st'[p] = t /\ st'[q] = st[q] /\ sent' = sent
  BY <1>1 DEF KeyInv, Receive
<1>5. /\ ~Ratchets(st[p], m) => SameSending(st[p], t)
      /\ Ratchets(st[p], m) => NextSending(st[p], t, m.dh, Fresh(p))
  BY <1>2, DecryptMoves
<1>6. generated' = [generated EXCEPT ![p] = IF Ratchets(st[p], m) THEN @ + 1 ELSE @]
  BY DEF Receive
<1>7. generated \in [Party -> Nat]
  BY DEF KeyInv
<1> HIDE DEF t, m
<1>8. KeysUnique'
  <2>1. KeysUnique
    BY DEF KeyInv
  <2>. QED  BY <1>4, <2>1 DEF KeysUnique
<1>9. CASE ~Ratchets(st[p], m)
  <2>1. generated' = generated /\ Known(generated)' = Known(generated)
    BY <1>6, <1>7, <1>9 DEF Known
  <2>2. StateOK(t, K) /\ t.sendCK = st[p].sendCK
    BY <1>2, <1>5, <1>9 DEF StateOK, SameSending
  <2>3. \A r \in Party : StateOK(st'[r], K) /\ st'[r].sendCK = st[r].sendCK
    BY <1>1, <1>2, <1>4, <2>2
  <2>4. SentOK'
    BY <1>4, <2>1 DEF KeyInv, SentOK
  <2>5. ChainsApart'
    BY <1>4, <2>3, PeerFacts DEF KeyInv, ChainsApart
  <2>. QED  BY <1>4, <1>7, <1>8, <2>1, <2>3, <2>4, <2>5 DEF KeyInv
<1>10. CASE Ratchets(st[p], m)
  <2> DEFINE L == K \cup {Fresh(p)}
  <2>1. /\ generated' \in [Party -> Nat] /\ generated'[p] = generated[p] + 1
        /\ generated'[q] = generated[q]
    BY <1>1, <1>6, <1>7, <1>10
  <2>2. Known(generated') = L /\ Fresh(p) \in AllKeyPairs /\ Fresh(p) \notin K
    <3>1. Fresh(p) = <<p, generated[p] + 1>> /\ generated[p] + 1 \in Nat
      BY <1>7 DEF Fresh, KeyPair
    <3>2. \A k \in AllKeyPairs : k = <<k[1], k[2]>> /\ k[1] \in {p, q} /\ k[2] \in Nat
      BY <1>1 DEF AllKeyPairs
    <3>3. Fresh(p) \in AllKeyPairs /\ ~(Fresh(p)[2] <= generated[Fresh(p)[1]])
      BY <1>7, <3>1 DEF AllKeyPairs
    <3>4. ASSUME NEW k \in AllKeyPairs
          PROVE  k[2] <= generated'[k[1]] <=> (k[2] <= generated[k[1]] \/ k = Fresh(p))
      <4>1. CASE k[1] = p
        <5>1. k[2] \in Nat /\ generated[p] \in Nat
          BY <1>7, <3>2
        <5>2. k = Fresh(p) <=> k[2] = generated[p] + 1
          BY <3>1, <3>2, <4>1
        <5>. QED  BY <2>1, <4>1, <5>1, <5>2
      <4>2. CASE k[1] = q
        BY <1>1, <2>1, <3>1, <4>2
      <4>. QED  BY <3>2, <4>1, <4>2
    <3>. QED  BY <3>3, <3>4 DEF Known
  <2>3. K \in SUBSET AllKeyPairs /\ K \subseteq L
    BY DEF Known
  <2>4. NextSending(st[p], t, m.dh, Fresh(p))
    BY <1>5, <1>10
  <2> HIDE DEF K, L
  <2>5. /\ StateOK(t, L)
        /\ t.sendCK # NoKey => \A ck : BornOf(ck, K) => ck.chain # t.sendCK.chain
    BY <1>2, <1>3, <2>2, <2>3, <2>4, NewChainFresh DEF L
  <2>6. \A r \in Party : \A j \in DOMAIN sent[r] : BornOf(sent[r][j].key, K)
    BY DEF KeyInv, SentOK, K
  <2>7. \A r \in Party : StateOK(st'[r], L)
    BY <1>1, <1>2, <1>4, <2>3, <2>5, BornMonotone
  <2>8. SentOK'
    <3>1. \A r \in Party : sent[r] \in Seq([dh : L, pn : Nat, n : Nat, key : ChainKeys])
      <4>1. \A r \in Party : sent[r] \in Seq([dh : K, pn : Nat, n : Nat, key : ChainKeys])
        BY DEF KeyInv, SentOK, K
      <4>2. [dh : K, pn : Nat, n : Nat, key : ChainKeys]
              \subseteq [dh : L, pn : Nat, n : Nat, key : ChainKeys]
        BY <2>3
      <4>. QED  BY <4>1, <4>2, SeqMonotone
    <3>2. \A r \in Party : \A j \in DOMAIN sent[r] : BornOf(sent[r][j].key, L)
      BY <2>3, <2>6, BornMonotone
    <3>3. sent = [r \in Party |-> sent[r]]
      BY DEF KeyInv, SentOK
    <3>. QED  BY <1>4, <2>2, <3>1, <3>2, <3>3 DEF SentOK
  <2>9. ChainsApart'
    <3>1. t.sendCK # NoKey =>
            /\ \A r \in Party : \A j \in DOMAIN sent[r] : sent[r][j].key.chain # t.sendCK.chain
            /\ st[q].sendCK # NoKey => st[q].sendCK.chain # t.sendCK.chain
      BY <1>2, <2>5, <2>6 DEF StateOK
    <3>2. st[q].sendCK # NoKey =>
            /\ \A j \in DOMAIN sent[q] : sent[q][j].key.chain = st[q].sendCK.chain
                                           => sent[q][j].key.step < st[q].sendCK.step
            /\ \A j \in DOMAIN sent[p] : sent[p][j].key.chain # st[q].sendCK.chain
      BY <1>1 DEF KeyInv, ChainsApart
    <3> HIDE DEF q
    <3>3. st'[p].sendCK # NoKey =>
            /\ \A j \in DOMAIN sent'[p] : sent'[p][j].key.chain = st'[p].sendCK.chain
                                            => sent'[p][j].key.step < st'[p].sendCK.step
            /\ \A j \in DOMAIN sent'[q] : sent'[q][j].key.chain # st'[p].sendCK.chain
            /\ st'[q].sendCK # NoKey => st'[q].sendCK.chain # st'[p].sendCK.chain
      BY <1>1, <1>4, <3>1
    <3>4. st'[q].sendCK # NoKey =>
            /\ \A j \in DOMAIN sent'[q] : sent'[q][j].key.chain = st'[q].sendCK.chain
                                            => sent'[q][j].key.step < st'[q].sendCK.step
            /\ \A j \in DOMAIN sent'[p] : sent'[p][j].key.chain # st'[q].sendCK.chain
            /\ st'[p].sendCK # NoKey => st'[p].sendCK.chain # st'[q].sendCK.chain
      BY <1>1, <1>4, <3>1, <3>2
    <3>. QED  BY <1>1, <3>3, <3>4 DEF ChainsApart, q
  <2>. QED  BY <1>4, <1>8, <2>1, <2>2, <2>7, <2>8, <2>9 DEF KeyInv
<1>. QED  BY <1>9, <1>10

LEMMA KeyInvStep == KeyInv /\ [Next]_vars => KeyInv'
<1>1. CASE UNCHANGED vars
  <2> SUFFICES ASSUME KeyInv PROVE KeyInv'
    BY <1>1
  <2>1. st' = st /\ generated' = generated /\ sent' = sent
    BY <1>1 DEF vars
  <2>2. SentOK'
    BY <2>1 DEF KeyInv, SentOK
  <2>3. ChainsApart'
    BY <2>1 DEF KeyInv, ChainsApart
  <2>4. KeysUnique'
    BY <2>1 DEF KeyInv, KeysUnique
  <2>. QED  BY <2>1, <2>2, <2>3, <2>4 DEF KeyInv
<1>2. CASE Next
  BY <1>2, SendKeyInv, ReceiveKeyInv DEF Next
<1>. QED  BY <1>1, <1>2

(* Every message of the session is sealed with a key of its own. *)
THEOREM UniqueKeys == Spec => []KeysUnique
<1>1. KeyInv => KeysUnique
  BY DEF KeyInv
<1>. QED  BY InitKeyInv, KeyInvStep, <1>1, PTL DEF Spec

-----------------------------------------------------------------------------
(* Forward secrecy.  The length of a root key tells who mixed last: the     *)
(* chains a party sends on are shorter than its root key by an even number  *)
(* of outputs, those it receives on by an odd one.                          *)

SecrecyInv ==
  /\ late \in 0 .. MaxLate
  /\ opened = [p \in Party |-> opened[p]] /\ handed = [p \in Party |-> handed[p]]
  /\ \A p \in Party :
       /\ ReceivingOK(st[p])
       /\ st[p].sendCK # NoKey => st[p].sendCK.chain = st[p].root
       /\ \A i \in DOMAIN sent[p] : Reaches(st[p].root, sent[p][i].key, 0)
       /\ opened[p] \subseteq handed[p]
       /\ handed[p] \subseteq DOMAIN sent[Peer(p)]
       /\ \A i \in opened[p] : Gone(st[p], sent[Peer(p)][i].key)

LEMMA InitSecrecyInv == Init => SecrecyInv
<1> SUFFICES ASSUME Init PROVE SecrecyInv
  OBVIOUS
<1> DEFINE out == DH(KeyPair("alice", 1), KeyPair("bob", 0))
<1>1. st["alice"] = InitSender(KeyPair("alice", 1), KeyPair("bob", 0))
      /\ st["bob"] = InitReceiver(KeyPair("bob", 0))
  BY DEF Init, InitialState, Party
<1>2. KeyPair("alice", 1) \in AllKeyPairs /\ KeyPair("bob", 0) \in AllKeyPairs
  BY DEF AllKeyPairs, KeyPair, Party
<1>3. out \in SUBSET AllKeyPairs
  BY <1>2 DEF DH
<1>4. Append(<< >>, out) \in Seq(SUBSET AllKeyPairs) /\ << >> \in Seq(SUBSET AllKeyPairs)
  <2> HIDE DEF out
  <2>. QED  BY <1>3
<1>5. /\ DOMAIN st["alice"] = Fields
      /\ st["alice"].root = Append(<< >>, out)
      /\ st["alice"].sendCK.chain = Append(<< >>, out)
      /\ st["alice"].recvCK = NoKey /\ st["alice"].nr = 0 /\ st["alice"].skipped = EmptyCache
  BY <1>1 DEF InitSender, MixRoot, NewChain, Fields
<1>6. /\ DOMAIN st["bob"] = Fields
      /\ st["bob"].root = << >> /\ st["bob"].sendCK = NoKey
      /\ st["bob"].recvCK = NoKey /\ st["bob"].nr = 0 /\ st["bob"].skipped = EmptyCache
  BY <1>1 DEF InitReceiver, Fields
<1> HIDE DEF out
<1>7. \A p \in Party : ReceivingOK(st[p]) /\ (st[p].sendCK # NoKey => st[p].sendCK.chain = st[p].root)
  <2>1. ReceivingOK(st["alice"])
    BY <1>4, <1>5, EmptyCacheOK DEF ReceivingOK
  <2>2. ReceivingOK(st["bob"])
    BY <1>4, <1>6, EmptyCacheOK DEF ReceivingOK
  <2>. QED  BY <1>5, <1>6, <2>1, <2>2 DEF Party
<1>8. late \in 0 .. MaxLate
  BY BoundsAssumption DEF Init
<1>9. /\ \A p \in Party : sent[p] = << >> /\ opened[p] = {} /\ handed[p] = {}
      /\ opened = [p \in Party |-> opened[p]] /\ handed = [p \in Party |-> handed[p]]
  BY DEF Init
<1>. QED  BY <1>7, <1>8, <1>9 DEF SecrecyInv

LEMMA SendSecrecyInv ==
  ASSUME KeyInv, SecrecyInv, NEW p \in Party, SendMessage(p)
  PROVE  SecrecyInv'
<1> DEFINE ck == st[p].sendCK
           q == Peer(p)
           msg == Sealed(st[p])
<1>1. q \in Party /\ q # p /\ Peer(q) = p /\ Party = {p, q}
  BY PeerFacts
<1>2. /\ DOMAIN st[p] = Fields /\ ReceivingOK(st[p])
      /\ ck # NoKey /\ ck \in ChainKeys /\ ck.chain = st[p].root
  BY DEF KeyInv, StateOK, SendMessage, CanEncrypt, BornOf, SecrecyInv
<1>3. /\ st'[q] = st[q]
      /\ st'[p] = [st[p] EXCEPT !.sendCK = Advance(@, 1), !.ns = @ + 1]
  BY <1>1 DEF KeyInv, SendMessage, AfterEncrypt
<1>4. /\ DOMAIN st'[p] = Fields /\ st'[p].root = st[p].root /\ st'[p].recvCK = st[p].recvCK
      /\ st'[p].nr = st[p].nr /\ st'[p].skipped = st[p].skipped
      /\ st'[p].sendCK = Advance(ck, 1)
  BY <1>2, <1>3 DEF Fields
<1>5. st'[p].sendCK.chain = ck.chain
  BY <1>2, <1>4 DEF Advance, ChainKeys
<1>6. /\ ReceivingOK(st'[p])
      /\ \A key : Gone(st[p], key) => Gone(st'[p], key)
  BY <1>2, <1>4 DEF ReceivingOK, Gone, Spent
<1>7. /\ sent'[p] = Append(sent[p], msg) /\ sent'[q] = sent[q] /\ msg.key = ck
      /\ handed' = handed /\ opened' = opened /\ late' = late
  BY <1>1 DEF SendMessage, KeyInv, SentOK, Sealed
<1>8. sent[p] \in Seq([dh : Known(generated), pn : Nat, n : Nat, key : ChainKeys])
  BY DEF KeyInv, SentOK
<1> HIDE DEF msg, ck, q
<1>9. /\ DOMAIN sent'[p] = DOMAIN sent[p] \cup {Len(sent[p]) + 1}
      /\ \A i \in DOMAIN sent[p] : sent'[p][i] = sent[p][i]
      /\ sent'[p][Len(sent[p]) + 1] = msg
  BY <1>7, <1>8
<1>10. Reaches(st'[p].root, ck, 0)
  <2>1. Len(st'[p].root) = Len(ck.chain) + 2 * 0 + 0
    <3>1. Len(ck.chain) \in Nat
      BY <1>2 DEF ChainKeys
    <3>. QED  BY <1>2, <1>4, <3>1
  <2>. QED  BY <2>1 DEF Reaches
<1>11. \A i \in DOMAIN sent'[p] : Reaches(st'[p].root, sent'[p][i].key, 0)
  BY <1>4, <1>7, <1>9, <1>10 DEF SecrecyInv
<1>12. \A i \in DOMAIN sent'[q] : Reaches(st'[q].root, sent'[q][i].key, 0)
  BY <1>1, <1>3, <1>7 DEF SecrecyInv
<1>13. /\ opened[p] \subseteq handed[p] /\ handed[p] \subseteq DOMAIN sent[q]
       /\ opened[q] \subseteq handed[q] /\ handed[q] \subseteq DOMAIN sent[p]
       /\ \A i \in opened[p] : Gone(st[p], sent[q][i].key)
       /\ \A i \in opened[q] : Gone(st[q], sent[p][i].key)
  BY <1>1 DEF SecrecyInv, q
<1>14. \A i \in opened[p] : Gone(st'[p], sent'[q][i].key)
  BY <1>6, <1>7, <1>13
<1>15. \A i \in opened[q] : Gone(st'[q], sent'[p][i].key)
  BY <1>3, <1>9, <1>13
<1>16. /\ ReceivingOK(st'[q]) /\ (st'[q].sendCK # NoKey => st'[q].sendCK.chain = st'[q].root)
       /\ st'[p].sendCK.chain = st'[p].root
  BY <1>1, <1>2, <1>3, <1>4, <1>5 DEF SecrecyInv
<1>17. /\ late' \in 0 .. MaxLate
       /\ opened' = [r \in Party |-> opened'[r]] /\ handed' = [r \in Party |-> handed'[r]]
  BY <1>7 DEF SecrecyInv
<1>18. /\ opened'[p] \subseteq handed'[p] /\ handed'[p] \subseteq DOMAIN sent'[q]
       /\ opened'[q] \subseteq handed'[q] /\ handed'[q] \subseteq DOMAIN sent'[p]
  BY <1>7, <1>9, <1>13
<1>19. \A r \in Party :
         /\ ReceivingOK(st'[r])
         /\ st'[r].sendCK # NoKey => st'[r].sendCK.chain = st'[r].root
         /\ \A i \in DOMAIN sent'[r] : Reaches(st'[r].root, sent'[r][i].key, 0)
         /\ opened'[r] \subseteq handed'[r]
         /\ handed'[r] \subseteq DOMAIN sent'[Peer(r)]
         /\ \A i \in opened'[r] : Gone(st'[r], sent'[Peer(r)][i].key)
  <2>1. Peer(p) = q
    BY DEF q
  <2> TAKE r \in Party
  <2>2. CASE r = p
    BY <1>6, <1>7, <1>11, <1>14, <1>16, <1>18, <2>1, <2>2
  <2>3. CASE r = q
    BY <1>1, <1>7, <1>12, <1>15, <1>16, <1>18, <2>3
  <2>. QED  BY <1>1, <2>2, <2>3
<1>. QED  BY <1>17, <1>19 DEF SecrecyInv

LEMMA ReceiveSecrecyInv ==
  ASSUME KeyInv, SecrecyInv, NEW p \in Party, NEW i \in DOMAIN sent[Peer(p)], Receive(p, i)
  PROVE  SecrecyInv'
<1> DEFINE q == Peer(p)
           m == sent[q][i]
           d == Decrypt(st[p], m, Fresh(p))
<1>1. q \in Party /\ q # p /\ Peer(q) = p /\ Party = {p, q}
  BY PeerFacts
<1>2. /\ ReceivingOK(st[p]) /\ DOMAIN st[p] = Fields /\ st[p].dhs \in AllKeyPairs
      /\ st[p].root \in Seq(SUBSET AllKeyPairs)
      /\ st[p].sendCK # NoKey => st[p].sendCK.chain = st[p].root
      /\ \A j \in DOMAIN sent[p] : Reaches(st[p].root, sent[p][j].key, 0) /\ sent[p][j].key \in ChainKeys
  BY DEF SecrecyInv, KeyInv, SentOK, BornOf, StateOK, Known
<1>3. Header(m)
  <2>1. sent[q] \in Seq([dh : Known(generated), pn : Nat, n : Nat, key : ChainKeys])
    BY <1>1 DEF KeyInv, SentOK
  <2>2. i \in DOMAIN sent[q]
    OBVIOUS
  <2> HIDE DEF q
  <2>3. sent[q][i] \in [dh : Known(generated), pn : Nat, n : Nat, key : ChainKeys]
    BY <2>1, <2>2, ElementType
  <2>. QED  BY <2>3 DEF Header, Known
<1>4. Fresh(p) \in AllKeyPairs
  BY DEF KeyInv, Fresh, KeyPair, AllKeyPairs
<1> HIDE DEF m
<1>5. Further(st[p], d.st) /\ (d.ok => Gone(d.st, m.key))
  BY <1>2, <1>3, <1>4, DecryptFurther
<1>6. /\ ~Ratchets(st[p], m) => SameSending(st[p], d.st)
      /\ Ratchets(st[p], m) => NextSending(st[p], d.st, m.dh, Fresh(p))
  BY <1>2, DecryptMoves
<1>7. /\ st'[p] = d.st /\ st'[q] = st[q] /\ sent' = sent
      /\ opened' = [opened EXCEPT ![p] = IF d.ok THEN @ \cup {i} ELSE @]
      /\ handed' = [handed EXCEPT ![p] = @ \cup {i}]
  BY <1>1 DEF KeyInv, Receive, m
<1> HIDE DEF d
<1>8. /\ opened'[q] = opened[q] /\ handed'[q] = handed[q]
      /\ opened'[p] = IF d.ok THEN opened[p] \cup {i} ELSE opened[p]
      /\ handed'[p] = handed[p] \cup {i}
      /\ opened' = [r \in Party |-> opened'[r]] /\ handed' = [r \in Party |-> handed'[r]]
  BY <1>1, <1>7 DEF SecrecyInv
<1>9. /\ st'[p].sendCK # NoKey => st'[p].sendCK.chain = st'[p].root
      /\ \A j \in DOMAIN sent[p] : Reaches(st'[p].root, sent[p][j].key, 0)
  <2>1. CASE SameSending(st[p], d.st)
    BY <1>2, <1>7, <2>1 DEF SameSending
  <2>2. CASE NextSending(st[p], d.st, m.dh, Fresh(p))
    <3> DEFINE root == st[p].root
               out1 == DH(st[p].dhs, m.dh)
               out2 == DH(Fresh(p), m.dh)
    <3>1. out1 \in SUBSET AllKeyPairs /\ out2 \in SUBSET AllKeyPairs
      BY <1>2, <1>3, <1>4 DEF DH, Header
    <3>2. /\ st'[p].root = Append(Append(root, out1), out2)
          /\ st'[p].sendCK.chain = Append(Append(root, out1), out2)
      BY <1>7, <2>2 DEF NextSending
    <3> HIDE DEF root, out1, out2
    <3>3. root \in Seq(SUBSET AllKeyPairs) /\ Len(root) \in Nat
      BY <1>2 DEF root
    <3>4. Len(st'[p].root) = Len(root) + 2
      BY <3>1, <3>2, <3>3
    <3>5. ASSUME NEW j \in DOMAIN sent[p]
          PROVE  Reaches(st'[p].root, sent[p][j].key, 0)
      <4>1. PICK k \in Nat : Len(root) = Len(sent[p][j].key.chain) + 2 * k + 0
        BY <1>2 DEF Reaches, root
      <4>2. Len(sent[p][j].key.chain) \in Nat
        BY <1>2 DEF ChainKeys
      <4>3. \A a, b \in Nat : a = b + 2 * k + 0 => a + 2 = b + 2 * (k + 1) + 0
        OBVIOUS
      <4>4. Len(st'[p].root) = Len(sent[p][j].key.chain) + 2 * (k + 1) + 0
        <5>1. Len(root) = Len(sent[p][j].key.chain) + 2 * k + 0
          BY <4>1
        <5>2. Len(root) + 2 = Len(sent[p][j].key.chain) + 2 * (k + 1) + 0
          BY <3>3, <4>2, <4>3, <5>1
        <5>. QED  BY <3>4, <5>2
      <4>. QED  BY <4>4, k + 1 \in Nat DEF Reaches
    <3>. QED  BY <3>2, <3>5
  <2>. QED  BY <1>6, <2>1, <2>2
<1>10. ReceivingOK(st'[p]) /\ \A key : Gone(st[p], key) => Gone(st'[p], key)
  BY <1>5, <1>7 DEF Further
<1>11. \A j \in opened'[p] : Gone(st'[p], sent'[q][j].key)
  <2>1. \A j \in opened[p] : Gone(st[p], sent[q][j].key)
    BY DEF SecrecyInv
  <2>. QED  BY <1>5, <1>7, <1>8, <1>10, <2>1 DEF m
<1>12. /\ opened'[p] \subseteq handed'[p] /\ handed'[p] \subseteq DOMAIN sent'[q]
  BY <1>7, <1>8 DEF SecrecyInv
<1>13. /\ ReceivingOK(st'[q])
       /\ st'[q].sendCK # NoKey => st'[q].sendCK.chain = st'[q].root
       /\ \A j \in DOMAIN sent'[q] : Reaches(st'[q].root, sent'[q][j].key, 0)
       /\ opened'[q] \subseteq handed'[q] /\ handed'[q] \subseteq DOMAIN sent'[p]
       /\ \A j \in opened'[q] : Gone(st'[q], sent'[p][j].key)
  BY <1>1, <1>7, <1>8 DEF SecrecyInv
<1>14. late' \in 0 .. MaxLate
  BY BoundsAssumption DEF Receive, SecrecyInv
<1> HIDE DEF q
<1>15. \A j \in DOMAIN sent'[p] : Reaches(st'[p].root, sent'[p][j].key, 0)
  BY <1>7, <1>9
<1>16. \A r \in Party :
         /\ ReceivingOK(st'[r])
         /\ st'[r].sendCK # NoKey => st'[r].sendCK.chain = st'[r].root
         /\ \A j \in DOMAIN sent'[r] : Reaches(st'[r].root, sent'[r][j].key, 0)
         /\ opened'[r] \subseteq handed'[r]
         /\ handed'[r] \subseteq DOMAIN sent'[Peer(r)]
         /\ \A j \in opened'[r] : Gone(st'[r], sent'[Peer(r)][j].key)
  <2>1. Peer(p) = q
    BY DEF q
  <2>. QED  BY <1>1, <1>9, <1>10, <1>11, <1>12, <1>13, <1>15, <2>1
<1>. QED  BY <1>8, <1>14, <1>16 DEF SecrecyInv

(* A key that the root key has passed by an even number of outputs is none that was
   received on, and the other way round. *)
LEMMA Parity ==
  ASSUME NEW root, NEW k \in ChainKeys, NEW l \in ChainKeys, Reaches(root, k, 0), Reaches(root, l, 1)
  PROVE  k.chain # l.chain
<1>1. PICK i \in Nat : Len(root) = Len(k.chain) + 2 * i + 0
  BY DEF Reaches
<1>2. PICK j \in Nat : Len(root) = Len(l.chain) + 2 * j + 1
  BY DEF Reaches
<1>3. Len(k.chain) \in Nat /\ Len(l.chain) \in Nat
  BY DEF ChainKeys
<1>4. \A n \in Nat : n + 2 * i + 0 # n + 2 * j + 1
  OBVIOUS
<1>5. Len(k.chain) + 2 * i + 0 = Len(l.chain) + 2 * j + 1
  BY <1>1, <1>2
<1>. QED  BY <1>3, <1>4, <1>5

(* A root key is not a proper beginning of a chain it has reached. *)
LEMMA NotAhead ==
  ASSUME NEW root \in Seq(SUBSET AllKeyPairs), NEW k \in ChainKeys, NEW n \in Nat, Reaches(root, k, n)
  PROVE  ~IsStrictPrefix(root, k.chain)
<1>1. PICK j \in Nat : Len(root) = Len(k.chain) + 2 * j + n
  BY DEF Reaches
<1>2. k.chain \in Seq(SUBSET AllKeyPairs) /\ Len(k.chain) \in Nat /\ Len(root) \in Nat
  BY DEF ChainKeys
<1>3. \A a \in Nat : a <= a + 2 * j + n
  OBVIOUS
<1>4. Len(k.chain) <= Len(root)
  BY <1>1, <1>2, <1>3
<1>5. ASSUME IsStrictPrefix(root, k.chain)
      PROVE  FALSE
  <2>1. /\ Len(root) <= Len(k.chain) /\ root # k.chain
        /\ SubSeq(root, 1, Len(root)) = SubSeq(k.chain, 1, Len(root))
    BY <1>5 DEF IsStrictPrefix, IsPrefix
  <2>2. Len(root) = Len(k.chain)
    BY <1>2, <1>4, <2>1
  <2>3. SubSeq(root, 1, Len(root)) = root /\ SubSeq(k.chain, 1, Len(k.chain)) = k.chain
    BY <1>2
  <2>. QED  BY <2>1, <2>2, <2>3
<1>. QED  BY <1>5

LEMMA SecrecyHolds == KeyInv /\ SecrecyInv => ForwardSecrecy
<1> SUFFICES ASSUME KeyInv, SecrecyInv, NEW p \in Party
             PROVE  /\ \A i \in DOMAIN sent[p] : ~Computable(st[p], sent[p][i].key)
                    /\ \A i \in opened[p] : ~Computable(st[p], sent[Peer(p)][i].key)
  BY DEF ForwardSecrecy
<1> DEFINE s == st[p]
<1>1. /\ ReceivingOK(s) /\ s.root \in Seq(SUBSET AllKeyPairs)
      /\ s.sendCK # NoKey => s.sendCK \in ChainKeys /\ s.sendCK.chain = s.root
      /\ s.recvCK # NoKey => s.recvCK \in ChainKeys /\ Reaches(s.root, s.recvCK, 1)
      /\ \A id \in DOMAIN s.skipped.keys :
           s.skipped.keys[id] \in ChainKeys /\ Reaches(s.root, s.skipped.keys[id], 1)
  BY DEF KeyInv, StateOK, SecrecyInv, ReceivingOK, Spent, BornOf
<1>2. ASSUME NEW i \in DOMAIN sent[p]
      PROVE  ~Computable(s, sent[p][i].key)
  <2> DEFINE key == sent[p][i].key
  <2>1. key \in ChainKeys /\ Reaches(s.root, key, 0)
    BY DEF KeyInv, SentOK, BornOf, SecrecyInv
  <2>2. s.sendCK # NoKey /\ s.sendCK.chain = key.chain => key.step < s.sendCK.step
    BY DEF KeyInv, ChainsApart
  <2> HIDE DEF s, key
  <2>3. \A id \in DOMAIN s.skipped.keys : s.skipped.keys[id] # key
    BY <1>1, <2>1, Parity
  <2>4. s.recvCK # NoKey => s.recvCK.chain # key.chain
    BY <1>1, <2>1, Parity
  <2>5. ~IsStrictPrefix(s.root, key.chain)
    BY <1>1, <2>1, NotAhead, 0 \in Nat
  <2>6. s.sendCK # NoKey /\ s.sendCK.chain = key.chain => ~(s.sendCK.step <= key.step)
    BY <1>1, <2>1, <2>2 DEF ChainKeys
  <2>7. ~Computable(s, key)
    BY <2>3, <2>4, <2>5, <2>6 DEF Computable
  <2>. QED  BY <2>7 DEF key
<1>3. ASSUME NEW i \in opened[p]
      PROVE  ~Computable(s, sent[Peer(p)][i].key)
  <2> DEFINE key == sent[Peer(p)][i].key
  <2>1. Gone(s, key)
    BY DEF SecrecyInv
  <2> HIDE DEF s, key
  <2>2. /\ key \in ChainKeys /\ Reaches(s.root, key, 1)
        /\ s.recvCK # NoKey /\ s.recvCK.chain = key.chain => key.step < s.recvCK.step
        /\ \A id \in DOMAIN s.skipped.keys : s.skipped.keys[id] # key
    BY <2>1 DEF Gone, Spent
  <2>3. s.sendCK # NoKey => s.sendCK.chain # key.chain
    <3>1. ASSUME s.sendCK # NoKey
          PROVE  Reaches(s.root, s.sendCK, 0)
      <4>1. Len(s.root) = Len(s.sendCK.chain) + 2 * 0 + 0
        BY <1>1, <3>1
      <4>. QED  BY <4>1 DEF Reaches
    <3>. QED  BY <1>1, <2>2, <3>1, Parity
  <2>4. s.recvCK # NoKey /\ s.recvCK.chain = key.chain => ~(s.recvCK.step <= key.step)
    BY <1>1, <2>2 DEF ChainKeys
  <2>5. ~IsStrictPrefix(s.root, key.chain)
    BY <1>1, <2>2, NotAhead, 1 \in Nat
  <2>6. ~Computable(s, key)
    BY <2>2, <2>3, <2>4, <2>5 DEF Computable
  <2>. QED  BY <2>6 DEF key
<1>. QED  BY <1>2, <1>3

LEMMA SecrecyTypeOK == KeyInv /\ SecrecyInv => TypeOK
<1> SUFFICES ASSUME KeyInv, SecrecyInv, NEW p \in Party
             PROVE  /\ DOMAIN st[p] = Fields
                    /\ st[p].ns \in Nat /\ st[p].nr \in Nat /\ st[p].pn \in Nat
                    /\ Coherent(st[p].skipped)
                    /\ CacheLen(st[p].skipped) <= MaxSkippedKeys
                    /\ opened[p] \subseteq handed[p]
                    /\ handed[p] \subseteq DOMAIN sent[Peer(p)]
  BY DEF TypeOK, KeyInv, SecrecyInv, Fields
<1>. QED  BY DEF KeyInv, StateOK, SecrecyInv, ReceivingOK, CacheOK

LEMMA SecrecyInvHolds == Spec => [](KeyInv /\ SecrecyInv)
<1>1. Init => KeyInv /\ SecrecyInv
  BY InitKeyInv, InitSecrecyInv
<1>2. KeyInv /\ SecrecyInv /\ [Next]_vars => (KeyInv /\ SecrecyInv)'
  <2>1. ASSUME KeyInv, SecrecyInv, UNCHANGED vars
        PROVE  SecrecyInv'
    BY <2>1 DEF vars, SecrecyInv
  <2>2. ASSUME KeyInv, SecrecyInv, Next
        PROVE  SecrecyInv'
    BY <2>2, SendSecrecyInv, ReceiveSecrecyInv DEF Next
  <2>. QED  BY <2>1, <2>2, KeyInvStep
<1>. QED  BY <1>1, <1>2, PTL DEF Spec

-----------------------------------------------------------------------------
(* What the cache holds of the peer's messages *)

Id(m) == <<m.dh, m.n>>

\* No two messages have the same identifier.
Apart(msgs) == \A i, j \in DOMAIN msgs : Id(msgs[i]) = Id(msgs[j]) => i = j

\* Of the messages msgs a party has passed the first pos. Its cache c holds keys of these,
\* in their order, and every one that was not handed over yet and is not too old.
Holds(c, msgs, pos, done) ==
  /\ pos \in 0 .. Len(msgs)
  /\ \A a \in DOMAIN c.order : \E j \in 1 .. pos :
       c.order[a] = Id(msgs[j]) /\ c.keys[Id(msgs[j])] = msgs[j].key
  /\ \A a, b \in DOMAIN c.order : \A i, j \in 1 .. pos :
       a < b /\ c.order[a] = Id(msgs[i]) /\ c.order[b] = Id(msgs[j]) => i < j
  /\ \A j \in 1 .. pos :
       j \in done \/ j + MaxSkippedKeys <= Len(msgs) \/ Id(msgs[j]) \in DOMAIN c.keys

LEMMA HoldsMore ==
  ASSUME NEW c, NEW msgs \in Seq(Message), NEW pos, NEW done, Holds(c, msgs, pos, done),
         NEW more, done \subseteq more
  PROVE  /\ Holds(c, msgs, pos, more)
         /\ \A m \in Message : Holds(c, Append(msgs, m), pos, more)
<1>1. Holds(c, msgs, pos, more)
  BY DEF Holds
<1>2. ASSUME NEW m \in Message
      PROVE  Holds(c, Append(msgs, m), pos, more)
  <2> DEFINE longer == Append(msgs, m)
  <2>1. pos \in 0 .. Len(msgs) /\ Len(msgs) \in Nat
    BY DEF Holds
  <2>2. Len(longer) = Len(msgs) + 1 /\ \A j \in 1 .. Len(msgs) : longer[j] = msgs[j]
    OBVIOUS
  <2> HIDE DEF longer
  <2>3. \A j \in 1 .. pos : longer[j] = msgs[j] /\ j \in Nat
    BY <2>1, <2>2
  <2>4. pos \in 0 .. Len(longer)
    BY <2>1, <2>2
  <2>5. \A j \in 1 .. pos : j + MaxSkippedKeys <= Len(msgs) => j + MaxSkippedKeys <= Len(longer)
    BY <2>1, <2>2, MaxSkippedKeysAssumption
  <2>6. Holds(c, longer, pos, more)
    BY <1>1, <2>3, <2>4, <2>5 DEF Holds
  <2>. QED  BY <2>6 DEF longer
<1>. QED  BY <1>1, <1>2

\* The cache has no key of a message that was not passed.
LEMMA NotHeld ==
  ASSUME NEW c, CacheOK(c), NEW msgs \in Seq(Message), Apart(msgs), NEW pos, NEW done,
         Holds(c, msgs, pos, done), NEW i \in pos + 1 .. Len(msgs)
  PROVE  Id(msgs[i]) \notin DOMAIN c.keys
<1> SUFFICES ASSUME Id(msgs[i]) \in DOMAIN c.keys PROVE FALSE
  OBVIOUS
<1>1. PICK a \in DOMAIN c.order : c.order[a] = Id(msgs[i])
  BY DEF CacheOK, Coherent
<1>2. PICK j \in 1 .. pos : Id(msgs[j]) = Id(msgs[i])
  BY <1>1 DEF Holds
<1>3. pos \in 0 .. Len(msgs)
  BY DEF Holds
<1>4. i \in DOMAIN msgs /\ j \in DOMAIN msgs /\ i # j
  BY <1>3
<1>. QED  BY <1>2, <1>4 DEF Apart

\* A key is taken.
LEMMA HoldsTaken ==
  ASSUME NEW c, CacheOK(c), NEW msgs \in Seq(Message), Apart(msgs), NEW pos, NEW done,
         Holds(c, msgs, pos, done), NEW i \in 1 .. pos, Id(msgs[i]) \in DOMAIN c.keys
  PROVE  /\ c.keys[Id(msgs[i])] = msgs[i].key
         /\ Holds(Take(c, Id(msgs[i])), msgs, pos, done \cup {i})
<1> DEFINE id == Id(msgs[i])
           d == Take(c, id)
           D == DOMAIN c.keys
<1>1. /\ pos \in 0 .. Len(msgs) /\ c.order \in Seq(D) /\ {c.order[a] : a \in DOMAIN c.order} = D
      /\ DOMAIN msgs = 1 .. Len(msgs)
  BY DEF Holds, CacheOK, Coherent
<1>2. \A j \in 1 .. pos : j \in DOMAIN msgs
  BY <1>1
<1>3. \A j \in 1 .. pos : Id(msgs[j]) = id => j = i
  BY <1>2 DEF Apart
<1>4. c.keys[id] = msgs[i].key
  <2>1. PICK a \in DOMAIN c.order : c.order[a] = id
    BY <1>1
  <2>2. PICK j \in 1 .. pos : c.order[a] = Id(msgs[j]) /\ c.keys[Id(msgs[j])] = msgs[j].key
    BY DEF Holds
  <2>3. j = i
    BY <1>3, <2>1, <2>2
  <2>. QED  BY <2>2, <2>3
<1>5. /\ CacheOK(d) /\ DOMAIN d.keys = D \ {id}
      /\ \A k \in DOMAIN d.keys : d.keys[k] = c.keys[k]
  BY TakeOK
<1>6. d.order = Retain(c.order, D \ {id})
  BY DEF Take
<1> HIDE DEF d, D, id
<1>7. \A a \in DOMAIN d.order : d.order[a] \in DOMAIN d.keys
  BY <1>5 DEF CacheOK, Coherent
<1>8. \A a, b \in DOMAIN d.order : a < b =>
        \E x, y \in DOMAIN c.order : x < y /\ d.order[a] = c.order[x] /\ d.order[b] = c.order[y]
  BY <1>1, <1>6, RetainOrder
<1>9. ASSUME NEW a \in DOMAIN d.order
      PROVE  \E j \in 1 .. pos : d.order[a] = Id(msgs[j]) /\ d.keys[Id(msgs[j])] = msgs[j].key
  <2>1. d.order[a] \in DOMAIN d.keys /\ d.order[a] \in D
    BY <1>5, <1>7
  <2>2. PICK x \in DOMAIN c.order : c.order[x] = d.order[a]
    BY <1>1, <2>1
  <2>3. PICK j \in 1 .. pos : c.order[x] = Id(msgs[j]) /\ c.keys[Id(msgs[j])] = msgs[j].key
    BY DEF Holds
  <2>. QED  BY <1>5, <2>1, <2>2, <2>3
<1>10. ASSUME NEW a \in DOMAIN d.order, NEW b \in DOMAIN d.order, NEW j \in 1 .. pos, NEW k \in 1 .. pos,
              a < b, d.order[a] = Id(msgs[j]), d.order[b] = Id(msgs[k])
       PROVE  j < k
  <2>1. PICK x \in DOMAIN c.order, y \in DOMAIN c.order :
          x < y /\ d.order[a] = c.order[x] /\ d.order[b] = c.order[y]
    BY <1>8, <1>10
  <2>. QED  BY <1>10, <2>1 DEF Holds
<1>11. \A j \in 1 .. pos :
         j \in done \cup {i} \/ j + MaxSkippedKeys <= Len(msgs) \/ Id(msgs[j]) \in DOMAIN d.keys
  BY <1>3, <1>5 DEF Holds, D
<1>12. Holds(d, msgs, pos, done \cup {i})
  BY <1>1, <1>9, <1>10, <1>11 DEF Holds
<1>. QED  BY <1>4, <1>12 DEF d, id

\* The oldest key of a cache that is full is as far back as the cache is long.
LEMMA OldestHeld ==
  ASSUME NEW c, CacheOK(c), NEW msgs \in Seq(Message), Apart(msgs), NEW pos, NEW done,
         Holds(c, msgs, pos, done), NEW i \in 1 .. pos, Len(c.order) # 0, c.order[1] = Id(msgs[i])
  PROVE  i + (Len(c.order) - 1) <= pos
<1> DEFINE n == Len(c.order)
           G == {a \in Nat : a + 1 \in DOMAIN c.order =>
                               \A j \in 1 .. pos : c.order[a + 1] = Id(msgs[j]) => i + a <= j}
<1>1. /\ n \in Nat /\ DOMAIN c.order = 1 .. n /\ n - 1 \in Nat /\ pos \in Nat
      /\ \A a \in DOMAIN c.order : \E j \in 1 .. pos : c.order[a] = Id(msgs[j])
      /\ \A a, b \in DOMAIN c.order : \A x, y \in 1 .. pos :
           a < b /\ c.order[a] = Id(msgs[x]) /\ c.order[b] = Id(msgs[y]) => x < y
  BY DEF CacheOK, Holds
<1>2. 0 \in G
  <2> SUFFICES ASSUME NEW j \in 1 .. pos, c.order[1] = Id(msgs[j]) PROVE i <= j
    OBVIOUS
  <2>1. i \in DOMAIN msgs /\ j \in DOMAIN msgs
    BY DEF Holds
  <2>2. i = j
    BY <2>1 DEF Apart
  <2>. QED  BY <2>2
<1>3. ASSUME NEW a \in 1 .. n - 1, a - 1 \in G
      PROVE  a \in G
  <2>1. a \in DOMAIN c.order /\ a + 1 \in DOMAIN c.order /\ a < a + 1 /\ (a - 1) + 1 = a /\ a \in Nat
    BY <1>1
  <2>2. PICK x \in 1 .. pos : c.order[a] = Id(msgs[x])
    BY <1>1, <2>1
  <2>3. i + (a - 1) <= x
    BY <1>3, <2>1, <2>2
  <2>4. \A j \in 1 .. pos : c.order[a + 1] = Id(msgs[j]) => x < j
    BY <1>1, <2>1, <2>2
  <2>5. \A j \in 1 .. pos : x < j => i + a <= j
    BY <1>1, <2>1, <2>3
  <2>. QED  BY <2>1, <2>4, <2>5
<1>4. n - 1 \in G
  <2> HIDE DEF G, n
  <2>1. \A a \in 0 .. n - 1 : a \in G
    BY <1>1, <1>2, <1>3, Induction
  <2>. QED  BY <1>1, <2>1
<1>5. (n - 1) + 1 \in DOMAIN c.order /\ (n - 1) + 1 = n
  BY <1>1
<1>6. PICK j \in 1 .. pos : c.order[n] = Id(msgs[j])
  BY <1>1, <1>5
<1>7. i + (n - 1) <= j
  BY <1>4, <1>5, <1>6
<1>. QED  BY <1>1, <1>7

\* The next message is passed over and its key kept. If this takes the place of another,
\* MaxSkippedKeys messages come after that one.
LEMMA HoldsInserted ==
  ASSUME NEW c, CacheOK(c), NEW msgs \in Seq(Message), Apart(msgs), NEW pos, NEW done,
         Holds(c, msgs, pos, done), pos + 1 <= Len(msgs)
  PROVE  Holds(Insert(c, Id(msgs[pos + 1]), msgs[pos + 1].key), msgs, pos + 1, done)
<1> DEFINE new == pos + 1
           id == Id(msgs[new])
           key == msgs[new].key
           room == Evict(c)
           d == Insert(c, id, key)
<1>1. /\ pos \in Nat /\ new \in pos + 1 .. Len(msgs) /\ pos \in 0 .. Len(msgs)
      /\ Len(msgs) \in Nat /\ new \in DOMAIN msgs /\ DOMAIN msgs = 1 .. Len(msgs)
      /\ 1 .. new = (1 .. pos) \cup {new} /\ \A j \in 1 .. pos : j < new /\ j \in DOMAIN msgs
  BY DEF Holds
<1>2. id \notin DOMAIN c.keys
  BY <1>1, NotHeld
<1>3. /\ CacheOK(room) /\ DOMAIN room.keys \subseteq DOMAIN c.keys
      /\ \A k \in DOMAIN room.keys : room.keys[k] = c.keys[k]
      /\ \/ room = c
         \/ /\ Len(c.order) = MaxSkippedKeys
            /\ room.order = SubSeq(c.order, 2, Len(c.order))
            /\ DOMAIN room.keys = DOMAIN c.keys \ {c.order[1]}
  BY EvictOK
<1>4. /\ d.order = Append(room.order, id) /\ DOMAIN d.keys = DOMAIN room.keys \cup {id}
      /\ \A k \in DOMAIN d.keys : d.keys[k] = IF k = id THEN key ELSE room.keys[k]
  BY <1>2 DEF Insert, HasKey
<1>5. c.order \in Seq(DOMAIN c.keys) /\ room.order \in Seq(DOMAIN room.keys)
  BY <1>3 DEF CacheOK
<1>6. PICK shift \in {0, 1} : \A a \in DOMAIN room.order :
        a + shift \in DOMAIN c.order /\ room.order[a] = c.order[a + shift]
  <2>1. CASE room = c
    BY <1>5, <2>1
  <2>2. CASE room.order = SubSeq(c.order, 2, Len(c.order))
    <3>1. \A a \in DOMAIN room.order : a + 1 \in DOMAIN c.order /\ room.order[a] = c.order[a + 1]
      BY <1>5, <2>2
    <3>. QED  BY <3>1
  <2>. QED  BY <1>3, <2>1, <2>2
<1>7. \A j \in 1 .. pos :
        j \in done \/ j + MaxSkippedKeys <= Len(msgs) \/ Id(msgs[j]) \in DOMAIN room.keys
  <2> SUFFICES ASSUME NEW j \in 1 .. pos, j \notin done, ~(j + MaxSkippedKeys <= Len(msgs)),
                      Id(msgs[j]) \notin DOMAIN room.keys
               PROVE  FALSE
    OBVIOUS
  <2>1. Id(msgs[j]) \in DOMAIN c.keys
    BY DEF Holds
  <2>2. Len(c.order) = MaxSkippedKeys /\ c.order[1] = Id(msgs[j])
    BY <1>3, <2>1
  <2>3. Len(c.order) # 0 /\ MaxSkippedKeys \in Nat \ {0}
    BY <2>2, MaxSkippedKeysAssumption
  <2>4. j + (Len(c.order) - 1) <= pos
    BY <2>2, <2>3, OldestHeld
  <2>. QED  BY <1>1, <2>2, <2>3, <2>4
<1> HIDE DEF room, d
<1>8. /\ DOMAIN d.order = DOMAIN room.order \cup {Len(room.order) + 1}
      /\ \A a \in DOMAIN room.order : d.order[a] = room.order[a] /\ a < Len(room.order) + 1 /\ a \in Nat
      /\ d.order[Len(room.order) + 1] = id /\ Len(room.order) + 1 \in Nat
  BY <1>4, <1>5
<1> DEFINE last == Len(room.order) + 1
<1> HIDE DEF last, id, key, new
<1>9. \A j \in 1 .. new : Id(msgs[j]) = id => j = new
  BY <1>1 DEF Apart, id, new
<1>10. \A a \in DOMAIN room.order : \E j \in 1 .. pos :
         room.order[a] = Id(msgs[j]) /\ d.keys[Id(msgs[j])] = msgs[j].key
  <2> TAKE a \in DOMAIN room.order
  <2>1. PICK j \in 1 .. pos : room.order[a] = Id(msgs[j]) /\ c.keys[Id(msgs[j])] = msgs[j].key
    BY <1>6 DEF Holds
  <2>2. room.order[a] \in DOMAIN room.keys
    BY <1>5
  <2>. QED  BY <1>2, <1>3, <1>4, <2>1, <2>2
<1>11. ASSUME NEW a \in DOMAIN d.order
       PROVE  \E j \in 1 .. new : d.order[a] = Id(msgs[j]) /\ d.keys[Id(msgs[j])] = msgs[j].key
  <2>1. CASE a \in DOMAIN room.order
    BY <1>1, <1>8, <1>10, <2>1 DEF new
  <2>2. CASE a = last
    <3>1. d.order[a] = id /\ new \in 1 .. new /\ id = Id(msgs[new]) /\ key = msgs[new].key
      BY <1>1, <1>8, <2>2 DEF last, id, key, new
    <3>2. d.keys[id] = key
      BY <1>4
    <3>. QED  BY <3>1, <3>2
  <2>. QED  BY <1>8, <2>1, <2>2 DEF last
<1>12. ASSUME NEW a \in DOMAIN d.order, NEW b \in DOMAIN d.order, NEW i \in 1 .. new, NEW j \in 1 .. new,
              a < b, d.order[a] = Id(msgs[i]), d.order[b] = Id(msgs[j])
       PROVE  i < j
  <2>1. a \in DOMAIN room.order
    <3>1. a # last
      BY <1>8, <1>12 DEF last
    <3>. QED  BY <1>8, <3>1 DEF last
  <2>2. i \in 1 .. pos
    <3>1. PICK k \in 1 .. pos : room.order[a] = Id(msgs[k])
      BY <1>10, <2>1
    <3>2. Id(msgs[k]) = Id(msgs[i]) /\ k \in DOMAIN msgs /\ i \in DOMAIN msgs
      BY <1>1, <1>8, <1>12, <2>1, <3>1 DEF new
    <3>. QED  BY <3>2 DEF Apart
  <2>3. CASE b = last
    <3>1. j = new
      BY <1>8, <1>9, <1>12, <2>3 DEF last
    <3>. QED  BY <1>1, <2>2, <3>1 DEF new
  <2>4. CASE b \in DOMAIN room.order
    <3>1. j \in 1 .. pos
      <4>1. PICK k \in 1 .. pos : room.order[b] = Id(msgs[k])
        BY <1>10, <2>4
      <4>2. Id(msgs[k]) = Id(msgs[j]) /\ k \in DOMAIN msgs /\ j \in DOMAIN msgs
        BY <1>1, <1>8, <1>12, <2>4, <4>1 DEF new
      <4>. QED  BY <4>2 DEF Apart
    <3>2. /\ a + shift \in DOMAIN c.order /\ b + shift \in DOMAIN c.order
          /\ c.order[a + shift] = Id(msgs[i]) /\ c.order[b + shift] = Id(msgs[j])
      BY <1>6, <1>8, <1>12, <2>1, <2>4
    <3>3. a + shift < b + shift
      BY <1>8, <1>12, <2>1, <2>4
    <3>. QED  BY <2>2, <3>1, <3>2, <3>3 DEF Holds
  <2>. QED  BY <1>8, <2>3, <2>4 DEF last
<1>13. \A j \in 1 .. new :
         j \in done \/ j + MaxSkippedKeys <= Len(msgs) \/ Id(msgs[j]) \in DOMAIN d.keys
  BY <1>1, <1>4, <1>7 DEF new, id
<1>14. new \in 0 .. Len(msgs)
  BY <1>1
<1>15. Holds(d, msgs, new, done)
  BY <1>11, <1>12, <1>13, <1>14 DEF Holds
<1>. QED  BY <1>15 DEF d, id, key, new

LEMMA HoldsSkipped ==
  ASSUME NEW s, SessionOK(s), NEW msgs \in Seq(Message), Apart(msgs), NEW pos, NEW done,
         Holds(s.skipped, msgs, pos, done), NEW k \in Nat, pos + k <= Len(msgs),
         \A j \in pos + 1 .. pos + k : Continues(msgs[j], s, j - (pos + 1))
  PROVE  Holds(CacheSkipped(s, s.nr + k), msgs, pos + k, done)
<1>1. /\ s.nr \in Nat /\ (s.nr + k) - s.nr = k /\ CacheOK(s.skipped)
      /\ pos \in Nat /\ Len(msgs) \in Nat
  BY DEF SessionOK, ReceivingOK, Holds
<1>2. PICK cache :
        /\ cache[0] = s.skipped
        /\ \A i \in 1 .. k :
             cache[i] = Insert(cache[i - 1], <<s.dhr, s.nr + i - 1>>, Advance(s.recvCK, i - 1))
        /\ CacheSkipped(s, s.nr + k) = cache[k]
  <2>1. (s.nr + k) - s.nr \in Nat
    BY <1>1
  <2>. QED  BY <1>1, <2>1, CacheSkippedDef
<1> DEFINE G == {i \in Nat : CacheOK(cache[i]) /\ Holds(cache[i], msgs, pos + i, done)}
<1>3. 0 \in G
  <2>1. pos + 0 = pos
    BY <1>1
  <2>. QED  BY <1>1, <1>2, <2>1
<1>4. ASSUME NEW i \in 1 .. k, i - 1 \in G
      PROVE  i \in G
  <2> DEFINE new == (pos + (i - 1)) + 1
  <2>1. /\ i \in Nat /\ i - 1 \in Nat /\ new = pos + i /\ new <= Len(msgs)
        /\ new \in pos + 1 .. pos + k /\ new - (pos + 1) = i - 1 /\ s.nr + (i - 1) = s.nr + i - 1
    BY <1>1
  <2>2. Continues(msgs[new], s, i - 1)
    BY <2>1
  <2>3. Id(msgs[new]) = <<s.dhr, s.nr + i - 1>> /\ msgs[new].key = Advance(s.recvCK, i - 1)
    BY <2>1, <2>2 DEF Continues, Id
  <2>4. CacheOK(cache[i - 1]) /\ Holds(cache[i - 1], msgs, pos + (i - 1), done)
    BY <1>4
  <2>5. cache[i] = Insert(cache[i - 1], Id(msgs[new]), msgs[new].key)
    BY <1>2, <2>3
  <2>6. CacheOK(cache[i])
    BY <2>4, <2>5, InsertOK
  <2>7. Holds(cache[i], msgs, new, done)
    BY <2>1, <2>4, <2>5, HoldsInserted
  <2>. QED  BY <2>1, <2>6, <2>7
<1>5. \A i \in 0 .. k : i \in G
  <2> HIDE DEF G
  <2>. QED  BY <1>3, <1>4, Induction
<1>. QED  BY <1>2, <1>5

\* What skip_missed_messages leaves when the peer's next k messages are of its chain.
LEMMA SkipShifts ==
  ASSUME NEW s, SessionOK(s), NEW msgs \in Seq(Message), Apart(msgs), NEW pos, NEW done,
         Holds(s.skipped, msgs, pos, done), NEW k \in Nat, pos + k <= Len(msgs),
         \A j \in pos + 1 .. pos + k : Continues(msgs[j], s, j - (pos + 1))
  PROVE  LET t == Skip(s, s.nr + k)
         IN  SessionOK(t) /\ Shifted(s, t, k) /\ Holds(t.skipped, msgs, pos + k, done)
<1> DEFINE t == Skip(s, s.nr + k)
<1>1. /\ s.nr \in Nat /\ s.nr + k \in Nat /\ (s.nr + k) - s.nr = k /\ ~(s.nr > s.nr + k)
      /\ ReceivingOK(s) /\ IsState(s) /\ DOMAIN s = Fields /\ pos \in Nat
  BY DEF SessionOK, ReceivingOK, Holds
<1>2. Further(s, t) /\ ReceivingOK(t)
  BY <1>1, SkipFurther DEF Further
<1>3. k # 0 => s.recvCK # NoKey
  <2>1. k # 0 => pos + 1 \in pos + 1 .. pos + k
    BY <1>1
  <2>. QED  BY <2>1 DEF Continues
<1>4. CASE s.recvCK = NoKey
  <2>1. t = s /\ k = 0 /\ pos + k = pos /\ s.nr + k = s.nr
    BY <1>1, <1>3, <1>4 DEF Skip
  <2>. QED  BY <1>4, <2>1 DEF Shifted
<1>5. CASE s.recvCK # NoKey
  <2> DEFINE c == CacheSkipped(s, s.nr + k)
  <2>1. t = [s EXCEPT !.skipped = c, !.recvCK = Advance(@, k), !.nr = s.nr + k]
    BY <1>1, <1>5 DEF Skip
  <2>2. Holds(c, msgs, pos + k, done)
    BY HoldsSkipped
  <2> HIDE DEF c, t
  <2>3. /\ t.skipped = c /\ t.recvCK = Advance(s.recvCK, k) /\ t.nr = s.nr + k
        /\ \A f \in Fields \ {"nr", "recvCK", "skipped"} : t[f] = s[f]
        /\ IsState(t)
    BY <1>1, <2>1 DEF Fields, IsState
  <2>4. Shifted(s, t, k)
    BY <1>5, <2>3 DEF Shifted
  <2>5. t.root = s.root /\ t.sendCK = s.sendCK /\ t.dhs = s.dhs /\ t.ns = s.ns /\ t.pn = s.pn
    BY <2>3 DEF Fields
  <2>6. SessionOK(t)
    BY <1>2, <2>3, <2>5 DEF SessionOK, t
  <2>. QED  BY <2>2, <2>3, <2>4, <2>6 DEF t
<1>. QED  BY <1>4, <1>5

LEMMA ShiftedTrans ==
  ASSUME NEW s, SessionOK(s), NEW j \in Nat, NEW t, Shifted(s, t, j),
         NEW k \in Nat, NEW u, Shifted(t, u, k)
  PROVE  Shifted(s, u, j + k)
<1>1. s.nr \in Nat /\ (s.recvCK # NoKey => s.recvCK \in ChainKeys)
  BY DEF SessionOK, ReceivingOK
<1>2. u.nr = s.nr + (j + k)
  BY <1>1 DEF Shifted
<1>3. CASE s.recvCK = NoKey
  BY <1>2, <1>3 DEF Shifted
<1>4. CASE s.recvCK # NoKey
  <2>1. t.recvCK = Advance(s.recvCK, j) /\ t.recvCK # NoKey
    BY <1>1, <1>4, AdvanceStep, NoKeyIsNone DEF Shifted
  <2>2. u.recvCK = Advance(s.recvCK, j + k)
    BY <1>1, <1>4, <2>1, AdvanceTwice DEF Shifted
  <2>3. \A f \in Fields \ {"nr", "recvCK", "skipped"} : u[f] = s[f]
    BY DEF Shifted
  <2>. QED  BY <1>2, <1>4, <2>2, <2>3 DEF Shifted
<1>. QED  BY <1>3, <1>4

\* A message whose key was kept.
LEMMA ReadsHeld ==
  ASSUME NEW s, SessionOK(s), NEW msgs \in Seq(Message), Apart(msgs), NEW pos, NEW done,
         Holds(s.skipped, msgs, pos, done), NEW i \in 1 .. pos, i \notin done,
         ~(i + MaxSkippedKeys <= Len(msgs)), NEW fresh
  PROVE  LET d == Decrypt(s, msgs[i], fresh)
         IN  /\ d.ok /\ ~Ratchets(s, msgs[i])
             /\ SessionOK(d.st) /\ Shifted(s, d.st, 0)
             /\ Holds(d.st.skipped, msgs, pos, done \cup {i})
<1> DEFINE m == msgs[i]
           id == Id(m)
           d == Decrypt(s, m, fresh)
           t == [s EXCEPT !.skipped = Take(@, id)]
<1>1. /\ CacheOK(s.skipped) /\ ReceivingOK(s) /\ DOMAIN s = Fields /\ IsState(s) /\ s.nr \in Nat
      /\ (s.recvCK # NoKey => s.recvCK \in ChainKeys)
  BY DEF SessionOK, ReceivingOK
<1>2. id \in DOMAIN s.skipped.keys
  BY DEF Holds
<1>3. /\ s.skipped.keys[id] = m.key
      /\ Holds(Take(s.skipped, id), msgs, pos, done \cup {i})
  BY <1>1, <1>2, HoldsTaken
<1>4. d.ok /\ d.st = t /\ ~Ratchets(s, m)
  BY <1>2, <1>3 DEF Decrypt, Decryption, HasSkippedKey, HasKey, Ratchets, Id
<1>5. Further(s, t)
  BY <1>1, <1>2, TakeFurther
<1>6. /\ t.skipped = Take(s.skipped, id) /\ IsState(t)
      /\ \A f \in Fields \ {"skipped"} : t[f] = s[f]
  BY <1>1 DEF Fields, IsState
<1> HIDE DEF t, d, m, id
<1>7. /\ t.root = s.root /\ t.sendCK = s.sendCK /\ t.dhs = s.dhs /\ t.ns = s.ns /\ t.pn = s.pn
      /\ t.nr = s.nr /\ t.recvCK = s.recvCK
  BY <1>6 DEF Fields
<1>8. SessionOK(t)
  BY <1>5, <1>6, <1>7 DEF SessionOK, Further
<1>9. s.recvCK # NoKey => Advance(s.recvCK, 0) = s.recvCK
  BY <1>1 DEF Advance, ChainKeys
<1>10. Shifted(s, t, 0)
  BY <1>1, <1>6, <1>7, <1>9 DEF Shifted
<1>. QED  BY <1>3, <1>4, <1>6, <1>8, <1>10 DEF d, m

\* A message of the chain that s receives on.
LEMMA ReadsChain ==
  ASSUME NEW s, SessionOK(s), NEW msgs \in Seq(Message), Apart(msgs), NEW pos, NEW done,
         Holds(s.skipped, msgs, pos, done), NEW i \in pos + 1 .. Len(msgs),
         \A j \in pos + 1 .. i : Continues(msgs[j], s, j - (pos + 1)), NEW fresh
  PROVE  LET m == msgs[i]
             d == Decrypt(s, m, fresh)
         IN  /\ ~HasSkippedKey(s, m) /\ ~NeedsRatchet(s, m)
             /\ \/ SkipFails(s, m.n) /\ d.st = s
                \/ /\ d.ok /\ SessionOK(d.st) /\ Shifted(s, d.st, i - pos)
                   /\ Holds(d.st.skipped, msgs, i, done \cup {i})
<1> DEFINE m == msgs[i]
           d == Decrypt(s, m, fresh)
           k == i - (pos + 1)
           t == Skip(s, s.nr + k)
<1>1. /\ pos \in Nat /\ Len(msgs) \in Nat /\ k \in Nat /\ pos + k <= Len(msgs) /\ pos + k = i - 1
      /\ i \in Nat /\ i \in pos + 1 .. i /\ k + 1 = i - pos /\ CacheOK(s.skipped)
      /\ \A j \in pos + 1 .. pos + k : j \in pos + 1 .. i
  <2>1. pos \in 0 .. Len(msgs) /\ CacheOK(s.skipped) /\ Len(msgs) \in Nat
    BY DEF Holds, SessionOK, ReceivingOK
  <2>2. i \in Nat /\ pos \in Nat /\ pos + 1 <= i /\ i <= Len(msgs)
    BY <2>1
  <2>. QED  BY <2>1, <2>2
<1>2. /\ m.dh = s.dhr /\ m.n = s.nr + k /\ s.recvCK # NoKey /\ m.key = Advance(s.recvCK, k)
  BY <1>1 DEF Continues
<1>3. ~HasSkippedKey(s, m) /\ ~NeedsRatchet(s, m)
  <2>1. Id(m) \notin DOMAIN s.skipped.keys
    BY <1>1, NotHeld
  <2>. QED  BY <1>2, <2>1 DEF HasSkippedKey, HasKey, NeedsRatchet, Id
<1>4. SessionOK(t) /\ Shifted(s, t, k) /\ Holds(t.skipped, msgs, pos + k, done)
  BY <1>1, SkipShifts
<1>5. t.recvCK = m.key /\ t.recvCK # NoKey
  <2>1. s.recvCK \in ChainKeys
    BY <1>2 DEF SessionOK, ReceivingOK
  <2>. QED  BY <1>1, <1>2, <1>4, <2>1, AdvanceStep, NoKeyIsNone DEF Shifted
<1>6. CASE SkipFails(s, m.n)
  <2>1. d.st = s
    BY <1>3, <1>6 DEF Decrypt, Decryption, Ratcheted
  <2>. QED  BY <1>3, <1>6, <2>1
<1>7. CASE ~SkipFails(s, m.n)
  <2>1. Skip(s, m.n) = t /\ Ratcheted(s, m, fresh) = s
    BY <1>2, <1>3 DEF Ratcheted
  <2>2. d = Decryption(TRUE, Received(t))
    BY <1>2, <1>3, <1>5, <1>7, <2>1 DEF Decrypt, Received
  <2> HIDE DEF t, d, m, k
  <2>3. d.ok /\ d.st = Received(t)
    BY <2>2 DEF Decryption
  <2>4. /\ SessionOK(Received(t)) /\ Shifted(t, Received(t), 1) /\ Received(t).skipped = t.skipped
    BY <1>4, <1>5, ReceivedRuns DEF Fields
  <2>5. Shifted(s, Received(t), k + 1)
    BY <1>1, <1>4, <2>4, ShiftedTrans, 1 \in Nat
  <2>6. Holds(t.skipped, msgs, i, done \cup {i})
    <3>1. Holds(t.skipped, msgs, i - 1, done)
      BY <1>1, <1>4
    <3>2. i \in 0 .. Len(msgs) /\ 1 .. i = (1 .. i - 1) \cup {i} /\ \A j \in 1 .. i - 1 : j \in 1 .. i
      BY <1>1
    <3>3. ASSUME NEW a \in DOMAIN t.skipped.order, NEW x \in 1 .. i, t.skipped.order[a] = Id(msgs[x])
          PROVE  x \in 1 .. i - 1
      <4>1. PICK y \in 1 .. i - 1 : t.skipped.order[a] = Id(msgs[y])
        BY <3>1 DEF Holds
      <4>2. x \in DOMAIN msgs /\ y \in DOMAIN msgs
        BY <1>1
      <4>. QED  BY <3>3, <4>1, <4>2 DEF Apart
    <3>. QED  BY <3>1, <3>2, <3>3 DEF Holds
  <2>. QED  BY <1>1, <1>3, <2>3, <2>4, <2>5, <2>6 DEF d, m
<1>. QED  BY <1>6, <1>7

\* A message that the party ahead is given in time decrypts, or is too far on.
LEMMA AheadDelivers ==
  ASSUME NEW s, SessionOK(s), NEW u, SessionOK(u), NEW out \in Seq(Message), NEW in \in Seq(Message),
         NEW c \in Nat, NEW d \in Nat, Leads(s, u, out, in, c, d), Apart(in),
         NEW done, Holds(s.skipped, in, c, done), NEW i \in DOMAIN in, i \notin done,
         ~(i + MaxSkippedKeys <= Len(in)), NEW fresh
  PROVE  LET m == in[i]
             e == Decrypt(s, m, fresh)
         IN  /\ ~Ratchets(s, m)
             /\ e.ok \/ (~NeedsRatchet(s, m) /\ SkipFails(s, m.n))
             /\ SessionOK(e.st)
             /\ \E pos \in Nat : /\ Leads(e.st, u, out, in, pos, d)
                                 /\ Holds(e.st.skipped, in, pos, done \cup {i})
<1> DEFINE m == in[i]
           e == Decrypt(s, m, fresh)
<1>1. c \in 0 .. Len(in) /\ i \in 1 .. Len(in) /\ Len(in) \in Nat
  BY DEF Holds
<1>2. CASE i \in 1 .. c
  <2>1. /\ e.ok /\ ~Ratchets(s, m) /\ SessionOK(e.st) /\ Shifted(s, e.st, 0)
        /\ Holds(e.st.skipped, in, c, done \cup {i})
    BY <1>2, ReadsHeld
  <2>2. c + 0 = c /\ c + 0 <= Len(in) /\ 0 \in Nat
    BY <1>1
  <2> HIDE DEF e
  <2>3. Leads(e.st, u, out, in, c + 0, d)
    BY <2>1, <2>2, AheadShifts
  <2>. QED  BY <2>1, <2>2, <2>3 DEF e
<1>3. CASE i \in c + 1 .. Len(in)
  <2>1. \A j \in c + 1 .. i : Continues(in[j], s, j - (c + 1))
    <3>1. \A j \in c + 1 .. i : j \in c + 1 .. Len(in)
      BY <1>1, <1>3
    <3>. QED  BY <3>1 DEF Leads
  <2>2. /\ ~HasSkippedKey(s, m) /\ ~NeedsRatchet(s, m)
        /\ \/ SkipFails(s, m.n) /\ e.st = s
           \/ /\ e.ok /\ SessionOK(e.st) /\ Shifted(s, e.st, i - c)
              /\ Holds(e.st.skipped, in, i, done \cup {i})
    BY <1>3, <2>1, ReadsChain
  <2> HIDE DEF e, m
  <2>3. ~Ratchets(s, m)
    BY <2>2 DEF Ratchets
  <2>4. CASE SkipFails(s, m.n) /\ e.st = s
    <3>1. Holds(e.st.skipped, in, c, done \cup {i})
      BY <2>4, HoldsMore
    <3>. QED  BY <2>2, <2>3, <2>4, <3>1 DEF e, m
  <2>5. CASE /\ e.ok /\ SessionOK(e.st) /\ Shifted(s, e.st, i - c)
             /\ Holds(e.st.skipped, in, i, done \cup {i})
    <3>1. i - c \in Nat /\ c + (i - c) = i /\ i <= Len(in) /\ i \in Nat
      BY <1>1, <1>3
    <3>2. Leads(e.st, u, out, in, c + (i - c), d)
      BY <2>5, <3>1, AheadShifts
    <3>. QED  BY <2>3, <2>5, <3>1, <3>2 DEF e, m
  <2>. QED  BY <2>2, <2>4, <2>5
<1>4. i \in 1 .. c \/ i \in c + 1 .. Len(in)
  BY <1>1
<1> HIDE DEF e, m
<1>. QED  BY <1>1, <1>2, <1>3, <1>4 DEF e, m

\* Whether decrypt meets the limit after a ratchet does not depend on the fresh pair.
LEMMA RatchetedNr ==
  ASSUME NEW s, DOMAIN s = Fields, NEW m, NEW fresh
  PROVE  Ratcheted(s, m, fresh).nr = IF NeedsRatchet(s, m) THEN 0 ELSE s.nr
<1>1. DOMAIN Skip(s, m.pn) = Fields
  BY SkipKeeps DEF SameSending
<1>2. \A k : DOMAIN k = Fields => DhRatchet(k, m.dh, fresh).nr = 0
  BY DEF DhRatchet, Fields
<1>. QED  BY <1>1, <1>2 DEF Ratcheted

\* So does one that the party behind is given, which may put it ahead.
LEMMA BehindDelivers ==
  ASSUME NEW s, SessionOK(s), NEW u, SessionOK(u), NEW out \in Seq(Message), NEW in \in Seq(Message),
         NEW c \in Nat, NEW d \in Nat, Leads(s, u, out, in, c, d), Apart(out), c <= Len(in),
         NEW done, Holds(u.skipped, out, d, done), NEW i \in DOMAIN out, i \notin done,
         ~(i + MaxSkippedKeys <= Len(out)), NEW fresh \in AllKeyPairs, fresh # s.dhr
  PROVE  LET m == out[i]
             e == Decrypt(u, m, fresh)
         IN  /\ \/ e.ok
                \/ NeedsRatchet(u, m) /\ SkipFails(u, m.pn)
                \/ SkipFails(Ratcheted(u, m, fresh), m.n)
             /\ SessionOK(e.st)
             /\ \E pos \in Nat :
                  /\ Leads(s, e.st, out, in, c, pos) \/ Leads(e.st, s, in, out, pos, c)
                  /\ Holds(e.st.skipped, out, pos, done \cup {i})
<1> DEFINE m == out[i]
           e == Decrypt(u, m, fresh)
           old == d + (s.pn - u.nr)
<1>1. /\ d \in 0 .. Len(out) /\ i \in 1 .. Len(out) /\ Len(out) \in Nat
      /\ s.pn \in Nat /\ u.nr \in Nat /\ u.nr <= s.pn /\ old \in Nat /\ d <= old
      /\ old <= Len(out) /\ s.pn - u.nr \in Nat /\ u.nr + (s.pn - u.nr) = s.pn
  <2>1. d \in 0 .. Len(out) /\ i \in 1 .. Len(out) /\ Len(out) \in Nat
    BY DEF Holds
  <2>2. s.pn \in Nat /\ u.nr \in Nat
    BY DEF SessionOK, ReceivingOK
  <2>3. u.nr <= s.pn /\ s.ns = Len(out) - old /\ old <= Len(out)
    BY DEF Leads
  <2>. QED  BY <2>1, <2>2, <2>3
<1>2. CASE i \in 1 .. d
  <2>1. /\ e.ok /\ SessionOK(e.st) /\ Shifted(u, e.st, 0)
        /\ Holds(e.st.skipped, out, d, done \cup {i})
    BY <1>2, ReadsHeld
  <2>2. d + 0 = d /\ 0 <= s.pn - u.nr /\ 0 \in Nat
    BY <1>1
  <2> HIDE DEF e
  <2>3. Leads(s, e.st, out, in, c, d + 0)
    BY <2>1, <2>2, BehindShifts
  <2>. QED  BY <2>1, <2>2, <2>3 DEF e
<1>3. CASE i \in d + 1 .. old
  <2>1. \A j \in d + 1 .. i : Continues(out[j], u, j - (d + 1))
    <3>1. \A j \in d + 1 .. i : j \in d + 1 .. old
      BY <1>1, <1>3
    <3>. QED  BY <3>1 DEF Leads
  <2>2. i \in d + 1 .. Len(out)
    BY <1>1, <1>3
  <2>3. /\ ~NeedsRatchet(u, m)
        /\ \/ SkipFails(u, m.n) /\ e.st = u
           \/ /\ e.ok /\ SessionOK(e.st) /\ Shifted(u, e.st, i - d)
              /\ Holds(e.st.skipped, out, i, done \cup {i})
    BY <2>1, <2>2, ReadsChain
  <2> HIDE DEF e, m
  <2>4. CASE SkipFails(u, m.n) /\ e.st = u
    <3>1. Holds(e.st.skipped, out, d, done \cup {i})
      BY <2>4, HoldsMore
    <3>2. Ratcheted(u, m, fresh) = u
      BY <2>3 DEF Ratcheted
    <3>. QED  BY <2>4, <3>1, <3>2 DEF e, m
  <2>5. CASE /\ e.ok /\ SessionOK(e.st) /\ Shifted(u, e.st, i - d)
             /\ Holds(e.st.skipped, out, i, done \cup {i})
    <3>1. i - d \in Nat /\ d + (i - d) = i /\ i - d <= s.pn - u.nr /\ i \in Nat
      BY <1>1, <1>3
    <3>2. Leads(s, e.st, out, in, c, d + (i - d))
      BY <2>5, <3>1, BehindShifts
    <3>. QED  BY <2>5, <3>1, <3>2 DEF e, m
  <2>. QED  BY <2>3, <2>4, <2>5
<1>4. CASE i \in old + 1 .. Len(out)
  <2>1. m.dh = s.dhs /\ m.pn = s.pn /\ u.dhr # s.dhs
    BY <1>4 DEF Leads, OnChain
  <2>2. ~HasSkippedKey(u, m) /\ NeedsRatchet(u, m)
    <3>1. i \in d + 1 .. Len(out) /\ CacheOK(u.skipped)
      BY <1>1, <1>4 DEF SessionOK, ReceivingOK
    <3>2. Id(m) \notin DOMAIN u.skipped.keys
      BY <3>1, NotHeld
    <3>. QED  BY <2>1, <3>2 DEF HasSkippedKey, HasKey, NeedsRatchet, Id
  <2>3. CASE SkipFails(u, m.pn)
    <3>1. e.st = u
      BY <2>2, <2>3 DEF Decrypt, Decryption
    <3>2. Holds(u.skipped, out, d, done \cup {i})
      BY HoldsMore
    <3> HIDE DEF e, m
    <3>. QED  BY <2>2, <2>3, <3>1, <3>2 DEF e, m
  <2>4. CASE ~SkipFails(u, m.pn)
    <3> DEFINE k == s.pn - u.nr
               v == Skip(u, u.nr + k)
               r == DhRatchet(v, s.dhs, fresh)
    <3>1. \A j \in d + 1 .. d + k : Continues(out[j], u, j - (d + 1))
      BY DEF Leads
    <3>2. SessionOK(v) /\ Shifted(u, v, k) /\ Holds(v.skipped, out, d + k, done)
      BY <1>1, <3>1, SkipShifts
    <3>3. Leads(s, v, out, in, c, d + k)
      <4>1. k \in Nat /\ k <= s.pn - u.nr
        BY <1>1
      <4> HIDE DEF k, v
      <4>. QED  BY <3>2, <4>1, BehindShifts
    <3>4. s.pn = v.nr /\ d + k = old
      BY <1>1, <3>2 DEF Shifted
    <3> HIDE DEF v
    <3>5. /\ Leads(r, s, in, out, old, c) /\ SessionOK(r) /\ r.recvCK # NoKey
          /\ r.dhr = s.dhs /\ r.nr = 0 /\ r.skipped = v.skipped
      <4>1. Leads(s, v, out, in, c, old)
        BY <3>3, <3>4
      <4>2. old \in Nat /\ old <= Len(out) /\ s.pn = v.nr
        BY <1>1, <3>4
      <4> HIDE DEF old
      <4>3. LET w == DhRatchet(v, s.dhs, fresh)
            IN  /\ Leads(w, s, in, out, old, c)
                /\ SessionOK(w) /\ Further(v, w)
                /\ w.recvCK = [chain |-> s.root, step |-> 0] /\ w.recvCK # NoKey
                /\ w.dhs = fresh /\ w.dhr = s.dhs /\ w.nr = 0 /\ w.skipped = v.skipped
        BY <3>2, <4>1, <4>2, LeadTaken
      <4>. QED  BY <4>3
    <3>6. Holds(r.skipped, out, old, done)
      BY <3>2, <3>4, <3>5
    <3>7. Ratcheted(u, m, fresh) = r
      BY <1>1, <2>1, <2>2 DEF Ratcheted, v
    <3> HIDE DEF r, old, k
    <3>8. \A j \in old + 1 .. i : Continues(out[j], r, j - (old + 1))
      <4>1. \A j \in old + 1 .. i : j \in old + 1 .. Len(out)
        BY <1>1, <1>4
      <4>. QED  BY <3>5, <4>1 DEF Leads
    <3>9. /\ ~HasSkippedKey(r, m) /\ ~NeedsRatchet(r, m)
          /\ \/ SkipFails(r, m.n) /\ Decrypt(r, m, fresh).st = r
             \/ LET f == Decrypt(r, m, fresh)
                IN  /\ f.ok /\ SessionOK(f.st) /\ Shifted(r, f.st, i - old)
                    /\ Holds(f.st.skipped, out, i, done \cup {i})
      BY <1>4, <3>5, <3>6, <3>8, ReadsChain
    <3>10. e = Decrypt(r, m, fresh)
      <4>1. Ratcheted(r, m, fresh) = r
        BY <3>9 DEF Ratcheted
      <4> HIDE DEF m
      <4>. QED  BY <2>2, <2>4, <3>7, <3>9, <4>1 DEF Decrypt
    <3> HIDE DEF e, m
    <3>11. CASE SkipFails(r, m.n) /\ e.st = r
      <4>1. Holds(r.skipped, out, old, done \cup {i})
        BY <3>6, HoldsMore
      <4>. QED  BY <1>1, <3>5, <3>7, <3>11, <4>1 DEF e, m
    <3>12. CASE /\ e.ok /\ SessionOK(e.st) /\ Shifted(r, e.st, i - old)
                /\ Holds(e.st.skipped, out, i, done \cup {i})
      <4>1. i - old \in Nat /\ old + (i - old) = i /\ i <= Len(out) /\ i \in Nat
        BY <1>1, <1>4
      <4>2. Leads(e.st, s, in, out, old + (i - old), c)
        BY <1>1, <3>5, <3>12, <4>1, AheadShifts
      <4>. QED  BY <3>12, <4>1, <4>2 DEF e, m
    <3>. QED  BY <3>9, <3>10, <3>11, <3>12
  <2>. QED  BY <2>3, <2>4
<1>5. i \in 1 .. d \/ i \in d + 1 .. old \/ i \in old + 1 .. Len(out)
  BY <1>1
<1> HIDE DEF e, m, old
<1>. QED  BY <1>1, <1>2, <1>3, <1>4, <1>5 DEF e, m

-----------------------------------------------------------------------------
(* What is not late is delivered *)

\* The numbers of the chain that s sends on are below its counter.
Numbered(s, msgs) == \A i \in DOMAIN msgs : msgs[i].dh = s.dhs => msgs[i].n < s.ns

\* Party p is ahead of its peer, and each holds what it still has to be given.
InStep(p) ==
  \E c, d \in Nat :
    /\ Leads(st[p], st[Peer(p)], sent[p], sent[Peer(p)], c, d)
    /\ Holds(st[p].skipped, sent[Peer(p)], c, handed[p])
    /\ Holds(st[Peer(p)].skipped, sent[p], d, handed[Peer(p)])

DeliverInv ==
  late = 0 =>
    /\ \A p \in Party : SessionOK(st[p]) /\ Apart(sent[p]) /\ Numbered(st[p], sent[p])
    /\ \E p \in Party : InStep(p)

LEMMA SentMessages ==
  ASSUME KeyInv, NEW p \in Party
  PROVE  /\ sent[p] \in Seq(Message)
         /\ \A i \in DOMAIN sent[p] : sent[p][i] \in Message /\ sent[p][i].dh \in Known(generated)
<1>1. sent[p] \in Seq([dh : Known(generated), pn : Nat, n : Nat, key : ChainKeys])
  BY DEF KeyInv, SentOK
<1>2. [dh : Known(generated), pn : Nat, n : Nat, key : ChainKeys] \subseteq Message
  BY DEF Message, Known
<1>3. sent[p] \in Seq(Message)
  BY <1>1, <1>2, SeqMonotone
<1>4. \A i \in DOMAIN sent[p] : sent[p][i] \in [dh : Known(generated), pn : Nat, n : Nat, key : ChainKeys]
  BY <1>1, ElementType
<1>. QED  BY <1>2, <1>3, <1>4

LEMMA NewPair ==
  ASSUME KeyInv, NEW p \in Party
  PROVE  Fresh(p) \in AllKeyPairs /\ Fresh(p) \notin Known(generated)
BY DEF KeyInv, Fresh, KeyPair, AllKeyPairs, Known

LEMMA InitDeliverInv == Init => DeliverInv
<1> SUFFICES ASSUME Init PROVE DeliverInv
  OBVIOUS
<1> DEFINE a == KeyPair("alice", 1)
           b == KeyPair("bob", 0)
           s == st["alice"]
           u == st["bob"]
<1>1. \A p \in Party : sent[p] = << >> /\ handed[p] = {}
  BY DEF Init
<1>2. a \in AllKeyPairs /\ b \in AllKeyPairs
  BY DEF AllKeyPairs, KeyPair, Party
<1>3. s = InitSender(a, b) /\ u = InitReceiver(b)
  BY DEF Init, InitialState, Party
<1> HIDE DEF a, b
<1>4. DH(a, b) \in SUBSET AllKeyPairs /\ << >> \in Seq(SUBSET AllKeyPairs)
  BY <1>2 DEF DH
<1>5. /\ s.root = Append(<< >>, DH(a, b)) /\ s.sendCK = [chain |-> Append(<< >>, DH(a, b)), step |-> 0]
      /\ s.recvCK = NoKey /\ s.dhs = a /\ s.dhr = b /\ s.ns = 0 /\ s.nr = 0 /\ s.pn = 0
      /\ s.skipped = EmptyCache /\ IsState(s)
  BY <1>3 DEF InitSender, MixRoot, NewChain, IsState, Fields
<1>6. /\ u.root = << >> /\ u.sendCK = NoKey
      /\ u.recvCK = NoKey /\ u.dhs = b /\ u.dhr = NoKey /\ u.ns = 0 /\ u.nr = 0 /\ u.pn = 0
      /\ u.skipped = EmptyCache /\ IsState(u)
  BY <1>3 DEF InitReceiver, IsState, Fields
<1> HIDE DEF s, u
<1>7. s.root \in Seq(SUBSET AllKeyPairs) /\ s.sendCK # NoKey
  <2>1. s.root \in Seq(SUBSET AllKeyPairs)
    BY <1>4, <1>5
  <2>2. s.sendCK \in ChainKeys
    BY <1>5, <2>1 DEF ChainKeys
  <2>. QED  BY <2>1, <2>2, NoKeyIsNone
<1>8. SessionOK(s)
  <2>1. DOMAIN s = Fields
    BY <1>5 DEF IsState
  <2>. QED  BY <1>2, <1>5, <1>7, <2>1, EmptyCacheOK DEF SessionOK, ReceivingOK
<1>9. SessionOK(u)
  <2>1. DOMAIN u = Fields
    BY <1>6 DEF IsState
  <2>. QED  BY <1>2, <1>4, <1>6, <2>1, EmptyCacheOK DEF SessionOK, ReceivingOK
<1>10. Leads(s, u, << >>, << >>, 0, 0)
  <2>1. NoKey # a
    BY <1>2, NoKeyIsNone
  <2>2. 0 + (s.pn - u.nr) = 0 /\ Len(<< >>) = 0 /\ u.ns = s.nr + (0 - 0) /\ s.ns = 0 - 0 /\ u.nr <= s.pn
    BY <1>5, <1>6
  <2>3. 0 + 1 .. 0 = {}
    OBVIOUS
  <2>. QED  BY <1>5, <1>6, <1>7, <2>1, <2>2, <2>3 DEF Leads
<1>11. Holds(EmptyCache, << >>, 0, {})
  BY DEF Holds, EmptyCache
<1>12. InStep("alice")
  <2>1. Peer("alice") = "bob" /\ "alice" \in Party /\ "bob" \in Party /\ 0 \in Nat
    BY DEF Peer, Party
  <2>2. /\ Leads(st["alice"], st["bob"], sent["alice"], sent["bob"], 0, 0)
        /\ Holds(st["alice"].skipped, sent["bob"], 0, handed["alice"])
        /\ Holds(st["bob"].skipped, sent["alice"], 0, handed["bob"])
    BY <1>1, <1>5, <1>6, <1>10, <1>11, <2>1 DEF s, u
  <2>. QED  BY <2>1, <2>2 DEF InStep
<1>13. \A p \in Party : SessionOK(st[p]) /\ Apart(sent[p]) /\ Numbered(st[p], sent[p])
  BY <1>1, <1>8, <1>9 DEF Party, Apart, Numbered, s, u
<1>. QED  BY <1>12, <1>13 DEF DeliverInv, Party

LEMMA SendDeliverInv ==
  ASSUME KeyInv, DeliverInv, NEW p \in Party, SendMessage(p)
  PROVE  DeliverInv'
<1> SUFFICES ASSUME late = 0
             PROVE  /\ \A r \in Party : (SessionOK(st[r]) /\ Apart(sent[r]) /\ Numbered(st[r], sent[r]))'
                    /\ \E r \in Party : InStep(r)'
  BY DEF DeliverInv, SendMessage
<1> DEFINE q == Peer(p)
           s == st[p]
           u == st[q]
           t == AfterEncrypt(s)
           msg == Sealed(s)
           longer == Append(sent[p], msg)
<1>1. q \in Party /\ q # p /\ Peer(q) = p /\ Party = {p, q}
  BY PeerFacts
<1>2. /\ st'[p] = t /\ st'[q] = u /\ sent'[p] = longer /\ sent'[q] = sent[q]
      /\ handed' = handed /\ s.sendCK # NoKey
  BY <1>1 DEF SendMessage, KeyInv, SentOK, CanEncrypt
<1>3. /\ SessionOK(s) /\ Apart(sent[p]) /\ Numbered(s, sent[p])
      /\ SessionOK(u) /\ Apart(sent[q]) /\ Numbered(u, sent[q])
      /\ s.ns \in Nat
  BY <1>1 DEF DeliverInv, SessionOK
<1>4. sent[p] \in Seq(Message) /\ sent[q] \in Seq(Message)
  BY <1>1, SentMessages
<1>5. /\ msg \in Message /\ OnChain(msg, s, s.ns) /\ SessionOK(t) /\ t.ns = s.ns + 1
      /\ t.dhs = s.dhs /\ t.skipped = s.skipped
  BY <1>2, <1>3, SealedRuns DEF Fields
<1> HIDE DEF t, msg, longer
<1>6. /\ DOMAIN longer = DOMAIN sent[p] \cup {Len(sent[p]) + 1}
      /\ Len(sent[p]) + 1 \notin DOMAIN sent[p]
      /\ \A i \in DOMAIN sent[p] : longer[i] = sent[p][i]
      /\ longer[Len(sent[p]) + 1] = msg
  BY <1>4, <1>5 DEF longer
<1>7. msg.dh = s.dhs /\ msg.n = s.ns
  BY <1>5 DEF OnChain
<1>8. \A i \in DOMAIN sent[p] : Id(sent[p][i]) # Id(msg)
  <2> SUFFICES ASSUME NEW i \in DOMAIN sent[p], Id(sent[p][i]) = Id(msg) PROVE FALSE
    OBVIOUS
  <2>1. sent[p][i].dh = s.dhs /\ sent[p][i].n = s.ns
    BY <1>7 DEF Id
  <2>2. s.ns < s.ns
    BY <1>3, <2>1 DEF Numbered
  <2>. QED  BY <1>3, <2>2
<1>9. Apart(longer)
  BY <1>3, <1>6, <1>8 DEF Apart
<1>10. Numbered(t, longer)
  <2>1. \A i \in DOMAIN sent[p] : sent[p][i].n \in Nat
    BY SentMessages DEF Message
  <2>2. \A i \in DOMAIN sent[p] : sent[p][i].dh = s.dhs => sent[p][i].n < s.ns + 1
    BY <1>3, <2>1 DEF Numbered
  <2>. QED  BY <1>3, <1>5, <1>6, <1>7, <2>2 DEF Numbered
<1>11. \A r \in Party : (SessionOK(st[r]) /\ Apart(sent[r]) /\ Numbered(st[r], sent[r]))'
  BY <1>1, <1>2, <1>3, <1>5, <1>9, <1>10
<1>12. InStep(p) \/ InStep(q)
  BY <1>1 DEF DeliverInv
<1> HIDE DEF s, u, q
<1>13. CASE InStep(p)
  <2>1. PICK c \in Nat, d \in Nat :
          /\ Leads(s, u, sent[p], sent[q], c, d)
          /\ Holds(s.skipped, sent[q], c, handed[p])
          /\ Holds(u.skipped, sent[p], d, handed[q])
    BY <1>13 DEF InStep, s, u, q
  <2>2. Leads(t, u, longer, sent[q], c, d)
    BY <1>3, <1>4, <2>1, AheadSends DEF t, longer, msg
  <2>3. Holds(u.skipped, longer, d, handed[q])
    BY <1>4, <1>5, <2>1, HoldsMore DEF longer
  <2>4. InStep(p)'
    BY <1>2, <1>5, <2>1, <2>2, <2>3 DEF InStep, q
  <2>. QED  BY <1>11, <2>4
<1>14. CASE InStep(q)
  <2>1. PICK c \in Nat, d \in Nat :
          /\ Leads(u, s, sent[q], sent[p], c, d)
          /\ Holds(u.skipped, sent[p], c, handed[q])
          /\ Holds(s.skipped, sent[q], d, handed[p])
    BY <1>1, <1>14 DEF InStep, s, u
  <2>2. c <= Len(sent[p])
    BY <1>4, <2>1 DEF Holds
  <2>3. Leads(u, t, sent[q], longer, c, d)
    BY <1>2, <1>3, <1>4, <2>1, <2>2, BehindSends DEF t, longer, msg
  <2>4. Holds(u.skipped, longer, c, handed[q])
    BY <1>4, <1>5, <2>1, HoldsMore DEF longer
  <2>5. InStep(q)'
    BY <1>1, <1>2, <1>5, <2>1, <2>3, <2>4 DEF InStep
  <2>. QED  BY <1>1, <1>11, <2>5
<1>. QED  BY <1>12, <1>13, <1>14

\* What decrypt makes of a message that is not late.
LEMMA InTime ==
  ASSUME KeyInv, DeliverInv, late = 0, NEW p \in Party, NEW i \in DOMAIN sent[Peer(p)], ~Late(p, i)
  PROVE  LET q == Peer(p)
             m == sent[q][i]
             e == Decrypt(st[p], m, Fresh(p))
         IN  /\ e.ok \/ TooFar(st[p], m)
             /\ SessionOK(e.st) /\ Numbered(e.st, sent[p])
             /\ \E c, d \in Nat :
                  /\ \/ Leads(e.st, st[q], sent[p], sent[q], c, d)
                     \/ Leads(st[q], e.st, sent[q], sent[p], d, c)
                  /\ Holds(e.st.skipped, sent[q], c, handed[p] \cup {i})
                  /\ Holds(st[q].skipped, sent[p], d, handed[q])
<1> DEFINE q == Peer(p)
           s == st[p]
           u == st[q]
           m == sent[q][i]
           e == Decrypt(s, m, Fresh(p))
<1>1. q \in Party /\ q # p /\ Peer(q) = p /\ Party = {p, q}
  BY PeerFacts
<1>2. /\ SessionOK(s) /\ SessionOK(u) /\ Apart(sent[p]) /\ Apart(sent[q]) /\ Numbered(s, sent[p])
      /\ DOMAIN s = Fields
  BY <1>1 DEF DeliverInv, SessionOK, ReceivingOK
<1>3. /\ sent[p] \in Seq(Message) /\ sent[q] \in Seq(Message)
      /\ \A j \in DOMAIN sent[p] : sent[p][j].dh \in Known(generated)
  BY <1>1, SentMessages
<1>4. Fresh(p) \in AllKeyPairs /\ Fresh(p) \notin Known(generated) /\ s.dhs \in Known(generated)
  BY NewPair DEF KeyInv, StateOK
<1>5. i \in DOMAIN sent[q] /\ i \notin handed[p] /\ ~(i + MaxSkippedKeys <= Len(sent[q]))
  BY DEF Late
<1>6. Numbered(e.st, sent[p])
  <2>1. /\ ~Ratchets(s, m) => SameSending(s, e.st)
        /\ Ratchets(s, m) => NextSending(s, e.st, m.dh, Fresh(p))
    BY <1>2, DecryptMoves
  <2> HIDE DEF e, s, m, q
  <2>2. CASE SameSending(s, e.st)
    BY <1>2, <2>2 DEF SameSending, Numbered
  <2>3. CASE NextSending(s, e.st, m.dh, Fresh(p))
    BY <1>3, <1>4, <2>3 DEF NextSending, Numbered
  <2>. QED  BY <2>1, <2>2, <2>3
<1>7. \A f : SkipFails(Ratcheted(s, m, f), m.n) <=> SkipFails(Ratcheted(s, m, NoKey), m.n)
  <2> HIDE DEF s, m
  <2>. QED  BY <1>2, RatchetedNr DEF SkipFails
<1>8. InStep(p) \/ InStep(q)
  BY <1>1 DEF DeliverInv
<1> HIDE DEF s, u, q
<1>9. CASE InStep(p)
  <2>1. PICK c \in Nat, d \in Nat :
          /\ Leads(s, u, sent[p], sent[q], c, d)
          /\ Holds(s.skipped, sent[q], c, handed[p])
          /\ Holds(u.skipped, sent[p], d, handed[q])
    BY <1>9 DEF InStep, s, u, q
  <2> HIDE DEF m, e
  <2>2. /\ e.ok \/ (~NeedsRatchet(s, m) /\ SkipFails(s, m.n))
        /\ SessionOK(e.st)
        /\ \E pos \in Nat : /\ Leads(e.st, u, sent[p], sent[q], pos, d)
                            /\ Holds(e.st.skipped, sent[q], pos, handed[p] \cup {i})
    BY <1>2, <1>3, <1>5, <2>1, AheadDelivers DEF e, m
  <2>3. ~NeedsRatchet(s, m) /\ SkipFails(s, m.n) => TooFar(s, m)
    BY DEF TooFar, Ratcheted
  <2>. QED  BY <1>6, <2>1, <2>2, <2>3 DEF e, m, s, u, q
<1>10. CASE InStep(q)
  <2>1. PICK d \in Nat, c \in Nat :
          /\ Leads(u, s, sent[q], sent[p], d, c)
          /\ Holds(u.skipped, sent[p], d, handed[q])
          /\ Holds(s.skipped, sent[q], c, handed[p])
    BY <1>1, <1>10 DEF InStep, s, u
  <2>2. d <= Len(sent[p])
    BY <1>3, <2>1 DEF Holds
  <2>3. Fresh(p) # u.dhr
    BY <1>4, <2>1 DEF Leads
  <2> HIDE DEF m, e
  <2>4. /\ \/ e.ok
           \/ NeedsRatchet(s, m) /\ SkipFails(s, m.pn)
           \/ SkipFails(Ratcheted(s, m, Fresh(p)), m.n)
        /\ SessionOK(e.st)
        /\ \E pos \in Nat :
             /\ \/ Leads(u, e.st, sent[q], sent[p], d, pos)
                \/ Leads(e.st, u, sent[p], sent[q], pos, d)
             /\ Holds(e.st.skipped, sent[q], pos, handed[p] \cup {i})
    BY <1>2, <1>3, <1>4, <1>5, <2>1, <2>2, <2>3, BehindDelivers DEF e, m
  <2>5. e.ok \/ TooFar(s, m)
    BY <1>7, <2>4 DEF TooFar
  <2>. QED  BY <1>6, <2>1, <2>4, <2>5 DEF e, m, s, u, q
<1>. QED  BY <1>8, <1>9, <1>10

LEMMA ReceiveDeliverInv ==
  ASSUME KeyInv, SecrecyInv, DeliverInv, NEW p \in Party, NEW i \in DOMAIN sent[Peer(p)], Receive(p, i)
  PROVE  DeliverInv'
<1> SUFFICES ASSUME late' = 0
             PROVE  /\ \A r \in Party : (SessionOK(st[r]) /\ Apart(sent[r]) /\ Numbered(st[r], sent[r]))'
                    /\ \E r \in Party : InStep(r)'
  BY DEF DeliverInv
<1> DEFINE q == Peer(p)
           m == sent[q][i]
           e == Decrypt(st[p], m, Fresh(p))
<1>1. q \in Party /\ q # p /\ Peer(q) = p /\ Party = {p, q}
  BY PeerFacts
<1>2. late = 0 /\ ~Late(p, i)
  <2>1. late \in Nat /\ late' = IF Late(p, i) THEN late + 1 ELSE late
    BY BoundsAssumption DEF SecrecyInv, Receive
  <2>. QED  BY <2>1
<1>3. /\ st'[p] = e.st /\ st'[q] = st[q] /\ sent' = sent
      /\ handed'[p] = handed[p] \cup {i} /\ handed'[q] = handed[q]
  BY <1>1 DEF KeyInv, SecrecyInv, Receive
<1>4. /\ SessionOK(st[q]) /\ Apart(sent[p]) /\ Apart(sent[q]) /\ Numbered(st[q], sent[q])
  BY <1>1, <1>2 DEF DeliverInv
<1>5. /\ SessionOK(e.st) /\ Numbered(e.st, sent[p])
      /\ \E c, d \in Nat :
           /\ \/ Leads(e.st, st[q], sent[p], sent[q], c, d)
              \/ Leads(st[q], e.st, sent[q], sent[p], d, c)
           /\ Holds(e.st.skipped, sent[q], c, handed[p] \cup {i})
           /\ Holds(st[q].skipped, sent[p], d, handed[q])
  BY <1>2, InTime
<1> HIDE DEF e, m
<1>6. \A r \in Party : (SessionOK(st[r]) /\ Apart(sent[r]) /\ Numbered(st[r], sent[r]))'
  BY <1>1, <1>3, <1>4, <1>5
<1>7. PICK c \in Nat, d \in Nat :
        /\ \/ Leads(e.st, st[q], sent[p], sent[q], c, d)
           \/ Leads(st[q], e.st, sent[q], sent[p], d, c)
        /\ Holds(e.st.skipped, sent[q], c, handed[p] \cup {i})
        /\ Holds(st[q].skipped, sent[p], d, handed[q])
  BY <1>5
<1> HIDE DEF q
<1>8. CASE Leads(e.st, st[q], sent[p], sent[q], c, d)
  <2>1. InStep(p)'
    BY <1>3, <1>7, <1>8 DEF InStep, q
  <2>. QED  BY <1>6, <2>1
<1>9. CASE Leads(st[q], e.st, sent[q], sent[p], d, c)
  <2>1. InStep(q)'
    BY <1>1, <1>3, <1>7, <1>9 DEF InStep
  <2>. QED  BY <1>1, <1>6, <2>1
<1>. QED  BY <1>7, <1>8, <1>9

LEMMA DeliverHolds == KeyInv /\ DeliverInv => Deliverable
BY InTime DEF Deliverable

LEMMA DeliverInvHolds == Spec => [](KeyInv /\ DeliverInv)
<1>1. Init => DeliverInv
  BY InitDeliverInv
<1>2. KeyInv /\ SecrecyInv /\ DeliverInv /\ [Next]_vars => DeliverInv'
  <2>1. ASSUME DeliverInv, UNCHANGED vars
        PROVE  DeliverInv'
    BY <2>1 DEF vars, DeliverInv, InStep
  <2>2. ASSUME KeyInv, SecrecyInv, DeliverInv, Next
        PROVE  DeliverInv'
    BY <2>2, SendDeliverInv, ReceiveDeliverInv DEF Next
  <2>. QED  BY <2>1, <2>2
<1>. QED  BY <1>1, <1>2, SecrecyInvHolds, PTL DEF Spec

-----------------------------------------------------------------------------
(* The theorems *)

(* The RatchetState of either party keeps its type, and its cache of skipped keys its
   capacity and the agreement of its map and its order. *)
THEOREM TypeCorrect == Spec => []TypeOK
BY SecrecyInvHolds, SecrecyTypeOK, PTL

(* Forward secrecy: with the state a party is left with, nothing that it sent or that it
   decrypted can be opened. *)
THEOREM PastStaysClosed == Spec => []ForwardSecrecy
BY SecrecyInvHolds, SecrecyHolds, PTL

(* As long as nothing is delivered late: a message decrypts in whatever order it comes and
   whatever was lost before it, unless a gap wider than MAX_SKIP is in its way. *)
THEOREM InTimeDelivered == Spec => []Deliverable
BY DeliverInvHolds, DeliverHolds, PTL
=============================================================================
