----------------------------- MODULE AppProofs ------------------------------
(***************************************************************************)
(* What runs on the phone: the sessions of the native layer, and the chat  *)
(* service on its connection, for any number of messages, sockets and      *)
(* retries.                                                                *)
(*                                                                         *)
(* Native layer: of the two parties one is ahead, by the ratchet the other *)
(* has yet to make. The messages that are not decrypted yet are in order   *)
(* the rest of the chain before, which the other still receives on, and    *)
(* those of the chain it will begin; as a call that fails leaves its blob  *)
(* as it was, no number is ever passed over and no key kept for later.     *)
(*                                                                         *)
(* Chat service: what keeps the client going are sockets that are opening, *)
(* timers and streams that are heard. No event makes one of them into two, *)
(* as long as a stream whose end comes as an error is that of the          *)
(* subscription.                                                           *)
(*                                                                         *)
(* Onions: a packet on its way is the layer of its sender that its path    *)
(* leads to, so that whoever takes layers off stops at the first node      *)
(* whose key is missing.                                                   *)
(***************************************************************************)
EXTENDS NativeSession, Onion, Chat, RatchetLemmas

-----------------------------------------------------------------------------
(* The native layer *)

NoneSkipped(s) == DOMAIN s.skipped.keys = {}

-----------------------------------------------------------------------------
(* decrypt on a state whose cache is empty *)

LEMMA SkipNothing ==
  ASSUME NEW s, ReceivingOK(s), IsState(s)
  PROVE  Skip(s, s.nr) = s
<1>1. CASE s.recvCK = NoKey
  BY <1>1 DEF Skip
<1>2. CASE s.recvCK # NoKey
  <2>1. s.nr \in Nat /\ CacheOK(s.skipped) /\ s.recvCK \in ChainKeys /\ s.nr - s.nr = 0
    BY <1>2 DEF ReceivingOK
  <2>2. CacheSkipped(s, s.nr) = s.skipped
    BY <2>1, CacheSkippedOK
  <2>3. Advance(s.recvCK, 0) = s.recvCK
    BY <2>1 DEF Advance, ChainKeys
  <2>4. Advance(s.recvCK, s.nr - s.nr) = s.recvCK /\ ~(s.nr > s.nr)
    BY <2>1, <2>3
  <2>5. Skip(s, s.nr) = [s EXCEPT !.skipped = CacheSkipped(s, s.nr),
                                  !.recvCK = Advance(s.recvCK, s.nr - s.nr), !.nr = s.nr]
    BY <1>2, <2>4 DEF Skip
  <2>6. Skip(s, s.nr) = [s EXCEPT !.skipped = s.skipped, !.recvCK = s.recvCK, !.nr = s.nr]
    BY <2>2, <2>4, <2>5
  <2>. QED  BY <2>6 DEF IsState, Fields
<1>. QED  BY <1>1, <1>2

\* A cache that is empty after numbers were passed over was so before, and none was.
LEMMA SkipFills ==
  ASSUME NEW s, ReceivingOK(s), NEW until \in Nat, NoneSkipped(Skip(s, until))
  PROVE  s.recvCK = NoKey \/ until <= s.nr
<1> SUFFICES ASSUME s.recvCK # NoKey, ~(until <= s.nr) PROVE FALSE
  OBVIOUS
<1>1. s.nr \in Nat /\ CacheOK(s.skipped) /\ s.nr <= until /\ until # s.nr /\ ~(s.nr > until)
  BY DEF ReceivingOK
<1>2. DOMAIN CacheSkipped(s, until).keys # {}
  BY <1>1, CacheSkippedOK
<1>3. Skip(s, until).skipped = CacheSkipped(s, until)
  BY <1>1 DEF Skip, ReceivingOK, Fields
<1>. QED  BY <1>2, <1>3 DEF NoneSkipped

LEMMA SkipKeepsSkipped ==
  ASSUME NEW s, ReceivingOK(s), NEW until \in Nat, NoneSkipped(Skip(s, until))
  PROVE  NoneSkipped(s)
<1>1. s.recvCK = NoKey \/ until <= s.nr
  BY SkipFills
<1>2. CASE Skip(s, until) = s
  BY <1>2
<1>3. CASE Skip(s, until) # s
  <2>1. s.nr \in Nat /\ CacheOK(s.skipped) /\ ~(s.nr > until) /\ s.recvCK # NoKey
    BY <1>3 DEF Skip, ReceivingOK
  <2>2. until = s.nr
    BY <1>1, <2>1
  <2>3. CacheSkipped(s, until) = s.skipped
    BY <2>1, <2>2, CacheSkippedOK
  <2>4. Skip(s, until).skipped = CacheSkipped(s, until)
    BY <2>1 DEF Skip, ReceivingOK, Fields
  <2>. QED  BY <2>3, <2>4 DEF NoneSkipped
<1>. QED  BY <1>2, <1>3

LEMMA NoGap ==
  ASSUME NEW n \in Nat
  PROVE  n - n = 0 /\ ~(n - n > MaxSkip) /\ ~(n > n)
BY RatchetAssumption

\* The next message of the receiving chain.
LEMMA NextDecrypts ==
  ASSUME NEW s, ReceivingOK(s), IsState(s), NoneSkipped(s), NEW m, NEW fresh,
         m.dh = s.dhr, m.n = s.nr, s.recvCK # NoKey, m.key = s.recvCK
  PROVE  Decrypt(s, m, fresh) = Decryption(TRUE, Received(s)) /\ ~Ratchets(s, m)
<1>1. s.nr \in Nat /\ ~HasSkippedKey(s, m) /\ ~NeedsRatchet(s, m)
  BY DEF ReceivingOK, HasSkippedKey, HasKey, NoneSkipped, NeedsRatchet
<1>2. Ratcheted(s, m, fresh) = s /\ Skip(s, m.n) = s /\ ~SkipFails(s, m.n)
  BY <1>1, SkipNothing, NoGap DEF Ratcheted, SkipFails
<1>. QED  BY <1>1, <1>2 DEF Decrypt, Received, Ratchets

\* The first message of the chain that the peer's new key pair begins.
LEMMA TurnDecrypts ==
  ASSUME NEW s, ReceivingOK(s), IsState(s), NoneSkipped(s), s.dhs \in AllKeyPairs,
         NEW m, Header(m), NEW fresh \in AllKeyPairs,
         m.dh # s.dhr, m.pn = s.nr, m.n = 0, m.key = NewChain(s.root, DH(s.dhs, m.dh))
  PROVE  /\ Decrypt(s, m, fresh) = Decryption(TRUE, Received(DhRatchet(s, m.dh, fresh)))
         /\ Ratchets(s, m)
<1> DEFINE r == DhRatchet(s, m.dh, fresh)
<1>1. s.nr \in Nat /\ ~HasSkippedKey(s, m) /\ NeedsRatchet(s, m) /\ ~SkipFails(s, m.pn)
  BY NoGap DEF ReceivingOK, HasSkippedKey, HasKey, NoneSkipped, NeedsRatchet, SkipFails
<1>2. Ratcheted(s, m, fresh) = r
  BY <1>1, SkipNothing DEF Ratcheted
<1>3. ReceivingOK(r) /\ r.nr = 0 /\ r.recvCK = m.key /\ r.recvCK # NoKey
  BY DhRatchetFurther DEF Header, Further
<1>4. IsState(r)
  BY DEF DhRatchet, IsState, Fields, ReceivingOK
<1> HIDE DEF r
<1>5. Skip(r, m.n) = r /\ ~SkipFails(r, m.n)
  BY <1>3, <1>4, SkipNothing, NoGap DEF SkipFails
<1>. QED  BY <1>1, <1>2, <1>3, <1>5 DEF Decrypt, Received, Ratchets, r

\* A call that passes over a number opens nothing, or leaves what cannot be written out.
LEMMA LaterFails ==
  ASSUME NEW s, ReceivingOK(s), NoneSkipped(s), NEW m, Header(m), NEW fresh,
         m.dh = s.dhr, m.n > s.nr, s.recvCK # NoKey,
         Decrypt(s, m, fresh).ok
  PROVE  ~NoneSkipped(Decrypt(s, m, fresh).st)
<1> DEFINE k == Skip(s, m.n)
<1>1. ~HasSkippedKey(s, m) /\ ~NeedsRatchet(s, m) /\ Ratcheted(s, m, fresh) = s
  BY DEF HasSkippedKey, HasKey, NoneSkipped, NeedsRatchet, Ratcheted
<1>2. Decrypt(s, m, fresh).st = [k EXCEPT !.recvCK = Advance(@, 1), !.nr = @ + 1]
  BY <1>1 DEF Decrypt, Decryption
<1>3. ~NoneSkipped(k)
  <2>1. s.nr \in Nat /\ m.n \in Nat
    BY DEF ReceivingOK, Header
  <2>. QED  BY <2>1, SkipFills
<1>4. DOMAIN k = Fields
  BY SkipKeeps DEF ReceivingOK, SameSending
<1> HIDE DEF k
<1>5. Decrypt(s, m, fresh).st.skipped = k.skipped
  BY <1>2, <1>4 DEF Fields
<1>. QED  BY <1>3, <1>5 DEF NoneSkipped

LEMMA LaterTurnFails ==
  ASSUME NEW s, ReceivingOK(s), NoneSkipped(s), s.dhs \in AllKeyPairs,
         NEW m, Header(m), NEW fresh \in AllKeyPairs,
         m.dh # s.dhr, (m.pn > s.nr /\ s.recvCK # NoKey) \/ m.n > 0,
         Decrypt(s, m, fresh).ok
  PROVE  ~NoneSkipped(Decrypt(s, m, fresh).st)
<1> DEFINE j == Skip(s, m.pn)
           r == DhRatchet(j, m.dh, fresh)
           k == Skip(r, m.n)
<1>1. ~HasSkippedKey(s, m) /\ NeedsRatchet(s, m) /\ Ratcheted(s, m, fresh) = r
  BY DEF HasSkippedKey, HasKey, NoneSkipped, NeedsRatchet, Ratcheted
<1>2. Decrypt(s, m, fresh).st = [k EXCEPT !.recvCK = Advance(@, 1), !.nr = @ + 1]
  BY <1>1 DEF Decrypt, Decryption
<1>3. ReceivingOK(j) /\ j.dhs = s.dhs
  BY SkipFurther, SkipKeeps DEF Further, Header, ReceivingOK, SameSending
<1>3a. s.nr \in Nat /\ m.pn \in Nat /\ m.n \in Nat
  BY DEF ReceivingOK, Header
<1>4. NoneSkipped(j) => m.n > 0
  BY <1>3a, SkipFills
<1> HIDE DEF j
<1>5. ReceivingOK(r) /\ r.nr = 0 /\ r.recvCK # NoKey /\ r.skipped = j.skipped
  BY <1>3, DhRatchetFurther DEF Further, Header
<1> HIDE DEF r
<1>6. NoneSkipped(k) => m.n <= 0 /\ NoneSkipped(r)
  BY <1>3a, <1>5, SkipFills, SkipKeepsSkipped
<1>7. ~NoneSkipped(k)
  BY <1>3a, <1>4, <1>5, <1>6 DEF NoneSkipped
<1>8. DOMAIN k = Fields
  BY <1>5, SkipKeeps DEF ReceivingOK, SameSending
<1> HIDE DEF k
<1>9. Decrypt(s, m, fresh).st.skipped = k.skipped
  BY <1>2, <1>8 DEF Fields
<1>. QED  BY <1>7, <1>9 DEF NoneSkipped

-----------------------------------------------------------------------------
(* Between the calls a session lies in the caller's hands as a blob. *)

Blob(s) == SessionOK(s) /\ NoneSkipped(s)

LEMMA SealedType ==
  ASSUME NEW s, Blob(s), s.sendCK # NoKey
  PROVE  /\ Sealed(s) \in Message
         /\ Blob(AfterEncrypt(s))
         /\ AfterEncrypt(s).dhs = s.dhs
         /\ \A key : Gone(s, key) => Gone(AfterEncrypt(s), key)
<1>1. /\ Sealed(s) \in Message /\ SessionOK(AfterEncrypt(s))
      /\ \A f \in Fields \ {"ns", "sendCK"} : AfterEncrypt(s)[f] = s[f]
      /\ \A key : Gone(s, key) => Gone(AfterEncrypt(s), key)
  BY SealedRuns DEF Blob
<1>. QED  BY <1>1 DEF Blob, NoneSkipped, Fields

LEMMA ReceivedType ==
  ASSUME NEW s, Blob(s), s.recvCK # NoKey
  PROVE  LET t == Received(s)
         IN  /\ Blob(t) /\ Further(s, t) /\ Gone(t, s.recvCK) /\ Shifted(s, t, 1)
             /\ \A f \in Fields \ {"nr", "recvCK"} : t[f] = s[f]
<1>1. SessionOK(s)
  BY DEF Blob
<1>2. LET t == Received(s)
      IN  /\ SessionOK(t) /\ Further(s, t) /\ Gone(t, s.recvCK) /\ Shifted(s, t, 1)
          /\ \A f \in Fields \ {"nr", "recvCK"} : t[f] = s[f]
  BY <1>1, ReceivedRuns
<1>. QED  BY <1>2 DEF Blob, NoneSkipped, Fields

LEMMA AheadReads ==
  ASSUME NEW s, Blob(s), NEW u, Blob(u), NEW out \in Seq(Message), NEW in \in Seq(Message),
         NEW c \in Nat, NEW d \in Nat, Leads(s, u, out, in, c, d), c < Len(in)
  PROVE  Leads(Received(s), u, out, in, c + 1, d)
<1>1. s.recvCK # NoKey
  <2>1. Continues(in[c + 1], s, c + 1 - (c + 1))
    BY DEF Leads
  <2>. QED  BY <2>1 DEF Continues
<1>2. Shifted(s, Received(s), 1) /\ c + 1 <= Len(in) /\ 1 \in Nat
  BY <1>1, ReceivedType
<1>. QED  BY <1>2, AheadShifts DEF Blob

LEMMA BehindReads ==
  ASSUME NEW s, Blob(s), NEW u, Blob(u), NEW out \in Seq(Message), NEW in \in Seq(Message),
         NEW c \in Nat, NEW d \in Nat, Leads(s, u, out, in, c, d), d < d + (s.pn - u.nr)
  PROVE  Leads(s, Received(u), out, in, c, d + 1)
<1>1. u.recvCK # NoKey /\ u.nr \in Nat /\ s.pn \in Nat
  <2>1. Continues(out[d + 1], u, d + 1 - (d + 1))
    BY SMTT(30) DEF Leads, Blob, SessionOK, ReceivingOK
  <2>. QED  BY <2>1 DEF Continues, Blob, SessionOK, ReceivingOK
<1>2. Shifted(u, Received(u), 1) /\ 1 <= s.pn - u.nr /\ 1 \in Nat
  BY <1>1, ReceivedType
<1>. QED  BY <1>2, BehindShifts DEF Blob

LEMMA TurnTaken ==
  ASSUME NEW s, Blob(s), NEW u, Blob(u), NEW out \in Seq(Message), NEW in \in Seq(Message),
         NEW c \in Nat, NEW d \in Nat, Leads(s, u, out, in, c, d),
         s.pn = u.nr, d < Len(out), c <= Len(in),
         NEW fresh \in AllKeyPairs, fresh # s.dhr
  PROVE  LET v == Received(DhRatchet(u, s.dhs, fresh))
         IN  /\ Leads(v, s, in, out, d + 1, c)
             /\ Blob(v) /\ Further(u, v) /\ v.dhs = fresh
             /\ Gone(v, [chain |-> s.root, step |-> 0])
<1> DEFINE r == DhRatchet(u, s.dhs, fresh)
<1>1. /\ Leads(r, s, in, out, d, c) /\ SessionOK(r) /\ Further(u, r)
      /\ r.recvCK = [chain |-> s.root, step |-> 0] /\ r.recvCK # NoKey
      /\ r.dhs = fresh /\ r.skipped = u.skipped
  BY LeadTaken DEF Blob
<1> HIDE DEF r
<1>2. Blob(r)
  BY <1>1 DEF Blob, NoneSkipped
<1>3. Leads(Received(r), s, in, out, d + 1, c)
  BY <1>1, <1>2, AheadReads
<1>4. /\ Blob(Received(r)) /\ Further(r, Received(r)) /\ Gone(Received(r), r.recvCK)
      /\ Received(r).dhs = r.dhs
  BY <1>1, <1>2, ReceivedType DEF Fields
<1>5. Further(u, Received(r))
  BY <1>1, <1>4, FurtherTrans
<1>. QED  BY <1>1, <1>3, <1>4, <1>5 DEF r

-----------------------------------------------------------------------------
(* What the calls return *)

LEMMA CallSucceeds ==
  ASSUME NEW s, Blob(s), NEW m \in Message, NEW fresh \in AllKeyPairs
  PROVE  LET d == Decrypt(s, m, fresh)
         IN  DecryptCall(s, m, fresh) = "ok" <=> d.ok /\ NoneSkipped(d.st)
<1> DEFINE d == Decrypt(s, m, fresh)
<1>1. Header(m) /\ m.n \in Nat
  BY DEF Header, Message
<1>2. CacheOK(d.st.skipped)
  BY <1>1, DecryptFurther DEF Blob, SessionOK, Further, ReceivingOK
<1> HIDE DEF d
<1>3. Serializable(d.st) <=> NoneSkipped(d.st)
  BY <1>2, FS_EmptySet DEF Serializable, CacheLen, CacheOK, NoneSkipped
<1>. QED  BY <1>3 DEF DecryptCall, d

\* What has been read is not returned again.
LEMMA ReadCalls ==
  ASSUME NEW s, Blob(s), NEW m \in Message, NEW fresh \in AllKeyPairs, Gone(s, m.key)
  PROVE  DecryptCall(s, m, fresh) # "ok"
<1>1. Header(m)
  BY DEF Header, Message
<1>2. ~Decrypt(s, m, fresh).ok
  BY <1>1, GoneFails DEF Blob, SessionOK
<1>. QED  BY <1>2, CallSucceeds

LEMMA ContinuingCalls ==
  ASSUME NEW s, Blob(s), NEW m \in Message, NEW k \in Nat, Continues(m, s, k), NEW fresh \in AllKeyPairs
  PROVE  /\ k = 0 => /\ DecryptCall(s, m, fresh) = "ok" /\ ~Ratchets(s, m)
                     /\ Decrypt(s, m, fresh).st = Received(s) /\ m.key = s.recvCK /\ s.recvCK # NoKey
         /\ k # 0 => DecryptCall(s, m, fresh) # "ok"
<1>1. /\ ReceivingOK(s) /\ IsState(s) /\ NoneSkipped(s) /\ Header(m) /\ s.nr \in Nat
      /\ m.dh = s.dhr /\ m.n = s.nr + k /\ s.recvCK # NoKey /\ m.key = Advance(s.recvCK, k)
      /\ s.recvCK \in ChainKeys
  BY DEF Blob, SessionOK, Message, Header, Continues, ReceivingOK
<1>2. ASSUME k = 0
      PROVE  /\ DecryptCall(s, m, fresh) = "ok" /\ ~Ratchets(s, m)
             /\ Decrypt(s, m, fresh).st = Received(s) /\ m.key = s.recvCK
  <2>1. m.n = s.nr /\ m.key = s.recvCK
    BY <1>1, <1>2 DEF Advance, ChainKeys
  <2>2. Decrypt(s, m, fresh) = Decryption(TRUE, Received(s)) /\ ~Ratchets(s, m)
    BY <1>1, <2>1, NextDecrypts
  <2>3. NoneSkipped(Received(s))
    BY <1>1, ReceivedType DEF Blob, SessionOK
  <2>. QED  BY <2>1, <2>2, <2>3, CallSucceeds DEF Decryption
<1>3. ASSUME k # 0
      PROVE  DecryptCall(s, m, fresh) # "ok"
  <2>1. m.n > s.nr
    BY <1>1, <1>3
  <2>2. Decrypt(s, m, fresh).ok => ~NoneSkipped(Decrypt(s, m, fresh).st)
    BY <1>1, <2>1, LaterFails
  <2>. QED  BY <2>2, CallSucceeds
<1>. QED  BY <1>1, <1>2, <1>3

LEMMA TurningCalls ==
  ASSUME NEW u, Blob(u), NEW s, Blob(s), s.root = Append(u.root, DH(s.dhs, u.dhs)),
         u.dhr # s.dhs, u.nr <= s.pn, s.pn # u.nr => u.recvCK # NoKey,
         NEW m \in Message, NEW k \in Nat, OnChain(m, s, k), NEW fresh \in AllKeyPairs
  PROVE  /\ k = 0 /\ s.pn = u.nr =>
              /\ DecryptCall(u, m, fresh) = "ok" /\ Ratchets(u, m)
              /\ Decrypt(u, m, fresh).st = Received(DhRatchet(u, s.dhs, fresh))
         /\ k # 0 \/ s.pn # u.nr => DecryptCall(u, m, fresh) # "ok"
<1>1. /\ ReceivingOK(u) /\ IsState(u) /\ NoneSkipped(u) /\ Header(m) /\ u.nr \in Nat /\ s.pn \in Nat
      /\ m.dh = s.dhs /\ m.pn = s.pn /\ m.n = k /\ m.key = [chain |-> s.root, step |-> k]
      /\ u.dhs \in AllKeyPairs /\ s.dhs \in AllKeyPairs
  BY DEF Blob, SessionOK, Message, Header, OnChain, ReceivingOK
<1>2. ASSUME k = 0, s.pn = u.nr
      PROVE  /\ DecryptCall(u, m, fresh) = "ok" /\ Ratchets(u, m)
             /\ Decrypt(u, m, fresh).st = Received(DhRatchet(u, s.dhs, fresh))
  <2> DEFINE r == DhRatchet(u, s.dhs, fresh)
  <2>1. m.key = NewChain(u.root, DH(u.dhs, m.dh))
    <3>1. DH(u.dhs, s.dhs) = DH(s.dhs, u.dhs)
      BY DEF DH
    <3>. QED  BY <1>1, <1>2, <3>1 DEF NewChain
  <2>2. Decrypt(u, m, fresh) = Decryption(TRUE, Received(r)) /\ Ratchets(u, m)
    BY <1>1, <1>2, <2>1, TurnDecrypts
  <2>3. DOMAIN r = Fields /\ r.skipped = u.skipped
    BY <1>1 DEF DhRatchet, ReceivingOK, Fields
  <2> HIDE DEF r
  <2>4. NoneSkipped(Received(r))
    BY <1>1, <2>3 DEF Received, NoneSkipped, Fields
  <2>. QED  BY <2>2, <2>4, CallSucceeds DEF Decryption, r
<1>3. ASSUME k # 0 \/ s.pn # u.nr
      PROVE  DecryptCall(u, m, fresh) # "ok"
  <2>1. (m.pn > u.nr /\ u.recvCK # NoKey) \/ m.n > 0
    BY <1>1, <1>3
  <2>2. Decrypt(u, m, fresh).ok => ~NoneSkipped(Decrypt(u, m, fresh).st)
    BY <1>1, <2>1, LaterTurnFails
  <2>. QED  BY <2>2, CallSucceeds
<1>. QED  BY <1>2, <1>3

\* The party that is ahead reads the messages of the other in their order.
LEMMA AheadCalls ==
  ASSUME NEW s, Blob(s), NEW u, Blob(u), NEW out \in Seq(Message), NEW in \in Seq(Message),
         NEW c \in Nat, NEW d \in Nat, Leads(s, u, out, in, c, d),
         NEW i \in c + 1 .. Len(in), NEW fresh \in AllKeyPairs
  PROVE  /\ i = c + 1 => /\ DecryptCall(s, in[i], fresh) = "ok" /\ ~Ratchets(s, in[i])
                         /\ Decrypt(s, in[i], fresh).st = Received(s)
                         /\ in[i].key = s.recvCK /\ s.recvCK # NoKey
         /\ i # c + 1 => DecryptCall(s, in[i], fresh) # "ok"
<1>1. Continues(in[i], s, i - (c + 1)) /\ i - (c + 1) \in Nat /\ (i = c + 1 <=> i - (c + 1) = 0)
  BY DEF Leads
<1>2. i \in DOMAIN in
  OBVIOUS
<1>3. in[i] \in Message
  BY <1>2, ElementType
<1>. QED  BY <1>1, <1>3, ContinuingCalls

\* So does the party that is behind: first those of the chain it receives on, then, with
\* a ratchet, the first of the next.
LEMMA BehindCalls ==
  ASSUME NEW s, Blob(s), NEW u, Blob(u), NEW out \in Seq(Message), NEW in \in Seq(Message),
         NEW c \in Nat, NEW d \in Nat, Leads(s, u, out, in, c, d),
         NEW i \in d + 1 .. Len(out), NEW fresh \in AllKeyPairs
  PROVE  /\ i = d + 1 /\ s.pn # u.nr =>
              /\ d < d + (s.pn - u.nr)
              /\ DecryptCall(u, out[i], fresh) = "ok" /\ ~Ratchets(u, out[i])
              /\ Decrypt(u, out[i], fresh).st = Received(u)
              /\ out[i].key = u.recvCK /\ u.recvCK # NoKey
         /\ i = d + 1 /\ s.pn = u.nr =>
              /\ DecryptCall(u, out[i], fresh) = "ok" /\ Ratchets(u, out[i])
              /\ Decrypt(u, out[i], fresh).st = Received(DhRatchet(u, s.dhs, fresh))
              /\ out[i].key = [chain |-> s.root, step |-> 0]
         /\ i # d + 1 => DecryptCall(u, out[i], fresh) # "ok"
<1> DEFINE old == d + (s.pn - u.nr)
<1>1. i \in DOMAIN out
  OBVIOUS
<1>2. out[i] \in Message
  BY <1>1, ElementType
<1>3. /\ s.pn \in Nat /\ u.nr \in Nat /\ u.nr <= s.pn /\ u.dhr # s.dhs
      /\ s.root = Append(u.root, DH(s.dhs, u.dhs)) /\ Len(out) \in Nat
  BY DEF Blob, SessionOK, ReceivingOK, Leads
<1>4. s.pn # u.nr => u.recvCK # NoKey
  <2>1. s.pn # u.nr => d + 1 \in d + 1 .. old
    BY <1>3
  <2>. QED  BY <2>1 DEF Leads, Continues
<1>5. CASE i \in d + 1 .. old
  <2>1. Continues(out[i], u, i - (d + 1))
    BY <1>5 DEF Leads
  <2>2. i - (d + 1) \in Nat /\ (i = d + 1 <=> i - (d + 1) = 0) /\ s.pn # u.nr /\ d < d + (s.pn - u.nr)
    BY <1>3, <1>5
  <2>. QED  BY <1>2, <2>1, <2>2, ContinuingCalls
<1>6. CASE i \in old + 1 .. Len(out)
  <2>1. OnChain(out[i], s, i - (old + 1))
    BY <1>6 DEF Leads
  <2>2. /\ i - (old + 1) \in Nat
        /\ i = d + 1 => s.pn = u.nr /\ i - (old + 1) = 0
        /\ i # d + 1 => i - (old + 1) # 0 \/ s.pn # u.nr
    BY SMTT(30), <1>3, <1>6
  <2>3. i = d + 1 => out[i].key = [chain |-> s.root, step |-> 0]
    BY <2>1, <2>2 DEF OnChain
  <2> DEFINE k == i - (old + 1)
             m == out[i]
  <2>4. k \in Nat /\ OnChain(m, s, k) /\ m \in Message
    BY <1>2, <2>1, <2>2
  <2> HIDE DEF k, m
  <2>5. /\ k = 0 /\ s.pn = u.nr =>
             /\ DecryptCall(u, m, fresh) = "ok" /\ Ratchets(u, m)
             /\ Decrypt(u, m, fresh).st = Received(DhRatchet(u, s.dhs, fresh))
        /\ k # 0 \/ s.pn # u.nr => DecryptCall(u, m, fresh) # "ok"
    BY <1>3, <1>4, <2>4, TurningCalls
  <2>6. /\ i = d + 1 => s.pn = u.nr /\ k = 0
        /\ i # d + 1 => k # 0 \/ s.pn # u.nr
    BY <2>2 DEF k
  <2>. QED  BY <2>3, <2>5, <2>6 DEF m
<1>. QED  BY <1>3, <1>5, <1>6

-----------------------------------------------------------------------------
(* The inductive invariant *)

\* The first n messages, in the order of sending.
FirstOnes(n) == [k \in 1 .. n |-> k]

LEMMA FirstOnesFacts ==
  ASSUME NEW n \in Nat
  PROVE  /\ FirstOnes(n) \in Seq(1 .. n) /\ Len(FirstOnes(n)) = n /\ DOMAIN FirstOnes(n) = 1 .. n
         /\ \A k \in 1 .. n : FirstOnes(n)[k] = k
         /\ ToSet(FirstOnes(n)) = 1 .. n
         /\ Append(FirstOnes(n), n + 1) = FirstOnes(n + 1)
<1>1. FirstOnes(n) \in Seq(1 .. n) /\ Len(FirstOnes(n)) = n /\ DOMAIN FirstOnes(n) = 1 .. n
  BY DEF FirstOnes
<1>2. \A k \in 1 .. n : FirstOnes(n)[k] = k
  BY DEF FirstOnes
<1>3. ToSet(FirstOnes(n)) = 1 .. n
  BY <1>1, <1>2 DEF ToSet
<1>4. Append(FirstOnes(n), n + 1) = FirstOnes(n + 1)
  BY DEF FirstOnes
<1>. QED  BY <1>1, <1>2, <1>3, <1>4

Count(p) == Len(released[p])

Ahead(p) ==
  Leads(session[p], session[Peer(p)], sent[p], sent[Peer(p)], Count(p), Count(Peer(p)))

PartyOK(p) ==
  /\ Blob(session[p]) /\ session[p].dhs \in Known(generated)
  /\ sent[p] \in Seq(Message)
  /\ Count(p) \in Nat /\ released[p] = FirstOnes(Count(p)) /\ Count(p) <= Len(sent[Peer(p)])
  /\ \A i \in 1 .. Count(p) : Gone(session[p], sent[Peer(p)][i].key)

NativeInv ==
  /\ outcome \in {"ok", "err", "panic"}
  /\ failedCalls \in 0 .. MaxFailures
  /\ generated \in [Party -> Nat]
  /\ session = [p \in Party |-> session[p]]
  /\ sent = [p \in Party |-> sent[p]]
  /\ released = [p \in Party |-> released[p]]
  /\ \A p \in Party : PartyOK(p)
  /\ \E p \in Party : Ahead(p)

LEMMA FreshPair ==
  ASSUME generated \in [Party -> Nat], NEW p \in Party
  PROVE  Fresh(p) \in AllKeyPairs /\ Fresh(p) \notin Known(generated)
BY DEF Fresh, KeyPair, AllKeyPairs, Known

LEMMA InitNativeInv == Init => NativeInv
<1> SUFFICES ASSUME Init PROVE NativeInv
  OBVIOUS
<1> DEFINE a == KeyPair("alice", 1)
           b == KeyPair("bob", 0)
           s == session["alice"]
           u == session["bob"]
<1>1. /\ generated = [p \in Party |-> IF p = "alice" THEN 1 ELSE 0] /\ generated \in [Party -> Nat]
      /\ failedCalls \in 0 .. MaxFailures /\ outcome = "ok"
      /\ session = [p \in Party |-> session[p]] /\ sent = [p \in Party |-> sent[p]]
      /\ released = [p \in Party |-> released[p]]
      /\ \A p \in Party : sent[p] = << >> /\ released[p] = << >>
  BY BoundsAssumption DEF Init, InitialKeyPairs, InitialState
<1>2. a \in Known(generated) /\ b \in Known(generated) /\ a \in AllKeyPairs /\ b \in AllKeyPairs
  BY <1>1 DEF Known, AllKeyPairs, KeyPair, Party
<1>3. s = InitSender(a, b) /\ u = InitReceiver(b)
  BY DEF Init, InitialState, Party
<1> HIDE DEF a, b
<1>4. DH(a, b) \in SUBSET AllKeyPairs /\ << >> \in Seq(SUBSET AllKeyPairs)
  BY <1>2 DEF DH
<1>5. /\ s.root = Append(<< >>, DH(a, b)) /\ s.sendCK = [chain |-> Append(<< >>, DH(a, b)), step |-> 0]
      /\ s.recvCK = NoKey /\ s.dhs = a /\ s.dhr = b /\ s.ns = 0 /\ s.nr = 0 /\ s.pn = 0
      /\ s.skipped = EmptyCache /\ IsState(s)
  BY <1>3 DEF InitSender, MixRoot, NewChain, IsState, Fields
<1>6. /\ u.root = << >> /\ u.sendCK = NoKey
      /\ u.recvCK = NoKey /\ u.dhs = b /\ u.dhr = NoKey /\ u.ns = 0 /\ u.nr = 0 /\ u.pn = 0
      /\ u.skipped = EmptyCache /\ IsState(u)
  BY <1>3 DEF InitReceiver, IsState, Fields
<1> HIDE DEF s, u
<1>7. s.root \in Seq(SUBSET AllKeyPairs) /\ s.sendCK # NoKey
  <2>1. s.root \in Seq(SUBSET AllKeyPairs)
    BY <1>4, <1>5
  <2>2. s.sendCK \in ChainKeys
    BY <1>5, <2>1 DEF ChainKeys
  <2>. QED  BY <2>1, <2>2, NoKeyIsNone
<1>8. Blob(s)
  <2>1. DOMAIN s = Fields
    BY <1>5 DEF IsState
  <2>. QED  BY <1>2, <1>5, <1>7, <2>1, EmptyCacheOK DEF Blob, SessionOK, ReceivingOK, NoneSkipped
<1>9. Blob(u)
  <2>1. DOMAIN u = Fields
    BY <1>6 DEF IsState
  <2>. QED  BY <1>2, <1>4, <1>6, <2>1, EmptyCacheOK DEF Blob, SessionOK, ReceivingOK, NoneSkipped
<1>10. Len(<< >>) = 0 /\ FirstOnes(0) = << >>
  BY DEF FirstOnes
<1>11. Leads(s, u, << >>, << >>, 0, 0)
  <2>1. NoKey # a
    BY <1>2, NoKeyIsNone
  <2>2. 0 + (s.pn - u.nr) = 0 /\ Len(<< >>) = 0 /\ u.ns = s.nr + (0 - 0) /\ s.ns = 0 - 0 /\ u.nr <= s.pn
    BY <1>5, <1>6
  <2>3. 0 + 1 .. 0 = {}
    OBVIOUS
  <2>. QED  BY <1>5, <1>6, <1>7, <2>1, <2>2, <2>3 DEF Leads
<1>12. Ahead("alice")
  BY <1>1, <1>10, <1>11 DEF Ahead, Count, Party, Peer, s, u
<1>13. \A p \in Party : PartyOK(p)
  <2> TAKE p \in Party
  <2>1. /\ Blob(session[p]) /\ session[p].dhs \in Known(generated)
    BY <1>2, <1>5, <1>6, <1>8, <1>9 DEF Party, s, u
  <2>2. /\ sent[p] = << >> /\ Count(p) = 0 /\ released[p] = FirstOnes(0) /\ sent[Peer(p)] = << >>
        /\ << >> \in Seq(Message)
    <3>1. sent[p] = << >> /\ sent[Peer(p)] = << >> /\ released[p] = << >>
      BY <1>1, PeerFacts
    <3>2. Count(p) = 0
      BY <1>10, <3>1 DEF Count
    <3>. QED  BY <1>10, <3>1, <3>2
  <2>. QED  BY <2>1, <2>2 DEF PartyOK
<1>. QED  BY <1>1, <1>12, <1>13 DEF NativeInv, Party

\* A call of ratchet_decrypt that succeeds is given the next message.
LEMMA DecryptStep ==
  ASSUME NativeInv, NEW p \in Party, NEW i \in DOMAIN sent[Peer(p)],
         DecryptCall(session[p], sent[Peer(p)][i], Fresh(p)) = "ok"
  PROVE  LET q == Peer(p)
             m == sent[q][i]
             t == Decrypt(session[p], m, Fresh(p)).st
         IN  /\ i = Count(p) + 1
             /\ Blob(t) /\ Further(session[p], t) /\ Gone(t, m.key)
             /\ t.dhs = IF Ratchets(session[p], m) THEN Fresh(p) ELSE session[p].dhs
             /\ \/ Leads(t, session[q], sent[p], sent[q], Count(p) + 1, Count(q))
                \/ Leads(session[q], t, sent[q], sent[p], Count(q), Count(p) + 1)
<1> DEFINE q == Peer(p)
           m == sent[q][i]
           s == session[p]
           u == session[q]
           t == Decrypt(s, m, Fresh(p)).st
           c == Count(p)
           d == Count(q)
<1>1. q \in Party /\ Peer(q) = p /\ Party = {p, q}
  BY PeerFacts
<1>2. /\ Blob(s) /\ Blob(u) /\ sent[p] \in Seq(Message) /\ sent[q] \in Seq(Message)
      /\ c \in Nat /\ d \in Nat /\ c <= Len(sent[q]) /\ d <= Len(sent[p])
      /\ \A j \in 1 .. c : Gone(s, sent[q][j].key)
      /\ s.dhs \in Known(generated)
  BY <1>1 DEF NativeInv, PartyOK
<1>3. Fresh(p) \in AllKeyPairs /\ Fresh(p) \notin Known(generated)
  BY FreshPair DEF NativeInv
<1>4. i \in 1 .. Len(sent[q]) /\ m \in Message
  <2>1. i \in DOMAIN sent[q]
    OBVIOUS
  <2> HIDE DEF q
  <2>. QED  BY <1>2, <2>1, ElementType
<1>5. DecryptCall(s, m, Fresh(p)) = "ok"
  OBVIOUS
<1>6. Ahead(p) \/ Ahead(q)
  BY <1>1 DEF NativeInv
<1>7. Ahead(p) => Leads(s, u, sent[p], sent[q], c, d)
  BY DEF Ahead
<1>8. Ahead(q) => Leads(u, s, sent[q], sent[p], d, c)
  BY <1>1 DEF Ahead
<1> DEFINE out == sent[p]
           in == sent[q]
<1> HIDE DEF s, u, c, d, q
<1>9. i \in c + 1 .. Len(in)
  <2>1. i \notin 1 .. c
    BY <1>2, <1>3, <1>4, <1>5, ReadCalls
  <2>. QED  BY <1>2, <1>4, <2>1
<1> HIDE DEF out, in
<1>10. CASE Ahead(p)
  <2>1. /\ out \in Seq(Message) /\ in \in Seq(Message) /\ Leads(s, u, out, in, c, d) /\ m = in[i]
    BY <1>2, <1>7, <1>10 DEF out, in
  <2> HIDE DEF m, t
  <2>2. /\ i = c + 1 /\ ~Ratchets(s, m) /\ t = Received(s) /\ m.key = s.recvCK /\ s.recvCK # NoKey
    BY <1>2, <1>3, <1>5, <1>9, <2>1, AheadCalls DEF t
  <2>3. c < Len(in)
    BY <1>2, <1>9, <2>2
  <2>4. Leads(t, u, out, in, c + 1, d)
    BY <1>2, <2>1, <2>2, <2>3, AheadReads
  <2>5. Blob(t) /\ Further(s, t) /\ Gone(t, m.key) /\ t.dhs = s.dhs
    BY <1>2, <2>2, ReceivedType DEF Fields
  <2>. QED  BY <2>2, <2>4, <2>5 DEF m, t, c, d, q, s, u, out, in
<1>11. CASE Ahead(q)
  <2>1. /\ out \in Seq(Message) /\ in \in Seq(Message) /\ Leads(u, s, in, out, d, c) /\ m = in[i]
    BY <1>2, <1>8, <1>11 DEF out, in
  <2> HIDE DEF m, t
  <2>1a. /\ i = c + 1 /\ u.pn # s.nr =>
              /\ c < c + (u.pn - s.nr)
              /\ DecryptCall(s, in[i], Fresh(p)) = "ok" /\ ~Ratchets(s, in[i])
              /\ Decrypt(s, in[i], Fresh(p)).st = Received(s)
              /\ in[i].key = s.recvCK /\ s.recvCK # NoKey
         /\ i = c + 1 /\ u.pn = s.nr =>
              /\ DecryptCall(s, in[i], Fresh(p)) = "ok" /\ Ratchets(s, in[i])
              /\ Decrypt(s, in[i], Fresh(p)).st = Received(DhRatchet(s, u.dhs, Fresh(p)))
              /\ in[i].key = [chain |-> u.root, step |-> 0]
         /\ i # c + 1 => DecryptCall(s, in[i], Fresh(p)) # "ok"
    BY <1>2, <1>3, <1>9, <2>1, BehindCalls
  <2>2. i = c + 1
    BY <1>5, <2>1, <2>1a
  <2>3. c < Len(in)
    BY <1>2, <1>9, <2>2
  <2>4. CASE u.pn # s.nr
    <3>1. /\ ~Ratchets(s, m) /\ t = Received(s) /\ m.key = s.recvCK /\ s.recvCK # NoKey
          /\ c < c + (u.pn - s.nr)
      BY <2>1, <2>1a, <2>2, <2>4 DEF t
    <3>2. Leads(u, t, in, out, d, c + 1)
      BY <1>2, <2>1, <3>1, BehindReads
    <3>3. Blob(t) /\ Further(s, t) /\ Gone(t, m.key) /\ t.dhs = s.dhs
      BY <1>2, <3>1, ReceivedType DEF Fields
    <3>. QED  BY <2>2, <3>1, <3>2, <3>3 DEF m, t, c, d, q, s, u, out, in
  <2>5. CASE u.pn = s.nr
    <3>1. /\ Ratchets(s, m) /\ t = Received(DhRatchet(s, u.dhs, Fresh(p)))
          /\ m.key = [chain |-> u.root, step |-> 0]
      BY <2>1, <2>1a, <2>2, <2>5 DEF t
    <3>2. Fresh(p) # u.dhr
      BY <1>2, <1>3, <2>1 DEF Leads
    <3>3. d <= Len(out)
      BY <1>2 DEF out
    <3>4. /\ Leads(t, u, out, in, c + 1, d) /\ Blob(t) /\ Further(s, t) /\ t.dhs = Fresh(p)
          /\ Gone(t, m.key)
      BY <1>2, <1>3, <2>1, <2>3, <2>5, <3>1, <3>2, <3>3, TurnTaken
    <3>. QED  BY <2>2, <3>1, <3>4 DEF m, t, c, d, q, s, u, out, in
  <2>. QED  BY <2>4, <2>5
<1>. QED  BY <1>6, <1>10, <1>11

LEMMA FailKeeps ==
  ASSUME NativeInv, NEW result \in {"err", "panic"}, Fail(result)
  PROVE  NativeInv'
<1>1. /\ session' = session /\ generated' = generated /\ sent' = sent /\ released' = released
      /\ outcome' = result /\ failedCalls' \in 0 .. MaxFailures
  BY BoundsAssumption DEF Fail, NativeInv
<1>2. \A p \in Party : PartyOK(p)'
  BY <1>1 DEF NativeInv, PartyOK, Count
<1>3. \E p \in Party : Ahead(p)'
  BY <1>1 DEF NativeInv, Ahead, Count
<1>. QED  BY <1>1, <1>2, <1>3 DEF NativeInv

LEMMA EncryptNativeInv ==
  ASSUME NativeInv, NEW p \in Party, RatchetEncrypt(p)
  PROVE  NativeInv'
<1>1. CASE EncryptCall(session[p]) # "ok" /\ Fail(EncryptCall(session[p]))
  <2>1. EncryptCall(session[p]) \in {"err", "panic"}
    BY <1>1 DEF EncryptCall
  <2>. QED  BY <1>1, <2>1, FailKeeps
<1>2. CASE EncryptCall(session[p]) = "ok"
  <2> DEFINE q == Peer(p)
             s == session[p]
             t == AfterEncrypt(s)
             msg == Sealed(s)
  <2>1. q \in Party /\ q # p /\ Peer(q) = p /\ Party = {p, q}
    BY PeerFacts
  <2>2. s.sendCK # NoKey
    BY <1>2 DEF EncryptCall, CanEncrypt
  <2>3. PartyOK(p) /\ PartyOK(q)
    BY <2>1 DEF NativeInv
  <2>4. /\ session'[p] = t /\ session'[q] = session[q]
        /\ session' = [r \in Party |-> session'[r]]
        /\ sent'[p] = Append(sent[p], msg) /\ sent'[q] = sent[q]
        /\ sent' = [r \in Party |-> sent'[r]]
        /\ generated' = generated /\ released' = released /\ failedCalls' = failedCalls
        /\ outcome' = "ok"
    BY <1>2, <2>1 DEF RatchetEncrypt, NativeInv
  <2>5. /\ msg \in Message /\ Blob(t) /\ t.dhs = s.dhs
        /\ \A key : Gone(s, key) => Gone(t, key)
    BY <2>2, <2>3, SealedType DEF PartyOK, Fields
  <2>6. \A r : Count(r)' = Count(r) /\ Known(generated)' = Known(generated)
    BY <2>4 DEF Count, Known
  <2>7. /\ sent[p] \in Seq(Message) /\ sent[q] \in Seq(Message)
        /\ Count(p) \in Nat /\ Count(q) \in Nat /\ Count(p) <= Len(sent[q]) /\ Count(q) <= Len(sent[p])
        /\ Blob(s) /\ Blob(session[q])
    BY <2>1, <2>3 DEF PartyOK
  <2> HIDE DEF msg, t, s, q
  <2>8. /\ sent'[p] \in Seq(Message) /\ Len(sent'[p]) = Len(sent[p]) + 1
        /\ \A i \in 1 .. Len(sent[p]) : sent'[p][i] = sent[p][i]
    BY <2>4, <2>5, <2>7
  <2>9. PartyOK(p)'
    <3>1. /\ s.dhs \in Known(generated) /\ released[p] = FirstOnes(Count(p))
          /\ \A i \in 1 .. Count(p) : Gone(s, sent[q][i].key)
      BY <2>3 DEF PartyOK, s, q
    <3>2. /\ Blob(session'[p]) /\ session'[p].dhs \in Known(generated') /\ sent'[p] \in Seq(Message)
          /\ Count(p)' \in Nat /\ released'[p] = FirstOnes(Count(p)') /\ Count(p)' <= Len(sent'[q])
          /\ \A i \in 1 .. Count(p)' : Gone(session'[p], sent'[q][i].key)
      BY <2>4, <2>5, <2>6, <2>7, <2>8, <3>1
    <3>. QED  BY <3>2 DEF PartyOK, q
  <2>10. PartyOK(q)'
    <3>1. /\ session[q].dhs \in Known(generated) /\ released[q] = FirstOnes(Count(q))
          /\ \A i \in 1 .. Count(q) : Gone(session[q], sent[p][i].key)
      BY <2>1, <2>3 DEF PartyOK
    <3>2. \A i \in 1 .. Count(q) : i \in 1 .. Len(sent[p])
      BY <2>7
    <3>3. Count(q)' <= Len(sent'[p])
      BY <2>6, <2>7, <2>8
    <3>4. /\ Blob(session'[q]) /\ session'[q].dhs \in Known(generated') /\ sent'[q] \in Seq(Message)
          /\ Count(q)' \in Nat /\ released'[q] = FirstOnes(Count(q)')
          /\ \A i \in 1 .. Count(q)' : Gone(session'[q], sent'[p][i].key)
      BY <2>4, <2>6, <2>7, <2>8, <3>1, <3>2
    <3>. QED  BY <2>1, <3>3, <3>4 DEF PartyOK
  <2>11. \E r \in Party : Ahead(r)'
    <3>1. CASE Ahead(p)
      <4>1. Leads(s, session[q], sent[p], sent[q], Count(p), Count(q))
        BY <3>1 DEF Ahead, s, q
      <4>2. Leads(t, session[q], Append(sent[p], msg), sent[q], Count(p), Count(q))
        BY <2>7, <4>1, AheadSends DEF t, msg, Blob
      <4>3. Ahead(p)'
        BY <2>4, <2>6, <4>2 DEF Ahead, q
      <4>. QED  BY <4>3
    <3>2. CASE Ahead(q)
      <4>1. Leads(session[q], s, sent[q], sent[p], Count(q), Count(p))
        BY <2>1, <3>2 DEF Ahead, s
      <4>2. Leads(session[q], t, sent[q], Append(sent[p], msg), Count(q), Count(p))
        BY <2>2, <2>7, <4>1, BehindSends DEF t, msg, Blob
      <4>3. Ahead(q)'
        BY <2>1, <2>4, <2>6, <4>2 DEF Ahead
      <4>. QED  BY <2>1, <4>3
    <3>. QED  BY <2>1, <3>1, <3>2 DEF NativeInv
  <2>. QED  BY <2>1, <2>4, <2>9, <2>10, <2>11 DEF NativeInv
<1>. QED  BY <1>1, <1>2 DEF RatchetEncrypt

LEMMA DecryptNativeInv ==
  ASSUME NativeInv, NEW p \in Party, NEW i \in DOMAIN sent[Peer(p)], RatchetDecrypt(p, i)
  PROVE  NativeInv'
<1> DEFINE q == Peer(p)
           m == sent[q][i]
           s == session[p]
           result == DecryptCall(s, m, Fresh(p))
<1>1. CASE result # "ok"
  <2>1. result \in {"err", "panic"}
    BY <1>1 DEF DecryptCall
  <2>2. Fail(result)
    BY <1>1 DEF RatchetDecrypt
  <2>. QED  BY <2>1, <2>2, FailKeeps
<1>2. CASE result = "ok"
  <2> DEFINE t == Decrypt(s, m, Fresh(p)).st
             c == Count(p)
             n == IF Ratchets(s, m) THEN generated[p] + 1 ELSE generated[p]
  <2>1. q \in Party /\ q # p /\ Peer(q) = p /\ Party = {p, q}
    BY PeerFacts
  <2>2. PartyOK(p) /\ PartyOK(q) /\ generated \in [Party -> Nat]
    BY <2>1 DEF NativeInv
  <2>3. /\ i = c + 1
        /\ Blob(t) /\ Further(s, t) /\ Gone(t, m.key)
        /\ t.dhs = IF Ratchets(s, m) THEN Fresh(p) ELSE s.dhs
        /\ \/ Leads(t, session[q], sent[p], sent[q], c + 1, Count(q))
           \/ Leads(session[q], t, sent[q], sent[p], Count(q), c + 1)
    BY <1>2, DecryptStep
  <2>4. /\ session'[p] = t /\ session'[q] = session[q]
        /\ session' = [r \in Party |-> session'[r]]
        /\ released'[p] = Append(released[p], i) /\ released'[q] = released[q]
        /\ released' = [r \in Party |-> released'[r]]
        /\ generated' = [generated EXCEPT ![p] = IF Ratchets(s, m) THEN @ + 1 ELSE @]
        /\ sent' = sent /\ failedCalls' = failedCalls /\ outcome' = "ok"
    BY <1>2, <2>1 DEF RatchetDecrypt, NativeInv
  <2>5. i \in DOMAIN sent[q]
    OBVIOUS
  <2> HIDE DEF t, m, s, q, result
  <2>6. /\ sent[p] \in Seq(Message) /\ sent[q] \in Seq(Message)
        /\ c \in Nat /\ Count(q) \in Nat /\ c <= Len(sent[q]) /\ Count(q) <= Len(sent[p])
        /\ s.dhs \in Known(generated) /\ released[p] = FirstOnes(c)
        /\ \A j \in 1 .. c : Gone(s, sent[q][j].key)
        /\ Blob(session[q]) /\ session[q].dhs \in Known(generated) /\ released[q] = FirstOnes(Count(q))
        /\ \A j \in 1 .. Count(q) : Gone(session[q], sent[p][j].key)
    BY <2>1, <2>2 DEF PartyOK, q, s
  <2>7. /\ generated' \in [Party -> Nat] /\ Known(generated) \subseteq Known(generated')
        /\ Ratchets(s, m) => Fresh(p) \in Known(generated')
    <3>1. /\ generated' \in [Party -> Nat]
          /\ \A r \in Party : generated[r] \in Nat /\ generated'[r] \in Nat /\ generated[r] <= generated'[r]
          /\ Ratchets(s, m) => generated'[p] = generated[p] + 1
      BY <2>2, <2>4
    <3>2. Known(generated) \subseteq Known(generated')
      <4>1. \A k \in AllKeyPairs : k[1] \in Party /\ k[2] \in Nat
        BY DEF AllKeyPairs
      <4>2. \A k \in AllKeyPairs : k[2] <= generated[k[1]] => k[2] <= generated'[k[1]]
        BY <3>1, <4>1
      <4>. QED  BY <4>2 DEF Known
    <3>3. Ratchets(s, m) => Fresh(p) \in Known(generated')
      <4>1. Fresh(p) = <<p, generated[p] + 1>> /\ Fresh(p) \in AllKeyPairs
        BY <2>2, FreshPair DEF Fresh, KeyPair
      <4>2. Ratchets(s, m) => Fresh(p)[2] <= generated'[Fresh(p)[1]]
        BY <3>1, <4>1
      <4>. QED  BY <4>1, <4>2 DEF Known
    <3>. QED  BY <3>1, <3>2, <3>3
  <2>8. /\ released'[p] = FirstOnes(c + 1) /\ Count(p)' = c + 1 /\ Count(q)' = Count(q)
    <3>1. released'[p] = FirstOnes(c + 1)
      BY <2>3, <2>4, <2>6, FirstOnesFacts
    <3>2. Len(FirstOnes(c + 1)) = c + 1
      <4>1. c + 1 \in Nat
        BY <2>6
      <4>. QED  BY <4>1, FirstOnesFacts
    <3>. QED  BY <2>4, <3>1, <3>2 DEF Count
  <2>9. c + 1 <= Len(sent[q])
    BY <2>3, <2>5, <2>6
  <2>10. PartyOK(p)'
    <3>1. session'[p].dhs \in Known(generated')
      BY <2>3, <2>4, <2>6, <2>7
    <3>2. \A j \in 1 .. c + 1 : Gone(session'[p], sent'[q][j].key)
      <4>1. \A j \in 1 .. c + 1 : j \in 1 .. c \/ j = i
        BY <2>3, <2>6
      <4>. QED  BY <2>3, <2>4, <2>6, <4>1 DEF Further, m
    <3>3. /\ Blob(session'[p]) /\ session'[p].dhs \in Known(generated') /\ sent'[p] \in Seq(Message)
          /\ Count(p)' \in Nat /\ released'[p] = FirstOnes(Count(p)') /\ Count(p)' <= Len(sent'[q])
          /\ \A j \in 1 .. Count(p)' : Gone(session'[p], sent'[q][j].key)
      BY <2>3, <2>4, <2>6, <2>8, <2>9, <3>1, <3>2
    <3>. QED  BY <3>3 DEF PartyOK, q
  <2>11. PartyOK(q)'
    <3>1. /\ Blob(session'[q]) /\ session'[q].dhs \in Known(generated') /\ sent'[q] \in Seq(Message)
          /\ Count(q)' \in Nat /\ released'[q] = FirstOnes(Count(q)') /\ Count(q)' <= Len(sent'[p])
          /\ \A j \in 1 .. Count(q)' : Gone(session'[q], sent'[p][j].key)
      BY <2>4, <2>6, <2>7, <2>8
    <3>. QED  BY <2>1, <3>1 DEF PartyOK
  <2>12. Ahead(p)' \/ Ahead(q)'
    <3>1. CASE Leads(t, session[q], sent[p], sent[q], c + 1, Count(q))
      <4>1. Ahead(p)'
        BY <2>4, <2>8, <3>1 DEF Ahead, q
      <4>. QED  BY <4>1
    <3>2. CASE Leads(session[q], t, sent[q], sent[p], Count(q), c + 1)
      <4>1. Ahead(q)'
        BY <2>1, <2>4, <2>8, <3>2 DEF Ahead
      <4>. QED  BY <4>1
    <3>. QED  BY <2>3, <3>1, <3>2
  <2>13. /\ sent' = [r \in Party |-> sent'[r]] /\ failedCalls' \in 0 .. MaxFailures
    BY <2>4 DEF NativeInv
  <2>. QED  BY <2>1, <2>4, <2>7, <2>10, <2>11, <2>12, <2>13 DEF NativeInv
<1>. QED  BY <1>1, <1>2

LEMMA NativeInvHolds == Spec => []NativeInv
<1>1. NativeInv /\ [Next]_vars => NativeInv'
  <2>1. ASSUME NativeInv, UNCHANGED vars
        PROVE  NativeInv'
    <3>1. /\ session' = session /\ generated' = generated /\ sent' = sent /\ released' = released
          /\ outcome' = outcome /\ failedCalls' = failedCalls
      BY <2>1 DEF vars
    <3>2. \A p \in Party : PartyOK(p)'
      BY <2>1, <3>1 DEF NativeInv, PartyOK, Count
    <3>3. \E p \in Party : Ahead(p)'
      BY <2>1, <3>1 DEF NativeInv, Ahead, Count
    <3>. QED  BY <2>1, <3>1, <3>2, <3>3 DEF NativeInv
  <2>2. ASSUME NativeInv, Next
        PROVE  NativeInv'
    BY <2>2, EncryptNativeInv, DecryptNativeInv DEF Next
  <2>. QED  BY <2>1, <2>2
<1>. QED  BY InitNativeInv, <1>1, PTL DEF Spec

(* The types of the blobs, the key pairs and the calls of native/src/api.rs. *)
THEOREM NativeTypeCorrect == Spec => []TypeOK
<1>1. NativeInv => TypeOK
  <2> SUFFICES ASSUME NativeInv, NEW p \in Party
               PROVE  /\ released[p] \in Seq(DOMAIN sent[Peer(p)])
                      /\ session[p].ns \in Nat /\ session[p].nr \in Nat /\ session[p].pn \in Nat
    BY DEF NativeInv, TypeOK
  <2>1. /\ Blob(session[p]) /\ released[p] = FirstOnes(Count(p))
        /\ Count(p) \in Nat /\ Count(p) <= Len(sent[Peer(p)])
    BY DEF NativeInv, PartyOK
  <2>2. DOMAIN sent[Peer(p)] = 1 .. Len(sent[Peer(p)]) /\ Len(sent[Peer(p)]) \in Nat
    BY PeerFacts DEF NativeInv, PartyOK
  <2>3. released[p] \in Seq(DOMAIN sent[Peer(p)])
    <3> DEFINE D == DOMAIN sent[Peer(p)]
               n == Count(p)
    <3>1. n \in Nat /\ \A k \in 1 .. n : k \in D
      BY <2>1, <2>2
    <3> HIDE DEF D, n
    <3>2. FirstOnes(n) \in Seq(D)
      BY <3>1 DEF FirstOnes
    <3>. QED  BY <2>1, <3>2 DEF D, n
  <2>. QED  BY <2>1, <2>3 DEF Blob, SessionOK, ReceivingOK
<1>. QED  BY NativeInvHolds, <1>1, PTL

(* ratchet_decrypt of native/src/api.rs never returns the plaintext of one message twice. *)
THEOREM NoReplay == Spec => []ReleasedOnce
<1>1. NativeInv => ReleasedOnce
  <2> SUFFICES ASSUME NativeInv, NEW p \in Party, NEW i \in ToSet(released[p])
               PROVE  DecryptCall(session[p], sent[Peer(p)][i], Fresh(p)) # "ok"
    BY DEF ReleasedOnce
  <2> DEFINE q == Peer(p)
  <2>1. /\ Blob(session[p]) /\ i \in 1 .. Count(p) /\ Gone(session[p], sent[q][i].key)
        /\ Count(p) \in Nat /\ Count(p) <= Len(sent[q])
    BY FirstOnesFacts DEF NativeInv, PartyOK
  <2>2. sent[q] \in Seq(Message)
    BY PeerFacts DEF NativeInv, PartyOK
  <2> HIDE DEF q
  <2>3. i \in DOMAIN sent[q]
    BY <2>1, <2>2
  <2>4. sent[q][i] \in Message
    BY <2>2, <2>3, ElementType
  <2>5. Fresh(p) \in AllKeyPairs
    BY FreshPair DEF NativeInv
  <2>. QED  BY <2>1, <2>4, <2>5, ReadCalls DEF q
<1>. QED  BY NativeInvHolds, <1>1, PTL

\* What was opened of the messages of p is their beginning.
LEMMA OpenedPrefix ==
  ASSUME NativeInv, NEW p \in Party
  PROVE  /\ sent[p] \in Seq(Message)
         /\ Count(Peer(p)) \in 0 .. Len(sent[p])
         /\ released[Peer(p)] = FirstOnes(Count(Peer(p)))
         /\ Opened(p) = [k \in 1 .. Count(Peer(p)) |-> sent[p][k]]
         /\ Len(Opened(p)) = Count(Peer(p))
<1> DEFINE q == Peer(p)
           n == Count(q)
<1>1. q \in Party /\ Peer(q) = p
  BY PeerFacts
<1>2. sent[p] \in Seq(Message) /\ n \in Nat /\ n <= Len(sent[p]) /\ released[q] = FirstOnes(n)
  BY <1>1 DEF NativeInv, PartyOK
<1> HIDE DEF n
<1>3. Opened(p) = [k \in 1 .. n |-> sent[p][k]]
  BY <1>2, FirstOnesFacts DEF Opened
<1>. QED  BY <1>2, <1>3 DEF n

\* A message more does not change what was opened.
LEMMA WriteStep ==
  ASSUME NativeInv, NEW p \in Party, RatchetEncrypt(p), EncryptCall(session[p]) = "ok"
  PROVE  Wire!Write(p)
<1> DEFINE m == Sealed(session[p])
<1>1. sent' = [sent EXCEPT ![p] = Append(@, m)] /\ released' = released
  BY DEF RatchetEncrypt, Fail
<1>2. sent[p] \in Seq(Message) /\ sent = [r \in Party |-> sent[r]]
  BY OpenedPrefix DEF NativeInv
<1>3. m \in Message
  <2>1. session[p].sendCK # NoKey
    BY DEF EncryptCall, CanEncrypt
  <2>. QED  BY <2>1, SealedType DEF NativeInv, PartyOK, Fields
<1> HIDE DEF m
<1>4. /\ sent'[p] = Append(sent[p], m) /\ Len(sent'[p]) = Len(sent[p]) + 1
      /\ sent'[p] \in Seq(Message) /\ sent'[p][Len(sent[p]) + 1] = m
      /\ \A k \in 1 .. Len(sent[p]) : sent'[p][k] = sent[p][k]
  BY <1>1, <1>2, <1>3
<1>5. m \in ToSet(sent'[p])
  <2>1. Len(sent[p]) + 1 \in DOMAIN sent'[p]
    BY <1>2, <1>4
  <2>. QED  BY <1>4, <2>1 DEF ToSet
<1>6. ASSUME NEW r \in Party
      PROVE  Opened(r)' = Opened(r)
  <2>1. released[Peer(r)] = FirstOnes(Count(Peer(r))) /\ Count(Peer(r)) \in 0 .. Len(sent[r])
    BY OpenedPrefix
  <2>2. \A k \in DOMAIN released[Peer(r)] :
          released[Peer(r)][k] \in 1 .. Len(sent[r])
    BY <1>2, <2>1, FirstOnesFacts
  <2>3. \A k \in 1 .. Len(sent[r]) : sent'[r][k] = sent[r][k]
    BY <1>1, <1>2, <1>4
  <2>. QED  BY <1>1, <2>2, <2>3 DEF Opened
<1>7. [r \in Party |-> Opened(r)]' = [r \in Party |-> Opened(r)]
  BY <1>6
<1>. QED  BY <1>1, <1>5, <1>7 DEF Wire!Write, Wire!ToSet, ToSet

\* The call that returns a plaintext reads the next message.
LEMMA ReadStep ==
  ASSUME NativeInv, NEW p \in Party, NEW i \in DOMAIN sent[Peer(p)], RatchetDecrypt(p, i),
         DecryptCall(session[p], sent[Peer(p)][i], Fresh(p)) = "ok"
  PROVE  Wire!Read(Peer(p))
<1> DEFINE q == Peer(p)
           c == Count(p)
           plain == [r \in Party |-> Opened(r)]
<1>1. q \in Party /\ q # p /\ Peer(q) = p /\ Party = {p, q}
  BY PeerFacts
<1>2. /\ sent[q] \in Seq(Message) /\ c \in 0 .. Len(sent[q]) /\ released[p] = FirstOnes(c)
      /\ Opened(q) = [k \in 1 .. c |-> sent[q][k]] /\ Len(Opened(q)) = c
  BY <1>1, OpenedPrefix
<1>3. i = c + 1
  BY DecryptStep
<1>4. sent' = sent /\ released'[p] = Append(released[p], i) /\ released'[q] = released[q]
  BY <1>1 DEF RatchetDecrypt, Fail, NativeInv
<1>5. c + 1 <= Len(sent[q]) /\ c \in Nat /\ c + 1 \in Nat
  BY <1>2, <1>3
<1> HIDE DEF c
<1>6. released'[p] = FirstOnes(c + 1)
  BY <1>2, <1>3, <1>4, <1>5, FirstOnesFacts
<1>7. Opened(q)' = [k \in 1 .. c + 1 |-> sent[q][k]]
  BY <1>1, <1>4, <1>5, <1>6, FirstOnesFacts DEF Opened
<1>8. [k \in 1 .. c + 1 |-> sent[q][k]] = Append([k \in 1 .. c |-> sent[q][k]], sent[q][c + 1])
  BY <1>5
<1>9. Opened(p)' = Opened(p)
  BY <1>4 DEF Opened, q
<1>10. plain' = [plain EXCEPT ![q] = Append(@, sent[q][Len(@) + 1])]
  <2>1. /\ plain'[q] = Append(Opened(q), sent[q][Len(Opened(q)) + 1])
        /\ plain'[p] = Opened(p)
    BY <1>1, <1>2, <1>7, <1>8, <1>9
  <2>2. /\ plain = [r \in Party |-> plain[r]] /\ plain' = [r \in Party |-> plain'[r]]
        /\ plain[q] = Opened(q) /\ plain[p] = Opened(p)
    BY <1>1
  <2> HIDE DEF plain
  <2>. QED  BY <1>1, <2>1, <2>2
<1>11. Len(plain[q]) < Len(sent[q])
  BY <1>1, <1>2, <1>5
<1>. QED  BY <1>4, <1>10, <1>11 DEF Wire!Read, q

(* The FFI calls implement the in-order channel: ratchet_encrypt that succeeds writes a
   message, ratchet_decrypt that succeeds reads the first message not read yet, whatever
   message the application hands in, and a call that fails or panics changes nothing. *)
THEOREM ImplementsChannel == Spec => ChannelSpec
<1> DEFINE wireVars == <<sent, [p \in Party |-> Opened(p)]>>
<1>1. Init => Wire!Init
  <2> SUFFICES ASSUME Init PROVE Wire!Init
    OBVIOUS
  <2>1. sent = [p \in Party |-> << >>] /\ \A p \in Party : released[Peer(p)] = << >>
    BY PeerFacts DEF Init
  <2>2. \A p \in Party : Opened(p) = << >>
    BY <2>1 DEF Opened
  <2>. QED  BY <2>1, <2>2 DEF Wire!Init
<1>2. NativeInv /\ [Next]_vars => [Wire!Next]_wireVars
  <2> SUFFICES ASSUME NativeInv, [Next]_vars
               PROVE  Wire!Next \/ UNCHANGED wireVars
    OBVIOUS
  <2>1. ASSUME sent' = sent, released' = released
        PROVE  UNCHANGED wireVars
    BY <2>1 DEF Opened
  <2>2. CASE UNCHANGED vars
    BY <2>1, <2>2 DEF vars
  <2>3. ASSUME NEW p \in Party, RatchetEncrypt(p)
        PROVE  Wire!Next \/ UNCHANGED wireVars
    <3>1. CASE EncryptCall(session[p]) = "ok"
      BY <2>3, <3>1, WriteStep DEF Wire!Next
    <3>2. CASE EncryptCall(session[p]) # "ok"
      BY <2>1, <2>3, <3>2 DEF RatchetEncrypt, Fail
    <3>. QED  BY <3>1, <3>2
  <2>4. ASSUME NEW p \in Party, NEW i \in DOMAIN sent[Peer(p)], RatchetDecrypt(p, i)
        PROVE  Wire!Next \/ UNCHANGED wireVars
    <3>1. CASE DecryptCall(session[p], sent[Peer(p)][i], Fresh(p)) = "ok"
      BY <2>4, <3>1, PeerFacts, ReadStep DEF Wire!Next
    <3>2. CASE DecryptCall(session[p], sent[Peer(p)][i], Fresh(p)) # "ok"
      BY <2>1, <2>4, <3>2 DEF RatchetDecrypt, Fail
    <3>. QED  BY <3>1, <3>2
  <2>. QED  BY <2>2, <2>3, <2>4 DEF Next
<1>. QED  BY NativeInvHolds, <1>1, <1>2, PTL DEF Spec, ChannelSpec, Wire!Spec

(* The first message that was not released yet opens with ratchet_decrypt: replays, and
   calls that failed or panicked before, did no harm. *)
THEOREM NextAlwaysOpens == Spec => []NextOpens
<1>1. NativeInv => NextOpens
  <2> SUFFICES ASSUME NativeInv, NEW p \in Party, NEW i \in DOMAIN sent[Peer(p)],
                      1 .. i - 1 \subseteq ToSet(released[p]), i \notin ToSet(released[p])
               PROVE  DecryptCall(session[p], sent[Peer(p)][i], Fresh(p)) = "ok"
    BY DEF NextOpens
  <2> DEFINE q == Peer(p)
             c == Count(p)
             in == sent[q]
             out == sent[p]
  <2>1. q \in Party /\ Peer(q) = p /\ Party = {p, q}
    BY PeerFacts
  <2>2. /\ Blob(session[p]) /\ Blob(session[q]) /\ out \in Seq(Message) /\ in \in Seq(Message)
        /\ c \in Nat /\ Count(q) \in Nat /\ ToSet(released[p]) = 1 .. c
    BY <2>1, FirstOnesFacts DEF NativeInv, PartyOK
  <2>3. Fresh(p) \in AllKeyPairs
    BY FreshPair DEF NativeInv
  <2>4. i = c + 1 /\ i \in c + 1 .. Len(in)
    <3>1. i \in 1 .. Len(in) /\ Len(in) \in Nat
      BY <2>2
    <3>2. i - 1 <= c
      <4>1. CASE i = 1
        BY <2>2, <4>1
      <4>2. CASE i # 1
        <5>1. i - 1 \in 1 .. i - 1
          BY <3>1, <4>2
        <5>. QED  BY <2>2, <3>1, <5>1
      <4>. QED  BY <4>1, <4>2
    <3>3. ~(i <= c)
      BY <2>2, <3>1
    <3>. QED  BY <2>2, <3>1, <3>2, <3>3
  <2>5. Ahead(p) => Leads(session[p], session[q], out, in, c, Count(q))
    BY DEF Ahead
  <2>6. Ahead(q) => Leads(session[q], session[p], in, out, Count(q), c)
    BY <2>1 DEF Ahead
  <2>7. Ahead(p) \/ Ahead(q)
    BY <2>1 DEF NativeInv
  <2> HIDE DEF q, c, in, out
  <2>8. CASE Ahead(p)
    BY <2>2, <2>3, <2>4, <2>5, <2>8, AheadCalls DEF in, q
  <2>9. CASE Ahead(q)
    <3> DEFINE s == session[q]
               u == session[p]
               d == Count(q)
               fresh == Fresh(p)
    <3>1. Leads(s, u, in, out, d, c) /\ Blob(s) /\ Blob(u) /\ d \in Nat /\ fresh \in AllKeyPairs
      BY <2>2, <2>3, <2>6, <2>9
    <3> HIDE DEF s, u, d, fresh
    <3>2. /\ i = c + 1 /\ s.pn # u.nr =>
               /\ c < c + (s.pn - u.nr)
               /\ DecryptCall(u, in[i], fresh) = "ok" /\ ~Ratchets(u, in[i])
               /\ Decrypt(u, in[i], fresh).st = Received(u)
               /\ in[i].key = u.recvCK /\ u.recvCK # NoKey
          /\ i = c + 1 /\ s.pn = u.nr =>
               /\ DecryptCall(u, in[i], fresh) = "ok" /\ Ratchets(u, in[i])
               /\ Decrypt(u, in[i], fresh).st = Received(DhRatchet(u, s.dhs, fresh))
               /\ in[i].key = [chain |-> s.root, step |-> 0]
          /\ i # c + 1 => DecryptCall(u, in[i], fresh) # "ok"
      BY <2>2, <2>4, <3>1, BehindCalls
    <3>3. DecryptCall(u, in[i], fresh) = "ok"
      BY <2>4, <3>2
    <3>. QED  BY <3>3 DEF in, q, u, fresh
  <2>. QED  BY <2>7, <2>8, <2>9
<1>. QED  BY NativeInvHolds, <1>1, PTL

-----------------------------------------------------------------------------
(* The chat service and its connection *)

(* What a step of the app does to its connection *)

Phases == {"out", "loading", "connecting", "in", "clearing", "cleared", "closing"}

\* The types of the connection, without the bound on the sockets of a model.
Shape ==
  /\ phase \in Phases
  /\ wanted \in BOOLEAN
  /\ attempts \in 0 .. MaxAttempts
  /\ channel \in Sockets \cup {NoSocket} /\ subscription \in Sockets \cup {NoSocket}
  /\ socket \in [Sockets -> {"opening", "open", "failed", "closed"}]
  /\ shut \subseteq Sockets /\ live \subseteq used /\ used \subseteq Sockets
  /\ timers \in Nat /\ logins \in 0 .. MaxLogins
  /\ IsFiniteSet(Opening) /\ IsFiniteSet(live)

\* The activation init waits for is there as long as init waits for it.
Waiting ==
  /\ IF phase = "connecting" THEN initial \in Opening ELSE initial = NoSocket
  /\ phase = "connecting" => wanted
  /\ wanted => phase \in {"connecting", "in", "clearing", "cleared"}

\* ClearMessages, as the connection sees it.
Clear ==
  /\ phase = "clearing" /\ phase' = "cleared"
  /\ UNCHANGED <<connection, initial, logins>>

ClientNext ==
  \/ BeginInit \/ Login \/ InitFails \/ TimerFires \/ BeginLogout \/ Disconnect \/ LoggedOut
  \/ Clear
  \/ \E n \in Sockets : Resolve(n) \/ OnError(n) \/ OnDone(n)
  \/ UNCHANGED clientVars

\* Whatever the chat service does, its connection takes a step of its own or none.
LEMMA ClientSteps ==
  ASSUME [ChatNext]_appVars
  PROVE  ClientNext
<1>. USE DEF ClientNext, Clear
<1>1. CASE Start \/ LoadAndConnect \/ LoadAndFail \/ Logout \/ ClearMessages
           \/ ClearAndDisconnect \/ Leave \/ Timer
  BY <1>1 DEF Start, LoadAndConnect, LoadAndFail, Logout, ClearMessages, ClearAndDisconnect,
              Leave, Timer
<1>2. CASE RefreshContacts \/ Receive \/ SendChat \/ BoxOpens
  BY <1>2 DEF RefreshContacts, Receive, SendChat, BoxOpens
<1>3. ASSUME NEW n \in Sockets, Settle(n) \/ StreamEnds(n)
      PROVE  ClientNext
  BY <1>3 DEF Settle, StreamEnds
<1>4. ASSUME NEW h \in handlers, Show(h) \/ Save(h) \/ SavePreview(h)
      PROVE  ClientNext
  BY <1>4 DEF Show, Save, SavePreview
<1>5. CASE UNCHANGED appVars
  BY <1>5 DEF appVars
<1>. QED  BY <1>1, <1>2, <1>3, <1>4, <1>5 DEF ChatNext

\* The sizes of finite sets, as far as counting lifelines needs them.
LEMMA Sizes ==
  ASSUME NEW S, IsFiniteSet(S)
  PROVE  /\ Cardinality(S) \in Nat
         /\ Cardinality(S) = 0 => S = {}
         /\ \A x \in S : Cardinality(S) >= 1 /\ (Cardinality(S) = 1 => S = {x})
         /\ \A x : /\ IsFiniteSet(S \cup {x})
                   /\ Cardinality(S \cup {x}) <= Cardinality(S) + 1
         /\ \A x : x \notin S => Cardinality(S \cup {x}) = Cardinality(S) + 1
         /\ \A x : /\ IsFiniteSet(S \ {x})
                   /\ Cardinality(S \ {x}) <= Cardinality(S)
         /\ \A x \in S : Cardinality(S \ {x}) = Cardinality(S) - 1
<1>1. Cardinality(S) \in Nat /\ (Cardinality(S) = 0 <=> S = {})
  BY FS_CardinalityType, FS_EmptySet
<1>2. \A x : /\ IsFiniteSet(S \cup {x})
             /\ Cardinality(S \cup {x}) = IF x \in S THEN Cardinality(S) ELSE Cardinality(S) + 1
  BY FS_AddElement
<1>3. \A x : /\ IsFiniteSet(S \ {x})
             /\ Cardinality(S \ {x}) = IF x \in S THEN Cardinality(S) - 1 ELSE Cardinality(S)
  BY FS_RemoveElement
<1>4. ASSUME NEW x \in S
      PROVE  Cardinality(S) >= 1 /\ (Cardinality(S) = 1 => S = {x})
  <2>1. Cardinality(S) >= 1
    BY <1>1
  <2>2. ASSUME Cardinality(S) = 1
        PROVE  S = {x}
    <3>1. IsFiniteSet(S \ {x}) /\ Cardinality(S \ {x}) = 0
      BY <1>3, <2>2
    <3>. QED  BY <3>1, FS_EmptySet
  <2>. QED  BY <2>1, <2>2
<1>5. \A x : /\ IsFiniteSet(S \cup {x})
             /\ Cardinality(S \cup {x}) <= Cardinality(S) + 1
  BY <1>1, <1>2
<1>6. \A x : x \notin S => Cardinality(S \cup {x}) = Cardinality(S) + 1
  BY <1>2
<1>7. \A x : /\ IsFiniteSet(S \ {x})
             /\ Cardinality(S \ {x}) <= Cardinality(S)
  BY <1>1, <1>3
<1>8. \A x \in S : Cardinality(S \ {x}) = Cardinality(S) - 1
  BY <1>3
<1>. QED  BY <1>1, <1>4, <1>5, <1>6, <1>7, <1>8

\* A new activation: one more socket is opening, which nobody listens to.
LEMMA Connects ==
  ASSUME Shape, DoConnect
  PROVE  \E n \in UnusedSockets :
           /\ channel' = n /\ Opening' = Opening \cup {n}
           /\ n \notin Opening /\ n \notin live /\ n # channel
           /\ socket' = [socket EXCEPT ![n] = "opening"]
           /\ used' = used \ {n} /\ shut' = shut \ {n}
           /\ UNCHANGED <<subscription, live>>
<1> DEFINE n == CHOOSE x \in UnusedSockets : TRUE
<1>1. n \in UnusedSockets
  BY DEF DoConnect
<1>2. /\ channel' = n
      /\ socket' = [socket EXCEPT ![n] = "opening"]
      /\ used' = used \ {n} /\ shut' = shut \ {n}
      /\ UNCHANGED <<subscription, live>>
  BY DEF DoConnect
<1> HIDE DEF n
<1>3. Opening' = Opening \cup {n}
  BY <1>1, <1>2 DEF Opening, Shape, UnusedSockets
<1>. QED  BY <1>1, <1>2, <1>3 DEF UnusedSockets

\* An activation is over: its socket is opening no more, and the others are what they were.
LEMMA Settled ==
  ASSUME Shape, NEW n \in Sockets, Ready(n) \/ Refused(n)
  PROVE  /\ n \in Opening /\ Opening' = Opening \ {n}
         /\ \A m \in Sockets \ {n} : socket'[m] = socket[m]
         /\ socket'[n] \in {"open", "closed", "failed"}
         /\ Ready(n) => socket'[n] # "failed"
         /\ socket' \in [Sockets -> {"opening", "open", "failed", "closed"}]
<1>1. n \in Opening
  BY DEF Ready, Refused
<1>2. \E s \in {"open", "closed", "failed"} : socket' = [socket EXCEPT ![n] = s] /\ (Ready(n) => s # "failed")
  <2>1. CASE Ready(n)
    BY <2>1 DEF Ready
  <2>2. CASE Refused(n)
    <3>1. ~ Ready(n)
      BY <2>2 DEF Ready, Refused, Shape
    <3>. QED  BY <2>2, <3>1 DEF Refused
  <2>. QED  BY <2>1, <2>2
<1>. QED  BY <1>1, <1>2 DEF Opening, Shape

LEMMA ScheduleType ==
  ASSUME Shape, ScheduleReconnect
  PROVE  attempts' \in 0 .. MaxAttempts /\ timers' \in Nat /\ timers' \in {timers, timers + 1}
BY ClientAssumption DEF Shape, ScheduleReconnect

-----------------------------------------------------------------------------
(* Types of the connection *)

LEMMA ShapeStep ==
  ASSUME Shape, Waiting, ClientNext
  PROVE  Shape'
<1>. USE ClientAssumption
<1>1. CASE BeginInit \/ InitFails \/ BeginLogout \/ LoggedOut \/ Clear
           \/ UNCHANGED clientVars
  BY <1>1 DEF Shape, Phases, BeginInit, InitFails, BeginLogout, LoggedOut, Clear, connection,
              service, clientVars, Opening
<1>2. CASE Login \/ TimerFires
  <2>1. CASE DoConnect
    <3>1. PICK n \in UnusedSockets :
            /\ channel' = n /\ Opening' = Opening \cup {n}
            /\ n \notin Opening /\ n \notin live
            /\ socket' = [socket EXCEPT ![n] = "opening"]
            /\ used' = used \ {n} /\ shut' = shut \ {n}
            /\ UNCHANGED <<subscription, live>>
      BY <2>1, Connects
    <3>2. IsFiniteSet(Opening')
      BY <3>1, Sizes DEF Shape
    <3>3. n \in Sockets
      BY DEF UnusedSockets
    <3>4. /\ phase' \in Phases /\ wanted' \in BOOLEAN /\ attempts' \in 0 .. MaxAttempts
          /\ timers' \in Nat /\ logins' = logins
      <4>1. CASE Login
        BY <4>1 DEF Shape, Phases, Login
      <4>2. CASE TimerFires
        BY <4>2 DEF Shape, TimerFires, service
      <4>. QED  BY <1>2, <4>1, <4>2
    <3>. QED  BY <3>1, <3>2, <3>3, <3>4 DEF Shape
  <2>2. CASE ~ DoConnect
    BY <1>2, <2>2 DEF Shape, Login, TimerFires, service, Opening
  <2>. QED  BY <2>1, <2>2
<1>3. ASSUME NEW n \in Sockets, Resolve(n)
      PROVE  Shape'
  <2>1. Ready(n) \/ Refused(n)
    BY <1>3 DEF Resolve
  <2>2. /\ n \in Opening /\ Opening' = Opening \ {n}
        /\ socket' \in [Sockets -> {"opening", "open", "failed", "closed"}]
    BY <2>1, Settled
  <2>3. phase' \in Phases /\ logins' \in 0 .. MaxLogins
    BY <1>3 DEF Resolve, Initialized, Shape, Phases, service
  <2>4. IsFiniteSet(Opening')
    BY <2>2, Sizes DEF Shape
  <2>5. CASE Ready(n)
    <3>1. IsFiniteSet(live')
      <4>1. live' = live \/ live' = live \cup {channel}
        BY <2>5 DEF Ready
      <4>. QED  BY <4>1, FS_AddElement DEF Shape
    <3>. QED  BY <2>2, <2>3, <2>4, <2>5, <3>1 DEF Ready, Shape
  <2>6. CASE Refused(n)
    <3>1. attempts' \in 0 .. MaxAttempts /\ timers' \in Nat
      BY <2>6, ScheduleType DEF Refused, CatchFailure
    <3>. QED  BY <2>2, <2>3, <2>4, <2>6, <3>1 DEF Refused, CatchFailure, Shape
  <2>. QED  BY <2>1, <2>5, <2>6
<1>4. ASSUME NEW n \in Sockets, OnError(n) \/ OnDone(n)
      PROVE  Shape'
  <2>1. /\ attempts' \in 0 .. MaxAttempts /\ timers' \in Nat
    BY <1>4, ScheduleType DEF OnError, OnDone
  <2>2. Opening' = Opening
    BY <1>4 DEF Opening, OnError, OnDone, Shape
  <2>3. IsFiniteSet(live') /\ live' \subseteq live
    <3>1. live' \subseteq live
      BY <1>4 DEF OnError, OnDone, Cleanup
    <3>. QED  BY <3>1, FS_Subset DEF Shape
  <2>. QED  BY <1>4, <2>1, <2>2, <2>3 DEF OnError, OnDone, Cleanup, Shape, service
<1>5. CASE Disconnect
  <2>1. Opening' = Opening
    BY <1>5 DEF Opening, Disconnect, Shape
  <2>2. IsFiniteSet(live')
    BY <1>5, Sizes DEF Disconnect, Shape
  <2>. QED  BY <1>5, <2>1, <2>2 DEF Disconnect, Shape, Phases, Opening
<1>6. CASE \E n \in Sockets : Resolve(n) \/ OnError(n) \/ OnDone(n)
  BY <1>3, <1>4, <1>6
<1>. QED  BY <1>1, <1>2, <1>5, <1>6 DEF ClientNext

LEMMA WaitingStep ==
  ASSUME Shape, Waiting, ClientNext
  PROVE  Waiting'
<1>. USE ClientAssumption
<1>1. CASE BeginInit \/ InitFails \/ BeginLogout \/ LoggedOut \/ Clear
           \/ UNCHANGED clientVars
  BY <1>1 DEF Waiting, BeginInit, InitFails, BeginLogout, LoggedOut, Clear, connection,
              service, clientVars, Opening
<1>2. CASE Login
  BY <1>2, Connects DEF Login, Waiting
<1>3. CASE TimerFires
  <2>1. Opening \subseteq Opening'
    <3>1. CASE DoConnect
      BY <3>1, Connects
    <3>2. CASE ~ DoConnect
      BY <1>3, <3>2 DEF TimerFires, Opening
    <3>. QED  BY <3>1, <3>2
  <2>. QED  BY <1>3, <2>1 DEF TimerFires, Waiting, service
<1>4. ASSUME NEW n \in Sockets, Resolve(n)
      PROVE  Waiting'
  <2>1. Opening' = Opening \ {n}
    BY <1>4, Settled DEF Resolve
  <2>2. wanted' = wanted
    BY <1>4 DEF Resolve, Ready, Refused
  <2>3. CASE n = initial
    BY <1>4, <2>2, <2>3 DEF Resolve, Initialized, Waiting
  <2>4. CASE n # initial
    BY <1>4, <2>1, <2>2, <2>4 DEF Resolve, Initialized, Waiting, service
  <2>. QED  BY <2>3, <2>4
<1>5. ASSUME NEW n \in Sockets, OnError(n) \/ OnDone(n)
      PROVE  Waiting'
  <2>1. Opening' = Opening
    BY <1>5 DEF Opening, OnError, OnDone, Shape
  <2>. QED  BY <1>5, <2>1 DEF OnError, OnDone, Waiting, service
<1>6. CASE Disconnect
  BY <1>6 DEF Disconnect, Waiting
<1>7. CASE \E n \in Sockets : Resolve(n) \/ OnError(n) \/ OnDone(n)
  BY <1>4, <1>5, <1>7
<1>. QED  BY <1>1, <1>2, <1>3, <1>6, <1>7 DEF ClientNext

-----------------------------------------------------------------------------
(* Lifelines *)

\* In the first two logins: no more of them than logins, one to spare for the socket init
\* is about to open; and a stream that is not open yet, or whose end comes as an error,
\* is that of the subscription, so that no error leaves it behind and retries as well.
Few ==
  logins <= 2 =>
    /\ Lifelines <= logins
    /\ phase = "loading" => Lifelines <= logins - 1
    /\ \A n \in live : socket[n] \in {"opening", "failed"} => subscription = n

\* Steps that leave the streams and their sockets alone.
LEMMA FewSame ==
  ASSUME Shape, Few, UNCHANGED <<socket, live, timers, subscription>>, logins' = logins,
         phase' = "loading" => phase = "loading"
  PROVE  Few'
<1>1. Lifelines' = Lifelines
  BY DEF Lifelines, Opening
<1>. QED  BY <1>1 DEF Few

LEMMA Counts ==
  ASSUME Shape
  PROVE  /\ Cardinality(Opening) \in Nat /\ Cardinality(live) \in Nat /\ timers \in Nat
         /\ Lifelines = Cardinality(Opening) + timers + Cardinality(live)
         /\ Lifelines \in Nat /\ logins \in Nat
BY Sizes, ClientAssumption DEF Shape, Lifelines

LEMMA FewConnect ==
  ASSUME Shape, Few, DoConnect, logins' = logins, phase' # "loading",
         \/ timers' = timers - 1
         \/ timers' = timers /\ phase = "loading"
  PROVE  Few'
<1>1. PICK n \in UnusedSockets :
        /\ Opening' = Opening \cup {n} /\ n \notin Opening /\ n \notin live
        /\ socket' = [socket EXCEPT ![n] = "opening"]
        /\ UNCHANGED <<subscription, live>>
  BY Connects
<1>2. Cardinality(Opening') = Cardinality(Opening) + 1
  BY <1>1, Sizes DEF Shape
<1>3. Lifelines' = Cardinality(Opening) + 1 + timers' + Cardinality(live)
  BY <1>1, <1>2 DEF Lifelines
<1>4. logins <= 2 => Lifelines' <= logins'
  BY <1>3, Counts DEF Few
<1>5. logins <= 2 => \A m \in live' : socket'[m] \in {"opening", "failed"} => subscription' = m
  <2>1. \A m \in live : socket'[m] = socket[m]
    BY <1>1 DEF Shape
  <2>. QED  BY <1>1, <2>1 DEF Few
<1>. QED  BY <1>4, <1>5 DEF Few

LEMMA FewReady ==
  ASSUME Shape, Few, NEW n \in Sockets, Ready(n), Pending = {}, logins' = logins,
         phase' = "loading" => phase = "loading"
  PROVE  Few'
<1>1. /\ n \in Opening /\ Opening' = Opening \ {n}
      /\ \A m \in Sockets \ {n} : socket'[m] = socket[m]
      /\ socket'[n] \in {"open", "closed"}
  BY Settled
<1>2. Cardinality(Opening') = Cardinality(Opening) - 1
  BY <1>1, Sizes DEF Shape
<1>3. \/ timers' \in {timers, timers + 1} /\ live' = live /\ subscription' = subscription
      \/ timers' = timers /\ live' = live \cup {channel} /\ subscription' = channel
  <2>1. CASE channel # NoSocket /\ channel \notin used
    BY <2>1 DEF Ready
  <2>2. CASE ~ (channel # NoSocket /\ channel \notin used)
    BY <2>2 DEF Ready
  <2>. QED  BY <2>1, <2>2
<1>4. Lifelines' \in Int /\ Lifelines' <= Lifelines
  <2>1. Lifelines' = Cardinality(Opening) - 1 + timers' + Cardinality(live')
    BY <1>2 DEF Lifelines
  <2>2. Cardinality(live') <= Cardinality(live) + 1 /\ Cardinality(live') \in Nat
    BY <1>3, Sizes DEF Shape
  <2>3. \/ timers' \in {timers, timers + 1} /\ Cardinality(live') = Cardinality(live)
        \/ timers' = timers
    BY <1>3
  <2>. QED  BY <2>1, <2>2, <2>3, Counts
<1>5. ASSUME logins <= 2, NEW m \in live', socket'[m] \in {"opening", "failed"}
      PROVE  subscription' = m
  <2>1. m # n
    BY <1>1, <1>5
  <2>2. CASE live' = live \cup {channel} /\ subscription' = channel
    <3>1. SUFFICES ASSUME m \in live
                   PROVE  FALSE
      BY <1>5, <2>2
    <3>2. socket[m] \in {"opening", "failed"}
      BY <1>1, <1>5, <2>1, <3>1 DEF Shape
    <3>3. m \in Opening
      BY <3>1, <3>2 DEF Pending, Opening, Shape
    <3>4. Cardinality(Opening) >= 2 /\ Cardinality(live) >= 1
      <4>1. m \in Opening'
        BY <1>1, <2>1, <3>3
      <4>2. Cardinality(Opening') >= 1
        BY <1>1, <4>1, Sizes DEF Shape
      <4>3. Cardinality(live) >= 1
        BY <3>1, Sizes DEF Shape
      <4>. QED  BY <1>2, <4>2, <4>3, Counts
    <3>. QED  BY <1>5, <3>4, Counts DEF Few
  <2>3. CASE live' = live /\ subscription' = subscription
    <3>1. m \in live /\ socket[m] \in {"opening", "failed"}
      BY <1>1, <1>5, <2>1, <2>3 DEF Shape
    <3>. QED  BY <1>5, <2>3, <3>1 DEF Few
  <2>. QED  BY <1>3, <2>2, <2>3
<1>. QED  BY <1>4, <1>5, Counts DEF Few

LEMMA FewRefused ==
  ASSUME Shape, Few, NEW n \in Sockets, Refused(n), logins' = logins,
         phase' = "loading" => phase = "loading"
  PROVE  Few'
<1>1. /\ n \in Opening /\ Opening' = Opening \ {n}
      /\ socket' = [socket EXCEPT ![n] = "failed"]
      /\ live' = live /\ subscription' = subscription
  BY Settled DEF Refused
<1>2. Cardinality(Opening') = Cardinality(Opening) - 1
  BY <1>1, Sizes DEF Shape
<1>3. timers' \in {timers, timers + 1}
  BY ScheduleType DEF Refused, CatchFailure
<1>4. Lifelines' \in Int /\ Lifelines' <= Lifelines
  BY <1>1, <1>2, <1>3, Counts DEF Lifelines
<1>5. logins <= 2 => \A m \in live' : socket'[m] \in {"opening", "failed"} => subscription' = m
  BY <1>1 DEF Few, Opening, Shape
<1>. QED  BY <1>4, <1>5, Counts DEF Few

LEMMA FewEnds ==
  ASSUME Shape, Few, NEW n \in Sockets, OnError(n) \/ OnDone(n)
  PROVE  Few'
<1>1. n \in live /\ timers' \in {timers, timers + 1} /\ Opening' = Opening
  BY ScheduleType DEF OnError, OnDone, Opening, Shape
<1>2. /\ socket' = [socket EXCEPT ![n] = "closed"]
      /\ live' \subseteq live /\ subscription \notin live'
      /\ logins <= 2 => n \notin live'
  <2>1. CASE OnError(n)
    BY <2>1 DEF OnError, Cleanup, Few
  <2>2. CASE OnDone(n)
    BY <2>2 DEF OnDone, Cleanup
  <2>. QED  BY <2>1, <2>2
<1>3. logins' = logins /\ phase' = phase
  BY DEF OnError, OnDone, service
<1>4. ASSUME logins <= 2
      PROVE  Lifelines' \in Int /\ Lifelines' <= Lifelines
  <2>1. Cardinality(live') \in Nat /\ Cardinality(live') <= Cardinality(live) - 1
    <3>1. live' \subseteq live \ {n} /\ IsFiniteSet(live \ {n})
      BY <1>2, <1>4, FS_RemoveElement DEF Shape
    <3>2. Cardinality(live') <= Cardinality(live \ {n}) /\ IsFiniteSet(live')
      BY <3>1, FS_Subset
    <3>3. Cardinality(live \ {n}) = Cardinality(live) - 1
      BY <1>1, Sizes DEF Shape
    <3>. QED  BY <3>2, <3>3, FS_CardinalityType
  <2>. QED  BY <1>1, <2>1, Counts DEF Lifelines
<1>5. logins <= 2 => \A m \in live' : socket'[m] \in {"opening", "failed"} => subscription' = m
  BY <1>2 DEF Few, Shape
<1>. QED  BY <1>3, <1>4, <1>5, Counts DEF Few

LEMMA FewStep ==
  ASSUME Shape, Waiting, Few, ClientNext
  PROVE  Few'
<1>. USE ClientAssumption
<1>1. CASE InitFails \/ BeginLogout \/ LoggedOut \/ Clear \/ UNCHANGED clientVars
  BY <1>1, FewSame DEF InitFails, BeginLogout, LoggedOut, Clear, connection, service, clientVars
<1>2. CASE BeginInit
  <2>1. Lifelines' = Lifelines /\ logins' = logins + 1
    BY <1>2 DEF BeginInit, connection, Lifelines, Opening
  <2>2. UNCHANGED <<live, socket, subscription>>
    BY <1>2 DEF BeginInit, connection
  <2>. QED  BY <2>1, <2>2, Counts DEF Few
<1>3. CASE Login
  BY <1>3, FewConnect DEF Login
<1>4. CASE TimerFires
  <2>1. CASE wanted
    <3>1. phase # "loading"
      BY <2>1 DEF Waiting
    <3>. QED  BY <1>4, <2>1, <3>1, FewConnect DEF TimerFires, service
  <2>2. CASE ~ wanted
    <3>1. /\ UNCHANGED <<live, socket, subscription>> /\ timers' = timers - 1
          /\ logins' = logins /\ phase' = phase
      BY <1>4, <2>2 DEF TimerFires, service
    <3>2. Lifelines' \in Int /\ Lifelines' <= Lifelines
      <4>1. Lifelines' = Cardinality(Opening) + (timers - 1) + Cardinality(live)
        BY <3>1 DEF Lifelines, Opening
      <4>. QED  BY <4>1, Counts
    <3>. QED  BY <3>1, <3>2, Counts DEF Few
  <2>. QED  BY <2>1, <2>2
<1>5. ASSUME NEW n \in Sockets, Resolve(n)
      PROVE  Few'
  <2>1. logins' = logins /\ (phase' = "loading" => phase = "loading")
    BY <1>5 DEF Resolve, Initialized, service
  <2>. QED  BY <1>5, <2>1, FewReady, FewRefused DEF Resolve
<1>6. CASE Disconnect
  <2>1. Opening' = Opening /\ timers' = timers /\ logins' = logins /\ phase' = "closing"
    BY <1>6 DEF Opening, Disconnect, Shape
  <2>2. live' = live \ {subscription}
    BY <1>6 DEF Disconnect
  <2>3. Cardinality(live') \in Nat /\ Cardinality(live') <= Cardinality(live)
    BY <2>2, FS_Subset, FS_CardinalityType DEF Shape
  <2>4. Lifelines' \in Int /\ Lifelines' <= Lifelines
    BY <2>1, <2>3, Counts DEF Lifelines
  <2>5. \A m \in live' : socket'[m] \in {"opening", "failed"} =>
          socket[m] \in {"opening", "failed"}
    BY <1>6, <2>2 DEF Disconnect, Shape
  <2>6. logins <= 2 => \A m \in live' : socket'[m] \in {"opening", "failed"} => subscription' = m
    BY <2>2, <2>5 DEF Few
  <2>. QED  BY <2>1, <2>4, <2>6, Counts DEF Few
<1>7. CASE \E n \in Sockets : Resolve(n) \/ OnError(n) \/ OnDone(n)
  BY <1>5, <1>7, FewEnds
<1>. QED  BY <1>1, <1>2, <1>3, <1>4, <1>6, <1>7 DEF ClientNext

-----------------------------------------------------------------------------
(* The stream that is heard *)

\* Before the first login there is nothing.
BeforeLogin == logins = 0 => phase = "out" /\ channel = NoSocket /\ subscription = NoSocket

\* In the first login, until logout closes the connection: what is opening is the
\* channel, and the stream that is heard is that of the channel and of the subscription.
Matched ==
  logins <= 1 /\ phase \in {"loading", "connecting", "in", "clearing", "cleared"} =>
    /\ Opening \subseteq {channel}
    /\ live = {channel} \ (Opening \cup {NoSocket})
    /\ live = {subscription} \ {NoSocket}

LEMMA UntouchedStep ==
  ASSUME Shape, Waiting, Few, BeforeLogin, ClientNext
  PROVE  BeforeLogin'
<1>1. logins' = logins \/ logins' = logins + 1
  <2>1. CASE \E n \in Sockets : Resolve(n) \/ OnError(n) \/ OnDone(n)
    BY <2>1 DEF Resolve, Initialized, OnError, OnDone, service
  <2>2. CASE BeginInit \/ Login \/ InitFails \/ TimerFires \/ BeginLogout \/ Disconnect
             \/ LoggedOut \/ Clear \/ UNCHANGED clientVars
    BY <2>2 DEF BeginInit, Login, InitFails, TimerFires, BeginLogout, Disconnect,
                LoggedOut, Clear, service, clientVars
  <2>. QED  BY <2>1, <2>2 DEF ClientNext
<1>2. ASSUME logins = 0, logins' = 0
      PROVE  phase' = "out" /\ channel' = NoSocket /\ subscription' = NoSocket
  <2>1. Opening = {} /\ live = {} /\ timers = 0
    <3>1. Lifelines <= 0
      BY <1>2 DEF Few
    <3>. QED  BY <3>1, Counts, Sizes DEF Shape
  <2>2. phase = "out" /\ channel = NoSocket /\ subscription = NoSocket
    BY <1>2 DEF BeforeLogin
  <2>3. CASE UNCHANGED clientVars
    BY <2>2, <2>3 DEF clientVars, connection, service
  <2>4. ~ BeginInit
    BY <1>2, ClientAssumption DEF BeginInit
  <2>5. ~ \E n \in Sockets : Resolve(n) \/ OnError(n) \/ OnDone(n)
    BY <2>1 DEF Resolve, Ready, Refused, OnError, OnDone
  <2>6. ~ TimerFires
    BY <2>1 DEF TimerFires
  <2>. QED  BY <2>2, <2>3, <2>4, <2>5, <2>6
            DEF ClientNext, Login, InitFails, BeginLogout, Disconnect, LoggedOut, Clear
<1>. QED  BY <1>1, <1>2, ClientAssumption DEF BeforeLogin, Shape

\* With one lifeline, a new socket is opened only where there is none.
LEMMA MatchedConnect ==
  ASSUME Shape, DoConnect, Opening = {}, live = {}, live = {subscription} \ {NoSocket},
         logins <= 1
  PROVE  Matched'
<1>1. PICK n \in UnusedSockets :
        /\ channel' = n /\ Opening' = Opening \cup {n}
        /\ UNCHANGED <<subscription, live>>
  BY Connects
<1>. QED  BY <1>1 DEF Matched

LEMMA MatchedStep ==
  ASSUME Shape, Waiting, Few, BeforeLogin, Matched, ClientNext, logins' <= 1
  PROVE  Matched'
<1>. USE ClientAssumption
<1> DEFINE Running == {"loading", "connecting", "in", "clearing", "cleared"}
<1>1. CASE InitFails \/ BeginLogout \/ Clear \/ UNCHANGED clientVars
  <2>1. UNCHANGED <<connection, logins>>
    BY <1>1 DEF InitFails, BeginLogout, Clear, service, clientVars
  <2>2. phase' \in Running => phase \in Running
    BY <1>1 DEF InitFails, BeginLogout, Clear, service, clientVars
  <2>3. Opening' = Opening
    BY <2>1 DEF connection, Opening
  <2>. QED  BY <2>1, <2>2, <2>3 DEF Matched, connection
<1>2. CASE Disconnect \/ LoggedOut
  <2>1. phase' \notin Running
    BY <1>2 DEF Disconnect, LoggedOut
  <2>. QED  BY <2>1 DEF Matched
<1>3. CASE BeginInit
  <2>1. logins = 0 /\ UNCHANGED connection
    BY <1>3, Counts DEF BeginInit
  <2>2. Opening = {} /\ live = {}
    <3>1. Lifelines <= 0
      BY <2>1 DEF Few
    <3>. QED  BY <3>1, Counts, Sizes DEF Shape
  <2>3. Opening' = Opening
    BY <2>1 DEF connection, Opening
  <2>. QED  BY <2>1, <2>2, <2>3 DEF BeforeLogin, Matched, connection
<1>4. CASE Login
  <2>1. logins <= 1 /\ phase = "loading"
    BY <1>4 DEF Login
  <2>2. Lifelines <= 0
    BY <2>1, Counts DEF Few
  <2>3. Opening = {} /\ live = {}
    BY <2>2, Counts, Sizes DEF Shape
  <2>4. live = {subscription} \ {NoSocket}
    BY <2>1 DEF Matched
  <2>. QED  BY <1>4, <2>1, <2>3, <2>4, MatchedConnect DEF Login
<1>5. CASE TimerFires
  <2>1. logins' = logins /\ phase' = phase /\ timers > 0
    BY <1>5 DEF TimerFires, service
  <2>2. Opening = {} /\ live = {}
    <3>1. Lifelines <= 1
      BY <2>1, Counts DEF Few
    <3>. QED  BY <2>1, <3>1, Counts, Sizes DEF Shape
  <2>3. CASE wanted
    <3>1. phase \in Running
      BY <2>3 DEF Waiting
    <3>2. live = {subscription} \ {NoSocket}
      BY <2>1, <3>1 DEF Matched
    <3>. QED  BY <1>5, <2>1, <2>2, <2>3, <3>2, MatchedConnect DEF TimerFires
  <2>4. CASE ~ wanted
    <3>1. UNCHANGED <<channel, socket, live, subscription>>
      BY <1>5, <2>4 DEF TimerFires
    <3>. QED  BY <2>1, <3>1 DEF Matched, Opening
  <2>. QED  BY <2>3, <2>4
<1>6. ASSUME NEW n \in Sockets, Resolve(n), phase' \in Running
      PROVE  Matched'
  <2>1. logins' = logins /\ phase \in Running
    <3>1. logins' = logins
      BY <1>6 DEF Resolve, Initialized, service
    <3>2. CASE n = initial
      BY <3>1, <3>2 DEF Waiting
    <3>3. CASE n # initial
      BY <1>6, <3>3 DEF Resolve, Initialized, service
    <3>. QED  BY <3>1, <3>2, <3>3
  <2>2. n \in Opening /\ Opening' = Opening \ {n}
    BY <1>6, Settled DEF Resolve
  <2>3. Opening = {n} /\ live = {}
    <3>1. Lifelines <= 1
      BY <2>1, Counts DEF Few
    <3>2. Cardinality(Opening) >= 1
      BY <2>2, Sizes DEF Shape
    <3>3. Cardinality(Opening) = 1 /\ Cardinality(live) = 0
      BY <3>1, <3>2, Counts
    <3>. QED  BY <2>2, <3>3, Sizes DEF Shape
  <2>4. n = channel /\ live = {subscription} \ {NoSocket}
    BY <2>1, <2>3 DEF Matched
  <2>5. CASE Refused(n)
    <3>1. channel' = NoSocket /\ UNCHANGED <<subscription, live>>
      BY <2>5 DEF Refused, CatchFailure
    <3>. QED  BY <2>2, <2>3, <2>4, <3>1 DEF Matched
  <2>6. CASE Ready(n)
    <3>1. CASE channel # NoSocket /\ channel \notin used
      <4>1. channel' = channel /\ subscription' = channel /\ live' = live \cup {channel}
        BY <2>6, <3>1 DEF Ready
      <4>. QED  BY <2>2, <2>3, <3>1, <4>1 DEF Matched
    <3>2. CASE ~ (channel # NoSocket /\ channel \notin used)
      <4>1. channel' = NoSocket /\ UNCHANGED <<subscription, live>>
        BY <2>6, <3>2 DEF Ready
      <4>. QED  BY <2>2, <2>3, <2>4, <4>1 DEF Matched
    <3>. QED  BY <3>1, <3>2
  <2>. QED  BY <1>6, <2>5, <2>6 DEF Resolve
<1>7. ASSUME NEW n \in Sockets, OnError(n) \/ OnDone(n), phase \in Running
      PROVE  Matched'
  <2>1. /\ n \in live /\ Opening' = Opening /\ logins' = logins
        /\ channel' = NoSocket /\ subscription' = NoSocket
        /\ live' \subseteq live \ {subscription}
    BY <1>7 DEF OnError, OnDone, Opening, Shape, Cleanup, service
  <2>2. Opening = {} /\ live = {n}
    <3>1. Lifelines <= 1
      BY <2>1, Counts DEF Few
    <3>. QED  BY <2>1, <3>1, Counts, Sizes DEF Shape
  <2>3. subscription = n
    BY <1>7, <2>1, <2>2 DEF Matched
  <2>. QED  BY <2>1, <2>2, <2>3 DEF Matched
<1>8. CASE \E n \in Sockets : Resolve(n) \/ OnError(n) \/ OnDone(n)
  <2>1. PICK n \in Sockets : Resolve(n) \/ OnError(n) \/ OnDone(n)
    BY <1>8
  <2>2. CASE phase' \notin Running
    BY <2>2 DEF Matched
  <2>3. CASE phase' \in Running /\ (OnError(n) \/ OnDone(n))
    <3>1. phase' = phase
      BY <2>3 DEF OnError, OnDone, service
    <3>. QED  BY <1>7, <2>3, <3>1
  <2>. QED  BY <1>6, <2>1, <2>2, <2>3
<1>. QED  BY <1>1, <1>2, <1>3, <1>4, <1>5, <1>8 DEF ClientNext

ConnectionInv == Shape /\ Waiting /\ Few /\ BeforeLogin /\ Matched

LEMMA InitConnection ==
  ASSUME ChatInit
  PROVE  ConnectionInv
<1>. USE ClientAssumption DEF ChatInit, ClientInit
<1>1. Opening = {}
  BY DEF Opening
<1>2. Lifelines = 0
  BY <1>1, FS_EmptySet DEF Lifelines
<1>3. Shape
  <2>1. IsFiniteSet(Opening) /\ IsFiniteSet(live)
    BY <1>1, FS_EmptySet
  <2>2. socket \in [Sockets -> {"opening", "open", "failed", "closed"}]
    OBVIOUS
  <2>3. attempts \in 0 .. MaxAttempts /\ logins \in 0 .. MaxLogins
    OBVIOUS
  <2>4. wanted \in BOOLEAN
    OBVIOUS
  <2>. QED  BY <2>1, <2>2, <2>3, <2>4 DEF Shape, Phases
<1>. QED  BY <1>1, <1>2, <1>3 DEF ConnectionInv, Waiting, Few, BeforeLogin, Matched

LEMMA ConnectionStep ==
  ASSUME ConnectionInv, [ChatNext]_appVars
  PROVE  ConnectionInv'
<1>1. ClientNext
  BY ClientSteps
<1>2. Shape' /\ Waiting' /\ Few' /\ BeforeLogin'
  BY <1>1, ShapeStep, WaitingStep, FewStep, UntouchedStep DEF ConnectionInv
<1>3. CASE logins' <= 1
  BY <1>1, <1>2, <1>3, MatchedStep DEF ConnectionInv
<1>4. CASE ~ logins' <= 1
  BY <1>2, <1>4 DEF ConnectionInv, Matched
<1>. QED  BY <1>3, <1>4

\* The invariant holds in every behaviour of the app.
LEMMA ConnectionHolds == ChatSpec => []ConnectionInv
<1>1. ChatInit => ConnectionInv
  BY InitConnection
<1>2. ConnectionInv /\ [ChatNext]_appVars => ConnectionInv'
  BY ConnectionStep
<1>. QED  BY <1>1, <1>2, PTL DEF ChatSpec

\* OneConnection: retries, errors and ends of streams never make one lifeline of
\* ws_client.dart into two.
THEOREM OneLifeline == ChatSpec => []OneConnection
<1>1. ConnectionInv => OneConnection
  BY DEF ConnectionInv, Few, Matched, OneConnection
<1>. QED  BY <1>1, ConnectionHolds, PTL

-----------------------------------------------------------------------------
(* Types of the chat service *)

Handlers ==
  [message : 1 .. MaxChats, listener : 0 .. MaxLogins, at : {"crypto"}]
    \cup [entry : Entries, at : {"open", "put"}]

\* A login adds its listener when its init is through with the connection.
ChatShape ==
  /\ chats \in 0 .. MaxChats /\ listeners \in 0 .. logins
  /\ phase \in {"loading", "connecting"} => listeners < logins
  /\ known \in BOOLEAN /\ opened \in BOOLEAN
  /\ handlers \subseteq Handlers
  /\ shown \subseteq Entries /\ saved \subseteq Entries
  /\ previews \subseteq Keys

\* A handler that awaits the cipher, and one that has its text.
LEMMA HandlerKinds ==
  ASSUME NEW h \in Handlers
  PROVE  /\ h.at \in {"crypto", "open", "put"}
         /\ h.at = "crypto" => h.message \in 1 .. MaxChats /\ h.listener \in 0 .. MaxLogins
         /\ h.at # "crypto" => /\ h.entry \in Entries /\ h = [entry |-> h.entry, at |-> h.at]
                               /\ [h EXCEPT !.at = "put"] = [entry |-> h.entry, at |-> "put"]
BY DEF Handlers

LEMMA LoadedShape ==
  ASSUME ChatShape, Loaded, logins' = logins, phase' \in {"loading", "connecting"} => phase = "loading"
  PROVE  ChatShape'
<1>1. known' \in BOOLEAN /\ opened' \in BOOLEAN /\ shown' \subseteq Entries
  BY DEF ChatShape, Loaded, Load
<1>. QED  BY <1>1 DEF ChatShape, Loaded

LEMMA HandlerShape ==
  ASSUME ChatShape, UNCHANGED clientVars, NEW h \in handlers, Show(h) \/ Save(h) \/ SavePreview(h)
  PROVE  ChatShape'
<1>. USE HandlerKinds
<1>1. h \in Handlers /\ UNCHANGED <<phase, logins>>
  BY DEF ChatShape, clientVars, service
<1>2. CASE Show(h)
  <2> DEFINE e == [message |-> h.message, listener |-> h.listener,
                   under |-> IF known \/ h.listener = 0 THEN "user" ELSE "device"]
  <2>1. e \in Entries
    BY <1>1, <1>2 DEF Show, Entries, Keys
  <2> HIDE DEF e
  <2>2. /\ shown' = shown \cup {e} /\ saved' \in {saved, saved \cup {e}}
        /\ \E at \in {"open", "put"} : handlers' = (handlers \ {h}) \cup {[entry |-> e, at |-> at]}
    BY <1>2 DEF Show, e
  <2>3. handlers' \subseteq Handlers
    BY <2>1, <2>2 DEF ChatShape, Handlers
  <2>4. UNCHANGED <<chats, listeners, known, opened, previews>>
    BY <1>2 DEF Show
  <2>. QED  BY <1>1, <2>1, <2>2, <2>3, <2>4 DEF ChatShape
<1>3. CASE Save(h)
  <2>1. h.entry \in Entries /\ [h EXCEPT !.at = "put"] \in Handlers
    BY <1>1, <1>3 DEF Save, Handlers
  <2>. QED  BY <1>1, <1>3, <2>1 DEF Save, ChatShape
<1>4. CASE SavePreview(h)
  <2>1. h.entry \in Entries
    BY <1>1, <1>4 DEF SavePreview
  <2>2. h.entry.under \in Keys
    BY <2>1 DEF Entries
  <2>. QED  BY <1>1, <1>4, <2>2 DEF SavePreview, ChatShape
<1>. QED  BY <1>2, <1>3, <1>4

LEMMA ChatShapeStep ==
  ASSUME ConnectionInv, ChatShape, [ChatNext]_appVars
  PROVE  ChatShape'
<1>. USE ClientAssumption, ChatAssumption
<1>0. logins \in Nat /\ logins <= MaxLogins
  BY DEF ConnectionInv, Shape
<1>1. CASE Start
  BY <1>0, <1>1 DEF Start, BeginInit, chatVars, ChatShape
<1>2. CASE LoadAndConnect \/ LoadAndFail
  <2>1. logins' = logins /\ Loaded /\ (phase' \in {"loading", "connecting"} => phase = "loading")
    BY <1>2 DEF LoadAndConnect, LoadAndFail, Login, InitFails
  <2>. QED  BY <2>1, LoadedShape
<1>3. CASE Logout \/ Leave \/ Timer \/ UNCHANGED appVars
  <2>1. logins' = logins /\ UNCHANGED chatVars /\ (phase' \in {"loading", "connecting"} => phase' = phase)
    BY <1>3 DEF Logout, BeginLogout, Leave, LoggedOut, Timer, TimerFires, appVars, clientVars, service
  <2>. QED  BY <2>1 DEF ChatShape, chatVars
<1>4. ASSUME NEW n \in Sockets, StreamEnds(n)
      PROVE  ChatShape'
  BY <1>4 DEF StreamEnds, OnError, OnDone, service, ChatShape, chatVars
<1>5. ASSUME NEW n \in Sockets, Settle(n)
      PROVE  ChatShape'
  <2>1. UNCHANGED <<chats, known, handlers, shown, opened, saved, previews>>
    BY <1>5 DEF Settle
  <2>2. CASE n = initial
    <3>1. phase = "connecting"
      BY <2>2 DEF ConnectionInv, Waiting
    <3>2. phase' = "in" /\ logins' = logins /\ listeners' = listeners + 1
      BY <1>5, <2>2 DEF Settle, Resolve, Initialized
    <3>. QED  BY <1>0, <2>1, <3>1, <3>2 DEF ChatShape
  <2>3. CASE n # initial
    <3>1. UNCHANGED <<phase, logins, listeners>>
      BY <1>5, <2>3 DEF Settle, Resolve, Initialized, service
    <3>. QED  BY <2>1, <3>1 DEF ChatShape
  <2>. QED  BY <2>2, <2>3
<1>6. CASE RefreshContacts \/ BoxOpens
  <2>1. UNCHANGED <<phase, logins, chats, listeners, handlers, shown, saved, previews>>
    BY <1>6 DEF RefreshContacts, BoxOpens, clientVars, service
  <2>2. known' \in BOOLEAN /\ opened' \in BOOLEAN
    BY <1>6 DEF RefreshContacts, BoxOpens, ChatShape
  <2>. QED  BY <2>1, <2>2 DEF ChatShape
<1>7. CASE Receive \/ SendChat
  <2>1. UNCHANGED <<phase, logins, listeners, known, shown, opened, saved, previews>>
    BY <1>7 DEF Receive, SendChat, clientVars, service
  <2>2. chats' = chats + 1 /\ chats < MaxChats
    BY <1>7 DEF Receive, SendChat
  <2>3. handlers' \subseteq Handlers
    <3>1. \A k \in 0 .. MaxLogins : [message |-> chats + 1, listener |-> k, at |-> "crypto"] \in Handlers
      BY <2>2 DEF ChatShape, Handlers
    <3>2. 1 .. listeners \subseteq 0 .. MaxLogins /\ 0 \in 0 .. MaxLogins
      BY <1>0 DEF ChatShape
    <3>. QED  BY <1>7, <3>1, <3>2 DEF Receive, SendChat, ChatShape
  <2>. QED  BY <2>1, <2>2, <2>3 DEF ChatShape
<1>8. CASE ClearMessages \/ ClearAndDisconnect
  BY <1>8 DEF ClearMessages, ClearAndDisconnect, Disconnect, ChatShape
<1>9. ASSUME NEW h \in handlers, Show(h) \/ Save(h) \/ SavePreview(h)
      PROVE  ChatShape'
  <2>1. UNCHANGED clientVars
    BY <1>9 DEF Show, Save, SavePreview
  <2>. QED  BY <1>9, <2>1, HandlerShape
<1>. QED  BY <1>1, <1>2, <1>3, <1>4, <1>5, <1>6, <1>7, <1>8, <1>9 DEF ChatNext

LEMMA InitChatShape ==
  ASSUME ChatInit
  PROVE  ChatShape
<1>1. known \in BOOLEAN /\ opened \in BOOLEAN
  BY DEF ChatInit
<1>. QED  BY <1>1, ChatAssumption DEF ChatInit, ClientInit, ChatShape

\* There is always another socket: the app makes a new one for every attempt.
LEMMA NeverOutOfSockets ==
  ASSUME Shape, ~ IsFiniteSet(Sockets)
  PROVE  UnusedSockets # {}
<1>1. SUFFICES ASSUME UnusedSockets = {}
               PROVE  FALSE
  OBVIOUS
<1>2. IsFiniteSet(live \cup Opening) /\ IsFiniteSet((live \cup Opening) \cup {channel})
  BY FS_Union, FS_AddElement DEF Shape
<1>3. Sockets \subseteq (live \cup Opening) \cup {channel}
  BY <1>1 DEF UnusedSockets
<1>. QED  BY <1>2, <1>3, FS_Subset

\* ChatTypeOK, of chat_service.dart and ws_client.dart, when sockets do not run out.
THEOREM ChatTypeCorrect ==
  ASSUME ~ IsFiniteSet(Sockets)
  PROVE  ChatSpec => []ChatTypeOK
<1>1. ConnectionInv /\ ChatShape => ChatTypeOK
  <2>1. SUFFICES ASSUME ConnectionInv, ChatShape
                 PROVE  ChatTypeOK
    OBVIOUS
  <2>2. (phase = "connecting") = (initial \in Opening)
    BY <2>1, ClientAssumption DEF ConnectionInv, Waiting, Opening
  <2>3. initial \in Sockets \cup {NoSocket}
    BY <2>1 DEF ConnectionInv, Waiting, Opening
  <2>4. UnusedSockets # {}
    BY <2>1, NeverOutOfSockets DEF ConnectionInv
  <2>5. ClientTypeOK
    BY <2>1, <2>2, <2>3, <2>4 DEF ConnectionInv, Shape, Phases, Waiting, ClientTypeOK
  <2>. QED  BY <2>1, <2>5 DEF ChatShape, ChatTypeOK, Handlers
<1>2. ChatInit => ChatShape
  BY InitChatShape
<1>3. ConnectionInv /\ ChatShape /\ [ChatNext]_appVars => ChatShape'
  BY ChatShapeStep
<1>. QED  BY <1>1, <1>2, <1>3, ConnectionHolds, PTL DEF ChatSpec

-----------------------------------------------------------------------------
(* What is shown is stored *)

\* Until logout has emptied the box of messages, and again when it has emptied the
\* conversations: what is shown is stored, or a handler is about to store it.
KeptInv == phase # "cleared" => shown \subseteq saved \cup Unsaved

LEMMA KeptStep ==
  ASSUME ConnectionInv, ChatShape, KeptInv, [ChatNext]_appVars
  PROVE  KeptInv'
<1>1. CASE LoadAndConnect \/ LoadAndFail
  <2>1. Loaded /\ phase = "loading"
    BY <1>1 DEF LoadAndConnect, LoadAndFail, Login, InitFails
  <2>2. saved' = saved /\ Unsaved' = Unsaved
    BY <2>1 DEF Loaded, Unsaved
  <2>3. shown' \subseteq saved \cup shown
    BY <2>1 DEF Loaded, Load
  <2>. QED  BY <2>1, <2>2, <2>3 DEF KeptInv
<1>2. CASE \/ Start \/ Logout \/ Leave \/ Timer \/ RefreshContacts \/ BoxOpens \/ UNCHANGED appVars
           \/ \E n \in Sockets : Settle(n) \/ StreamEnds(n)
  <2>1. UNCHANGED <<shown, saved, handlers>>
    BY <1>2 DEF Start, Logout, Leave, Timer, RefreshContacts, BoxOpens, Settle, StreamEnds,
                appVars, chatVars
  <2>2. ASSUME phase = "cleared"
        PROVE  phase' = "cleared"
    <3>1. ASSUME NEW n \in Sockets, Settle(n) \/ StreamEnds(n)
          PROVE  UNCHANGED phase
      <4>1. n # initial
        BY <2>2, ClientAssumption DEF ConnectionInv, Waiting
      <4>. QED  BY <3>1, <4>1 DEF Settle, StreamEnds, Resolve, Initialized, OnError, OnDone, service
    <3>2. CASE \/ Start \/ Logout \/ Leave \/ Timer \/ RefreshContacts \/ BoxOpens
               \/ UNCHANGED appVars
      BY <2>2, <3>2 DEF Start, BeginInit, Logout, BeginLogout, Leave, LoggedOut, Timer, TimerFires,
                        RefreshContacts, BoxOpens, appVars, clientVars, service
    <3>. QED  BY <1>2, <2>2, <3>1, <3>2
  <2>. QED  BY <2>1, <2>2 DEF KeptInv, Unsaved
<1>3. CASE Receive \/ SendChat
  <2>1. UNCHANGED <<phase, shown, saved>> /\ handlers \subseteq handlers'
    BY <1>3 DEF Receive, SendChat, clientVars, service
  <2>. QED  BY <2>1 DEF KeptInv, Unsaved
<1>4. CASE ClearMessages
  BY <1>4 DEF ClearMessages, KeptInv
<1>5. CASE ClearAndDisconnect
  BY <1>5 DEF ClearAndDisconnect, KeptInv
<1>6. ASSUME NEW h \in handlers, Show(h) \/ Save(h) \/ SavePreview(h)
      PROVE  KeptInv'
  <2>1. UNCHANGED phase
    BY <1>6 DEF Show, Save, SavePreview, clientVars, service
  <2>2. h \in Handlers
    BY DEF ChatShape
  <2>3. CASE Show(h)
    <3> DEFINE e == [message |-> h.message, listener |-> h.listener,
                     under |-> IF known \/ h.listener = 0 THEN "user" ELSE "device"]
               g == [entry |-> e, at |-> IF opened THEN "put" ELSE "open"]
    <3>1. /\ shown' = shown \cup {e} /\ handlers' = (handlers \ {h}) \cup {g}
          /\ saved' = IF opened THEN saved \cup {e} ELSE saved
          /\ h.at = "crypto"
      BY <2>3 DEF Show
    <3>2. g.entry = e /\ g.at = IF opened THEN "put" ELSE "open"
      OBVIOUS
    <3> HIDE DEF e, g
    <3>3. Unsaved \subseteq Unsaved'
      BY <3>1 DEF Unsaved
    <3>4. e \in saved' \cup Unsaved'
      BY <3>1, <3>2 DEF Unsaved
    <3>5. saved \subseteq saved'
      BY <3>1
    <3>. QED  BY <2>1, <3>1, <3>3, <3>4, <3>5 DEF KeptInv
  <2>4. CASE Save(h)
    <3>1. /\ shown' = shown /\ saved' = saved \cup {h.entry}
          /\ handlers' = (handlers \ {h}) \cup {[h EXCEPT !.at = "put"]}
      BY <2>4 DEF Save
    <3>2. Unsaved \subseteq Unsaved' \cup {h.entry}
      BY <3>1 DEF Unsaved
    <3>. QED  BY <2>1, <3>1, <3>2 DEF KeptInv
  <2>5. CASE SavePreview(h)
    <3>1. shown' = shown /\ saved' = saved /\ handlers' = handlers \ {h} /\ h.at = "put"
      BY <2>5 DEF SavePreview
    <3>2. Unsaved \subseteq Unsaved'
      BY <3>1 DEF Unsaved
    <3>. QED  BY <2>1, <3>1, <3>2 DEF KeptInv
  <2>. QED  BY <1>6, <2>3, <2>4, <2>5
<1>. QED  BY <1>1, <1>2, <1>3, <1>4, <1>5, <1>6 DEF ChatNext

\* ShownIsKept: local_storage.dart, "Persists messages locally using Hive so they survive
\* app reload", whatever handlers were in the middle at a logout and a login.
THEOREM NothingShownIsLost == ChatSpec => []ShownIsKept
<1>1. ChatInit => ChatShape /\ KeptInv
  BY InitChatShape DEF ChatInit, KeptInv
<1>2. ConnectionInv /\ ChatShape /\ KeptInv /\ [ChatNext]_appVars => ChatShape' /\ KeptInv'
  BY ChatShapeStep, KeptStep
<1>3. KeptInv => ShownIsKept
  BY DEF KeptInv, ShownIsKept
<1>. QED  BY <1>1, <1>2, <1>3, ConnectionHolds, PTL DEF ChatSpec

-----------------------------------------------------------------------------
(* Sealed sender and onion layers *)

\* The layers around a payload, each with its index in the route, the payload last.
AreLayers(f, payload, route) ==
  f = [i \in 1 .. Len(route) + 1 |->
         IF i > Len(route) THEN payload
         ELSE [for |-> route[i], next |-> NextHop(route, i), payload |-> f[i + 1]]]

\* The recursion of wrap_onion, from the last layer to the first, is one.
LEMMA WrapDef ==
  ASSUME NEW payload, NEW route, Len(route) \in Nat
  PROVE  \E f : AreLayers(f, payload, route) /\ WrapOnion(payload, route) = f[1]
<1> DEFINE L == Len(route)
           Step(f, i) == IF i > L THEN payload
                         ELSE [for |-> route[i], next |-> NextHop(route, i), payload |-> f[i + 1]]
           AreLast(f, k) == f = [i \in L + 1 - k .. L + 1 |-> Step(f, i)]
           G == {k \in Nat : \E f : AreLast(f, k)}
<1>0. L \in Nat
  OBVIOUS
<1>1. 0 \in G
  <2> DEFINE g == [i \in L + 1 - 0 .. L + 1 |-> payload]
  <2>1. \A i \in L + 1 - 0 .. L + 1 : i > L
    BY <1>0
  <2>2. \A i \in L + 1 - 0 .. L + 1 : Step(g, i) = payload
    BY <2>1
  <2>3. AreLast(g, 0)
    <3> HIDE DEF Step
    <3>. QED  BY <2>2
  <2>. QED  BY <2>3
<1>2. ASSUME NEW k \in 1 .. L, k - 1 \in G
      PROVE  k \in G
  <2>1. PICK f : AreLast(f, k - 1)
    BY <1>2
  <2> DEFINE m == L + 1 - k
             g == [i \in m .. L + 1 |-> IF i = m THEN Step(f, m) ELSE f[i]]
  <2>2. k \in Nat /\ m \in 1 .. L /\ L + 1 - (k - 1) = m + 1
    BY <1>0
  <2>3. \A i \in m .. L + 1 : i = m \/ i \in m + 1 .. L + 1
    BY <2>2
  <2>4. m \in m .. L + 1 /\ m \notin m + 1 .. L + 1 /\ m + 1 \in m + 1 .. L + 1
        /\ m + 1 .. L + 1 \subseteq m .. L + 1
    BY <2>2, <1>0
  <2>5. g[m] = Step(f, m) /\ \A i \in m + 1 .. L + 1 : g[i] = f[i]
    <3> HIDE DEF Step, m
    <3>. QED  BY <2>4
  <2>6. \A i \in m + 1 .. L + 1 : f[i] = Step(f, i)
    <3> HIDE DEF Step, m
    <3>. QED  BY <2>1, <2>2
  <2>7. \A i \in m + 1 .. L + 1 : Step(g, i) = Step(f, i)
    <3> SUFFICES ASSUME NEW i \in m + 1 .. L + 1
                 PROVE  Step(g, i) = Step(f, i)
      OBVIOUS
    <3>1. i > L \/ i + 1 \in m + 1 .. L + 1
      BY <2>2, <1>0
    <3>2. i > L \/ g[i + 1] = f[i + 1]
      <4> HIDE DEF g, m
      <4>. QED  BY <2>5, <3>1
    <3>. QED  BY <3>2
  <2>8. Step(g, m) = Step(f, m)
    <3>1. g[m + 1] = f[m + 1]
      <4> HIDE DEF g, m
      <4>. QED  BY <2>4, <2>5
    <3>. QED  BY <3>1
  <2>9. \A i \in m .. L + 1 : g[i] = Step(g, i)
    <3> HIDE DEF g, Step, m
    <3>. QED  BY <2>3, <2>5, <2>6, <2>7, <2>8
  <2>10. g = [i \in m .. L + 1 |-> g[i]]
    OBVIOUS
  <2>11. g = [i \in m .. L + 1 |-> Step(g, i)]
    <3> HIDE DEF g, Step, m
    <3>. QED  BY <2>9, <2>10
  <2>12. AreLast(g, k)
    BY <2>11
  <2>. QED  BY <2>2, <2>12
<1>3. L \in G
  <2> HIDE DEF G, L
  <2>. QED  BY <1>0, <1>1, <1>2, Induction
<1>4. PICK f : AreLast(f, L)
  BY <1>3
<1>5. L + 1 - L = 1
  BY <1>0
<1>6. AreLayers(f, payload, route)
  BY <1>4, <1>5 DEF AreLayers
<1>7. WrapOnion(payload, route) = (CHOOSE h : AreLayers(h, payload, route))[1]
  BY DEF WrapOnion, AreLayers
<1>. QED  BY <1>6, <1>7

\* The recursion of LeftBy is one.
LEMMA LeftByDef ==
  ASSUME NEW K, NEW packet, MaxHops \in Nat
  PROVE  \E left :
           /\ left = [i \in 0 .. MaxHops |->
                        IF i = 0 THEN packet
                        ELSE IF IsLayer(left[i - 1]) /\ left[i - 1].for \in K
                             THEN left[i - 1].payload ELSE left[i - 1]]
           /\ LeftBy(K, packet) = left[MaxHops]
<1> DEFINE Step(f, n) == IF n = 0 THEN packet
                         ELSE IF IsLayer(f[n - 1]) /\ f[n - 1].for \in K
                              THEN f[n - 1].payload ELSE f[n - 1]
           IsLeft(f, k) == f = [n \in 0 .. k |-> Step(f, n)]
           G == {k \in Nat : \E f : IsLeft(f, k)}
<1>1. 0 \in G
  <2> DEFINE g == [n \in 0 .. 0 |-> packet]
  <2>1. IsLeft(g, 0)
    OBVIOUS
  <2>. QED  BY <2>1
<1>2. ASSUME NEW k \in 1 .. MaxHops, k - 1 \in G
      PROVE  k \in G
  <2>1. PICK f : IsLeft(f, k - 1)
    BY <1>2
  <2> DEFINE g == [n \in 0 .. k |-> IF n = k THEN Step(f, k) ELSE f[n]]
  <2>2. k \in Nat \ {0} /\ k - 1 \in 0 .. k - 1 /\ k - 1 # k
    OBVIOUS
  <2>3. \A n \in 0 .. k : n = k \/ n \in 0 .. k - 1
    BY <2>2
  <2>4. g[k] = Step(f, k) /\ \A n \in 0 .. k - 1 : g[n] = f[n]
    <3>1. k \in 0 .. k /\ k \notin 0 .. k - 1 /\ 0 .. k - 1 \subseteq 0 .. k
      BY <2>2
    <3> HIDE DEF Step
    <3>. QED  BY <3>1
  <2>5. \A n \in 0 .. k - 1 : f[n] = Step(f, n)
    <3> HIDE DEF Step
    <3>. QED  BY <2>1
  <2>6. \A n \in 0 .. k : n = 0 \/ n - 1 \in 0 .. k - 1
    BY <2>2
  <2>7. \A n \in 0 .. k : n = 0 \/ g[n - 1] = f[n - 1]
    <3> HIDE DEF g
    <3>. QED  BY <2>4, <2>6
  <2>8. \A n \in 0 .. k : Step(g, n) = Step(f, n)
    <3> HIDE DEF g
    <3>. QED  BY <2>7
  <2>9. \A n \in 0 .. k : g[n] = Step(g, n)
    <3> HIDE DEF g, Step
    <3>. QED  BY <2>3, <2>4, <2>5, <2>8
  <2>10. g = [n \in 0 .. k |-> g[n]]
    OBVIOUS
  <2>11. IsLeft(g, k)
    <3> HIDE DEF g, Step
    <3>. QED  BY <2>9, <2>10
  <2>. QED  BY <2>2, <2>11
<1>3. MaxHops \in G
  <2> HIDE DEF G
  <2>. QED  BY <1>1, <1>2, Induction
<1>4. \E f : IsLeft(f, MaxHops)
  BY <1>3
<1>5. LeftBy(K, packet) = (CHOOSE f : IsLeft(f, MaxHops))[MaxHops]
  BY DEF LeftBy
<1>. QED  BY <1>4, <1>5

\* The owners of K get from one layer to the next as long as they own the keys.
LEMMA LeftByLayers ==
  ASSUME NEW K, NEW payload, ~IsLayer(payload), MaxHops \in Nat,
         NEW route, Len(route) \in 0 .. MaxHops, NEW f, AreLayers(f, payload, route),
         NEW n \in 0 .. Len(route)
  PROVE  \/ LeftBy(K, f[n + 1]) = payload /\ \A i \in n + 1 .. Len(route) : route[i] \in K
         \/ IsLayer(LeftBy(K, f[n + 1])) /\ \E i \in n + 1 .. Len(route) : route[i] \notin K
<1> DEFINE L == Len(route)
           Reached(i, x, j) == /\ x = f[j]
                               /\ \A m \in n + 1 .. j - 1 : route[m] \in K
                               /\ j = L + 1 \/ j = n + 1 + i \/ (j <= L /\ route[j] \notin K)
<1>1. PICK left : /\ left = [i \in 0 .. MaxHops |->
                        IF i = 0 THEN f[n + 1]
                        ELSE IF IsLayer(left[i - 1]) /\ left[i - 1].for \in K
                             THEN left[i - 1].payload ELSE left[i - 1]]
                  /\ LeftBy(K, f[n + 1]) = left[MaxHops]
  BY LeftByDef
<1>2. L \in Nat /\ n \in Nat /\ n <= L /\ L <= MaxHops
  OBVIOUS
<1>3. /\ f[L + 1] = payload
      /\ \A j \in 1 .. L : /\ IsLayer(f[j]) /\ f[j].for = route[j]
                           /\ f[j].payload = f[j + 1]
  <2>1. L + 1 \in 1 .. L + 1 /\ L + 1 > L
    BY <1>2
  <2>2. \A j \in 1 .. L : j \in 1 .. L + 1 /\ ~(j > L)
    BY <1>2
  <2>3. f[L + 1] = payload
    BY <2>1 DEF AreLayers
  <2>4. \A j \in 1 .. L : f[j] = [for |-> route[j], next |-> NextHop(route, j), payload |-> f[j + 1]]
    BY <2>2 DEF AreLayers
  <2>5. \A j \in 1 .. L : "next" \in DOMAIN f[j]
    <3>1. \A a, b, c : "next" \in DOMAIN [for |-> a, next |-> b, payload |-> c]
      OBVIOUS
    <3>. QED  BY <2>4, <3>1, Zenon
  <2>6. ASSUME NEW j \in 1 .. L
        PROVE  f[j].for = route[j] /\ f[j].payload = f[j + 1]
    <3>1. f[j] = [for |-> route[j], next |-> NextHop(route, j), payload |-> f[j + 1]]
      BY <2>4
    <3> HIDE DEF L
    <3>. QED  BY <3>1
  <2>. QED  BY <2>3, <2>5, <2>6 DEF IsLayer
<1> DEFINE G == {i \in 0 .. MaxHops : \E j \in n + 1 .. L + 1 : Reached(i, left[i], j)}
<1>4. 0 \in G
  <2>1. left[0] = f[n + 1]
    BY <1>1
  <2>2. n + 1 \in n + 1 .. L + 1 /\ n + 1 = n + 1 + 0 /\ n + 1 .. (n + 1) - 1 = {}
    BY <1>2
  <2>3. Reached(0, left[0], n + 1)
    BY <2>1, <2>2
  <2>. QED  BY <2>2, <2>3
<1>5. ASSUME NEW i \in 1 .. MaxHops, i - 1 \in G
      PROVE  i \in G
  <2>1. PICK j \in n + 1 .. L + 1 : Reached(i - 1, left[i - 1], j)
    BY <1>5
  <2>2. left[i] = IF IsLayer(left[i - 1]) /\ left[i - 1].for \in K
                  THEN left[i - 1].payload ELSE left[i - 1]
    BY <1>1
  <2>3. CASE j = L + 1
    <3>1. left[i] = left[i - 1]
      BY <1>3, <2>1, <2>2, <2>3
    <3>. QED  BY <2>1, <2>3, <3>1
  <2>4. CASE j <= L /\ route[j] \notin K
    <3>1. j \in 1 .. L
      BY <1>2, <2>4
    <3>2. left[i] = left[i - 1]
      BY <1>3, <2>1, <2>2, <2>4, <3>1
    <3>. QED  BY <2>1, <2>4, <3>2
  <2>5. CASE j <= L /\ route[j] \in K
    <3>1. j \in 1 .. L
      BY <1>2, <2>5
    <3>2. left[i] = f[j + 1]
      BY <1>3, <2>1, <2>2, <2>5, <3>1
    <3>3. j = n + 1 + (i - 1)
      BY <1>2, <2>1, <2>5
    <3>4. j + 1 \in n + 1 .. L + 1 /\ j + 1 = n + 1 + i
      BY <1>2, <2>5, <3>3
    <3>5. \A m \in n + 1 .. (j + 1) - 1 : m = j \/ m \in n + 1 .. j - 1
      BY <1>2
    <3>6. \A m \in n + 1 .. (j + 1) - 1 : route[m] \in K
      BY <2>1, <2>5, <3>5
    <3>7. Reached(i, left[i], j + 1)
      BY <3>2, <3>4, <3>6
    <3>. QED  BY <3>4, <3>7
  <2>. QED  BY <1>2, <2>1, <2>3, <2>4, <2>5
<1>6. MaxHops \in G
  <2> HIDE DEF G
  <2>1. \A i \in 1 .. MaxHops : i - 1 \in G => i \in G
    BY <1>5
  <2>2. \A i \in 0 .. MaxHops : i \in G
    BY <1>4, <2>1, Induction
  <2>. QED  BY <2>2
<1>7. PICK j \in n + 1 .. L + 1 : Reached(MaxHops, left[MaxHops], j)
  BY <1>6
<1>8. CASE j = L + 1
  <2>1. (L + 1) - 1 = L
    BY <1>2
  <2>. QED  BY <1>1, <1>3, <1>7, <1>8, <2>1
<1>9. CASE j <= L /\ route[j] \notin K
  <2>1. j \in 1 .. L /\ j \in n + 1 .. L
    BY <1>2, <1>9
  <2>. QED  BY <1>1, <1>3, <1>7, <1>9, <2>1
<1>10. j = n + 1 + MaxHops => j = L + 1
  BY <1>2
<1>. QED  BY <1>7, <1>8, <1>9, <1>10

PacketFields == {"message", "at", "path", "packet"}

\* A packet is what is left of the layers its sender put on, after the first n hops.
Layered(w) ==
  LET sentAs == posted[w.message]
      route  == sentAs.route
      n      == Len(w.path)
  IN  /\ w = [field \in PacketFields |-> w[field]]
      /\ w.message \in DOMAIN posted
      /\ w.path \in Seq(OnionNodes) /\ n <= Len(route) /\ w.path = SubSeq(route, 1, n)
      /\ w.at = IF n = Len(route) THEN Final ELSE route[n + 1]
      /\ \E cert \in Certificates : \E f :
           /\ AreLayers(f, Seal(w.message, sentAs.sender, cert, sentAs.to), route)
           /\ w.packet = f[n + 1]

Posts == [sender : Correspondents, to : Correspondents, route : Routes]

OnionInv ==
  /\ posted \in Seq(Posts)
  /\ Len(posted) <= MaxOnions
  /\ \A w \in wire : Layered(w)
  /\ read = [u \in Correspondents |-> read[u]]
  /\ \A u \in Correspondents : \A x \in read[u] :
       /\ x.message \in DOMAIN posted
       /\ posted[x.message].to = u /\ x.path = posted[x.message].route
       /\ x.content.sender = posted[x.message].sender

\* What was sent with a packet.
LEMMA PostOf ==
  ASSUME posted \in Seq(Posts), NEW w, Layered(w)
  PROVE  /\ w.message \in DOMAIN posted /\ posted[w.message] \in Posts
         /\ posted[w.message].route \in Routes
<1>1. w.message \in DOMAIN posted
  BY DEF Layered
<1>2. posted[w.message] \in Posts
  BY <1>1
<1>. QED  BY <1>1, <1>2 DEF Posts

\* A route is a sequence of nodes, and none of them is the final address.
LEMMA RouteFacts ==
  ASSUME NEW route \in Routes
  PROVE  /\ route \in Seq(OnionNodes) /\ Len(route) \in 1 .. MaxHops
         /\ DOMAIN route = 1 .. Len(route) /\ MaxHops \in Nat
         /\ \A i \in 1 .. Len(route) : route[i] \in OnionNodes /\ route[i] # Final
<1>1. PICK n \in 1 .. MaxHops : route \in [1 .. n -> OnionNodes]
  BY DEF Routes
<1>2. MaxHops \in Nat /\ n \in Nat
  BY OnionAssumption
<1>3. route \in Seq(OnionNodes) /\ Len(route) = n
  BY <1>1, <1>2
<1>. QED  BY <1>1, <1>2, <1>3, OnionAssumption

LEMMA SealIsNoLayer ==
  ASSUME NEW text, NEW sender, NEW cert, NEW recipient
  PROVE  /\ ~IsLayer(Seal(text, sender, cert, recipient))
         /\ Seal(text, sender, cert, recipient).for = recipient
         /\ Seal(text, sender, cert, recipient).inner.sender = sender
<1>1. \A a, b : "next" \notin DOMAIN [for |-> a, inner |-> b]
  OBVIOUS
<1>. QED  BY <1>1 DEF IsLayer, Seal

\* The posts of a packet stay, whatever is sent later.
LEMMA LayeredKept ==
  ASSUME OnionInv, NEW w \in wire, NEW p \in Posts, posted' = Append(posted, p) \/ posted' = posted
  PROVE  Layered(w)'
<1>1. w.message \in DOMAIN posted
  BY DEF OnionInv, Layered
<1>2. w.message \in DOMAIN posted' /\ posted'[w.message] = posted[w.message]
  <2>1. posted \in Seq(Posts)
    BY DEF OnionInv, Posts
  <2>2. posted' = Append(posted, p) => DOMAIN posted \subseteq DOMAIN posted'
                                      /\ \A i \in DOMAIN posted : posted'[i] = posted[i]
    BY <2>1
  <2>. QED  BY <1>1, <2>2
<1>3. Layered(w)
  BY DEF OnionInv
<1>. QED  BY <1>2, <1>3 DEF Layered

LEMMA SendOnionInv ==
  ASSUME OnionInv, NEW s \in Correspondents, NEW r \in Correspondents,
         NEW cert \in Certificates, NEW route \in Routes, SendOnion(s, r, cert, route)
  PROVE  OnionInv'
<1> DEFINE k    == Len(posted) + 1
           blob == Seal(k, s, cert, r)
           p    == [sender |-> s, to |-> r, route |-> route]
           w    == [message |-> k, at |-> route[1], path |-> << >>,
                    packet |-> WrapOnion(blob, route)]
<1>1. posted \in Seq(Posts) /\ p \in Posts /\ posted' = Append(posted, p) /\ wire' = wire \cup {w}
      /\ read' = read /\ Len(posted) < MaxOnions
  BY DEF OnionInv, Posts, SendOnion
<1>2. /\ posted' \in Seq(Posts) /\ Len(posted') = k /\ k \in DOMAIN posted' /\ posted'[k] = p
      /\ Len(posted') <= MaxOnions
      /\ \A i \in DOMAIN posted : i \in DOMAIN posted' /\ posted'[i] = posted[i]
  BY <1>1, OnionAssumption
<1>3. ASSUME NEW v, v = w
      PROVE  Layered(v)'
  <2>1. Len(route) \in Nat /\ 1 <= Len(route) /\ Len(route) # 0
    BY RouteFacts
  <2>2. PICK f : AreLayers(f, blob, route) /\ WrapOnion(blob, route) = f[1]
    BY <2>1, WrapDef
  <2>3. << >> \in Seq(OnionNodes) /\ Len(<< >>) = 0 /\ << >> = SubSeq(route, 1, 0)
    BY RouteFacts
  <2>4. /\ v.message = k /\ v.at = route[1] /\ v.path = << >> /\ v.packet = f[1]
        /\ v = [field \in PacketFields |-> v[field]]
    BY <1>3, <2>2 DEF PacketFields
  <2>5. p.route = route /\ p.sender = s /\ p.to = r
    OBVIOUS
  <2>6. /\ v.message \in DOMAIN posted' /\ posted'[v.message] = p
        /\ v.path \in Seq(OnionNodes) /\ Len(v.path) = 0
        /\ v.path = SubSeq(p.route, 1, Len(v.path))
        /\ v.at = IF Len(v.path) = Len(p.route) THEN Final ELSE p.route[Len(v.path) + 1]
    BY <1>2, <2>1, <2>3, <2>4, <2>5
  <2>7. AreLayers(f, Seal(v.message, p.sender, cert, p.to), p.route) /\ v.packet = f[Len(v.path) + 1]
    BY <2>2, <2>4, <2>5, <2>6
  <2>8. \E c \in Certificates : \E h :
          AreLayers(h, Seal(v.message, p.sender, c, p.to), p.route) /\ v.packet = h[Len(v.path) + 1]
    BY <2>7
  <2>9. 0 <= Len(p.route)
    BY <2>1, <2>5
  <2> HIDE DEF p, k, blob
  <2>. QED  BY <2>4, <2>6, <2>8, <2>9 DEF Layered
<1>4. \A v \in wire : Layered(v)'
  BY <1>1, LayeredKept
<1>5. \A u \in Correspondents : \A x \in read[u] : x.message \in DOMAIN posted
  BY DEF OnionInv
<1>6. \A v \in wire' : Layered(v)'
  BY <1>1, <1>3, <1>4
<1>7. \A u \in Correspondents : \A x \in read[u] :
        x.message \in DOMAIN posted' /\ posted'[x.message] = posted[x.message]
  BY <1>2, <1>5
<1> HIDE DEF w, p, k
<1>. QED  BY <1>1, <1>2, <1>6, <1>7 DEF OnionInv, Posts

LEMMA UnwrapLayerInv ==
  ASSUME OnionInv, NEW n \in OnionNodes, UnwrapLayer(n)
  PROVE  OnionInv'
<1>1. PICK w \in wire :
        /\ w.at = n /\ w.packet.for = n
        /\ wire' = wire \cup {[w EXCEPT !.at = w.packet.next, !.path = Append(@, n),
                                        !.packet = w.packet.payload]}
        /\ posted' = posted /\ read' = read
  BY DEF UnwrapLayer
<1> DEFINE v      == [w EXCEPT !.at = w.packet.next, !.path = Append(@, n),
                               !.packet = w.packet.payload]
           sentAs == posted[w.message]
           route  == sentAs.route
           done   == Len(w.path)
<1>2. Layered(w) /\ posted \in Seq(Posts)
  BY DEF OnionInv, Posts
<1>3. w.message \in DOMAIN posted /\ sentAs \in Posts /\ route \in Routes
  BY <1>2, PostOf
<1>4. /\ v.message = w.message /\ v.at = w.packet.next /\ v.path = Append(w.path, n)
      /\ v.packet = w.packet.payload /\ v = [field \in PacketFields |-> v[field]]
  BY <1>2 DEF Layered, PacketFields
<1>5. PICK cert \in Certificates : \E f :
        /\ AreLayers(f, Seal(w.message, sentAs.sender, cert, sentAs.to), route)
        /\ w.packet = f[done + 1]
  BY <1>2 DEF Layered
<1> DEFINE blob == Seal(w.message, sentAs.sender, cert, sentAs.to)
<1>6. PICK f : AreLayers(f, blob, route) /\ w.packet = f[done + 1]
  BY <1>5
<1>7. /\ w.path \in Seq(OnionNodes) /\ done \in Nat /\ Len(route) \in Nat
      /\ done <= Len(route) /\ w.path = SubSeq(route, 1, done)
      /\ w.at = IF done = Len(route) THEN Final ELSE route[done + 1]
  <2>1. Len(route) \in Nat
    BY <1>3, RouteFacts
  <2>2. w.path \in Seq(OnionNodes) => Len(w.path) \in Nat
    OBVIOUS
  <2>. QED  BY <1>2, <2>1, <2>2 DEF Layered
<1>8. done < Len(route) /\ route[done + 1] = n
  BY <1>1, <1>7, OnionAssumption
<1>9. w.packet = [for |-> route[done + 1], next |-> NextHop(route, done + 1),
                  payload |-> f[(done + 1) + 1]]
  <2>1. done + 1 \in 1 .. Len(route) + 1 /\ ~(done + 1 > Len(route))
    BY <1>7, <1>8
  <2> HIDE DEF route, done, blob
  <2>. QED  BY <1>6, <2>1 DEF AreLayers
<1>10. /\ v.message = w.message /\ v.path = Append(w.path, n)
       /\ v.at = NextHop(route, done + 1) /\ v.packet = f[(done + 1) + 1]
  <2> HIDE DEF v
  <2>. QED  BY <1>4, <1>9
<1>11. Len(v.path) = done + 1 /\ v.path \in Seq(OnionNodes) /\ done + 1 <= Len(route)
  BY <1>7, <1>8, <1>10
<1>12. v.path = SubSeq(route, 1, done + 1)
  <2>1. route \in Seq(OnionNodes) /\ Len(route) \in Nat
    BY <1>3, RouteFacts
  <2>2. SubSeq(route, 1, done + 1) = Append(SubSeq(route, 1, done), route[done + 1])
    BY <1>7, <1>8, <2>1
  <2>. QED  BY <1>7, <1>8, <1>10, <2>2
<1>13. v.at = IF done + 1 = Len(route) THEN Final ELSE route[(done + 1) + 1]
  BY <1>10 DEF NextHop
<1>14. Layered(v)'
  <2>1. \E c \in Certificates : \E h :
          /\ AreLayers(h, Seal(v.message, sentAs.sender, c, sentAs.to), route)
          /\ v.packet = h[Len(v.path) + 1]
    BY <1>10, <1>11, <1>6
  <2>2. posted'[v.message] = sentAs /\ v.message \in DOMAIN posted'
    BY <1>1, <1>3, <1>10
  <2>3. v.at = IF Len(v.path) = Len(route) THEN Final ELSE route[Len(v.path) + 1]
    BY <1>11, <1>13
  <2>4. Len(v.path) <= Len(route) /\ v.path = SubSeq(route, 1, Len(v.path))
    BY <1>11, <1>12
  <2> HIDE DEF v
  <2>. QED  BY <1>4, <1>11, <2>1, <2>2, <2>3, <2>4 DEF Layered
<1>15. \A u \in wire : Layered(u)'
  BY <1>1, <1>3, LayeredKept
<1> HIDE DEF v
<1>. QED  BY <1>1, <1>14, <1>15 DEF OnionInv, v

LEMMA OpenSealedInv ==
  ASSUME OnionInv, NEW u \in Correspondents, NEW verifies \in BOOLEAN, OpenSealed(u, verifies)
  PROVE  OnionInv'
<1>1. PICK w \in wire :
        /\ w.at = Final /\ Opens(w.packet, u, verifies)
        /\ read' = [read EXCEPT ![u] = @ \cup {[message |-> w.message, path |-> w.path,
                                                content |-> w.packet.inner]}]
        /\ posted' = posted /\ wire' = wire
  BY DEF OpenSealed
<1> DEFINE sentAs == posted[w.message]
           route  == sentAs.route
           done   == Len(w.path)
<1>2. Layered(w) /\ posted \in Seq(Posts)
  BY DEF OnionInv, Posts
<1>3. w.message \in DOMAIN posted /\ sentAs \in Posts /\ route \in Routes
  BY <1>2, PostOf
<1>4. PICK cert \in Certificates : \E f :
        /\ AreLayers(f, Seal(w.message, sentAs.sender, cert, sentAs.to), route)
        /\ w.packet = f[done + 1]
  BY <1>2 DEF Layered
<1>5. /\ w.path \in Seq(OnionNodes) /\ done \in Nat /\ Len(route) \in Nat
      /\ done <= Len(route) /\ w.path = SubSeq(route, 1, done)
      /\ w.at = IF done = Len(route) THEN Final ELSE route[done + 1]
  <2>1. Len(route) \in Nat
    BY <1>3, RouteFacts
  <2>2. w.path \in Seq(OnionNodes) => Len(w.path) \in Nat
    OBVIOUS
  <2>. QED  BY <1>2, <2>1, <2>2 DEF Layered
<1>6. done = Len(route)
  <2>1. done = Len(route) \/ done + 1 \in 1 .. Len(route)
    BY <1>5
  <2>. QED  BY <1>1, <1>3, <1>5, <2>1, RouteFacts
<1>7. w.path = route
  <2>1. route \in Seq(OnionNodes)
    BY <1>3, RouteFacts
  <2>. QED  BY <1>5, <1>6, <2>1
<1>8. w.packet = Seal(w.message, sentAs.sender, cert, sentAs.to)
  <2>1. done + 1 \in 1 .. Len(route) + 1 /\ done + 1 > Len(route)
    BY <1>5, <1>6
  <2>. QED  BY <1>4, <2>1 DEF AreLayers
<1>9. sentAs.to = u /\ w.packet.inner.sender = sentAs.sender
  BY <1>1, <1>8, SealIsNoLayer DEF Opens
<1>10. /\ read' = [r \in Correspondents |-> read'[r]]
       /\ \A r \in Correspondents : \A x \in read'[r] :
            x \in read[r] \/ (r = u /\ x.message = w.message /\ x.path = w.path
                                    /\ x.content = w.packet.inner)
  <2> DEFINE x0 == [message |-> w.message, path |-> w.path, content |-> w.packet.inner]
  <2>1. x0.message = w.message /\ x0.path = w.path /\ x0.content = w.packet.inner
    OBVIOUS
  <2> HIDE DEF x0
  <2>2. read' = [r \in Correspondents |-> IF r = u THEN read[u] \cup {x0} ELSE read[r]]
    BY <1>1 DEF OnionInv, x0
  <2>. QED  BY <2>1, <2>2
<1>11. \A v \in wire' : Layered(v)'
  BY <1>1, <1>3, LayeredKept
<1>. QED  BY <1>1, <1>3, <1>7, <1>9, <1>10, <1>11 DEF OnionInv

LEMMA OnionInvHolds == OnionSpec => []OnionInv
<1>1. OnionInit => OnionInv
  BY OnionAssumption DEF OnionInit, OnionInv
<1>2. OnionInv /\ [OnionNext]_onionVars => OnionInv'
  <2> SUFFICES ASSUME OnionInv, [OnionNext]_onionVars PROVE OnionInv'
    OBVIOUS
  <2>1. CASE UNCHANGED onionVars
    BY <2>1 DEF onionVars, OnionInv, Layered
  <2>2. CASE OnionNext
    BY <2>2, SendOnionInv, UnwrapLayerInv, OpenSealedInv DEF OnionNext
  <2>. QED  BY <2>1, <2>2
<1>. QED  BY <1>1, <1>2, PTL DEF OnionSpec

(* Types of the packets of onion.rs and of what is read. *)
THEOREM OnionTypeCorrect == OnionSpec => []OnionTypeOK
<1>1. OnionInv => OnionTypeOK
  <2> SUFFICES ASSUME OnionInv, NEW w \in wire
               PROVE  /\ w.message \in DOMAIN posted
                      /\ w.at \in OnionNodes \cup {Final} /\ w.path \in {<< >>} \cup Routes
    BY DEF OnionInv, OnionTypeOK, Posts
  <2> DEFINE route == posted[w.message].route
             n     == Len(w.path)
  <2>1. /\ w.message \in DOMAIN posted /\ route \in Routes /\ w.path \in Seq(OnionNodes)
        /\ n <= Len(route) /\ w.at = IF n = Len(route) THEN Final ELSE route[n + 1]
    BY PostOf DEF OnionInv, Layered, Posts
  <2>2. /\ n \in Nat /\ Len(route) \in Nat /\ Len(route) <= MaxHops /\ MaxHops \in Nat
        /\ \A i \in 1 .. Len(route) : route[i] \in OnionNodes
    BY <2>1, RouteFacts
  <2>3. w.at \in OnionNodes \cup {Final}
    <3>1. n = Len(route) \/ n + 1 \in 1 .. Len(route)
      BY <2>1, <2>2
    <3>. QED  BY <2>1, <2>2, <3>1
  <2>4. w.path \in {<< >>} \cup Routes
    <3>1. w.path \in [1 .. n -> OnionNodes]
      BY <2>1
    <3>2. n = 0 \/ n \in 1 .. MaxHops
      BY <2>1, <2>2
    <3>3. n = 0 => w.path = << >>
      BY <2>1
    <3>. QED  BY <3>1, <3>2, <3>3 DEF Routes
  <2>. QED  BY <2>1, <2>3, <2>4
<1>. QED  BY <1>1, OnionInvHolds, PTL

(* THREAT_MODEL.md:31, "No single relay knows both the sender and the recipient": for any
   number of nodes, correspondents, packets and hops, repeated and late packets included,
   nobody takes a packet apart without the keys of everybody left on its way. *)
THEOREM TakesAll == OnionSpec => []OnlyTogether
<1>1. OnionInv => OnlyTogether
  <2> SUFFICES ASSUME OnionInv, NEW w \in wire
               PROVE  LET route == posted[w.message].route
                          n     == Len(w.path)
                      IN  /\ n <= Len(route) /\ w.path = SubSeq(route, 1, n)
                          /\ w.at = IF n = Len(route) THEN Final ELSE route[n + 1]
                          /\ \A K \in SUBSET (OnionNodes \cup Correspondents) :
                               LET left == LeftBy(K, w.packet)
                               IN  (~IsLayer(left) /\ left.for \in K) <=> KeysLeft(w) \subseteq K
    BY DEF OnionInv, OnlyTogether
  <2> DEFINE sentAs == posted[w.message]
             route  == sentAs.route
             n      == Len(w.path)
  <2>1. Layered(w) /\ w.message \in DOMAIN posted /\ route \in Routes
    BY PostOf DEF OnionInv, Posts
  <2>2. PICK cert \in Certificates : \E f :
          /\ AreLayers(f, Seal(w.message, sentAs.sender, cert, sentAs.to), route)
          /\ w.packet = f[n + 1]
    BY <2>1 DEF Layered
  <2>3. PICK f : /\ AreLayers(f, Seal(w.message, sentAs.sender, cert, sentAs.to), route)
                 /\ w.packet = f[n + 1]
    BY <2>2
  <2> DEFINE blob == Seal(w.message, sentAs.sender, cert, sentAs.to)
  <2>4. ~IsLayer(blob) /\ blob.for = sentAs.to
    BY SealIsNoLayer
  <2>5. n \in 0 .. Len(route) /\ Len(route) \in 0 .. MaxHops /\ MaxHops \in Nat
    <3>1. w.path \in Seq(OnionNodes) /\ n <= Len(route)
      BY <2>1 DEF Layered
    <3>2. n \in Nat /\ Len(route) \in 1 .. MaxHops /\ MaxHops \in Nat
      BY <2>1, <3>1, RouteFacts
    <3>. QED  BY <3>1, <3>2
  <2>6. ASSUME NEW K \in SUBSET (OnionNodes \cup Correspondents)
        PROVE  LET left == LeftBy(K, w.packet)
               IN  (~IsLayer(left) /\ left.for \in K) <=> KeysLeft(w) \subseteq K
    <3>1. \/ LeftBy(K, f[n + 1]) = blob /\ \A i \in n + 1 .. Len(route) : route[i] \in K
          \/ IsLayer(LeftBy(K, f[n + 1])) /\ \E i \in n + 1 .. Len(route) : route[i] \notin K
      <4> HIDE DEF blob, route, n
      <4>. QED  BY <2>3, <2>4, <2>5, LeftByLayers DEF blob
    <3>2. KeysLeft(w) \subseteq K <=> sentAs.to \in K /\ \A i \in n + 1 .. Len(route) : route[i] \in K
      BY DEF KeysLeft
    <3>. QED  BY <2>3, <2>4, <3>1, <3>2
  <2>. QED  BY <2>1, <2>6 DEF Layered
<1>. QED  BY <1>1, OnionInvHolds, PTL
=============================================================================
