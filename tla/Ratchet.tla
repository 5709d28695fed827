-------------------------------- MODULE Ratchet --------------------------------
(***************************************************************************)
(* The Double Ratchet algorithm as operators on a RatchetState             *)
(* (crates/hysj-crypto/src/ratchet/double_ratchet.rs).                     *)
(*                                                                         *)
(* Cryptography is symbolic and perfect.  A key pair is named by its       *)
(* public key; a Diffie-Hellman output is the unordered pair of the two    *)
(* public keys; a root key is the sequence of outputs mixed into it, the   *)
(* X3DH shared secret being the empty sequence; a chain key is a chain and *)
(* the number of times it was advanced, and the message key it yields next *)
(* has the same two parts.  A ciphertext opens under one key only, so a    *)
(* message carries the key it was sealed with.                             *)
(***************************************************************************)
EXTENDS SkippedKeys, SequencesExt

CONSTANTS MaxSkip,               \* MAX_SKIP, 1000 in the code
          NoKey                  \* None, for an absent key


DH(mine, theirs) == {mine, theirs}

\* derive_root_key: the new root key and the new chain key come from the same
\* inputs; the root key is the sequence, the chain key its first position.
MixRoot(root, dhOutput)     == Append(root, dhOutput)
NewChain(root, dhOutput)    == [chain |-> Append(root, dhOutput), step |-> 0]

\* derive_chain_key, n times.
Advance(chainKey, n) == [chainKey EXCEPT !.step = @ + n]

InitSender(fresh, theirPublic) ==
  [root    |-> MixRoot(<< >>, DH(fresh, theirPublic)),
   sendCK  |-> NewChain(<< >>, DH(fresh, theirPublic)),
   recvCK  |-> NoKey,
   dhs     |-> fresh,
   dhr     |-> theirPublic,
   ns      |-> 0, nr |-> 0, pn |-> 0,
   skipped |-> EmptyCache]

InitReceiver(ours) ==
  [root    |-> << >>,
   sendCK  |-> NoKey,
   recvCK  |-> NoKey,
   dhs     |-> ours,
   dhr     |-> NoKey,
   ns      |-> 0, nr |-> 0, pn |-> 0,
   skipped |-> EmptyCache]

\* A session has two parties; the initiator of X3DH uses the signed pre-key
\* <<"bob", 0>> of the responder.
Party == {"alice", "bob"}

Peer(p) == IF p = "alice" THEN "bob" ELSE "alice"

KeyPair(p, i) == <<p, i>>

ASSUME RatchetAssumption ==
  /\ MaxSkip \in Nat
  /\ NoKey \notin [chain : Seq(SUBSET (Party \X Nat)), step : Nat] \cup (Party \X Nat)

InitialState == [p \in Party |->
  IF p = "alice" THEN InitSender(KeyPair("alice", 1), KeyPair("bob", 0))
                 ELSE InitReceiver(KeyPair("bob", 0))]

InitialKeyPairs == [p \in Party |-> IF p = "alice" THEN 1 ELSE 0]

-----------------------------------------------------------------------------
(* encrypt *)

CanEncrypt(s) == s.sendCK # NoKey

\* Header and key of the next message of state s.
Sealed(s) == [dh |-> s.dhs, pn |-> s.pn, n |-> s.ns, key |-> s.sendCK]

\* Mutant: the new chain key is not stored.
AfterEncryptSameKey(s) == [s EXCEPT !.ns = @ + 1]

AfterEncrypt(s) == [s EXCEPT !.sendCK = Advance(@, 1), !.ns = @ + 1]

-----------------------------------------------------------------------------
(* decrypt *)

\* skip_missed_messages fails, changing nothing, when the gap is too wide.
SkipFails(s, until) == until >= s.nr /\ until - s.nr > MaxSkip

\* Otherwise it stores the key of every message number from nr to until - 1.
CacheSkipped(s, until) ==
  LET cache[i \in 0 .. until - s.nr] ==
        IF i = 0 THEN s.skipped
        ELSE Insert(cache[i - 1], <<s.dhr, s.nr + i - 1>>, Advance(s.recvCK, i - 1))
  IN  cache[until - s.nr]

Skip(s, until) ==
  IF s.nr > until \/ s.recvCK = NoKey THEN s
  ELSE [s EXCEPT !.skipped = CacheSkipped(s, until),
                 !.recvCK  = Advance(@, until - s.nr),
                 !.nr      = until]

\* Mutant: the receiving chain is derived after the second mix.
DhRatchetSwapped(s, theirs, fresh) ==
  LET root1 == MixRoot(s.root, DH(s.dhs, theirs))
  IN  [s EXCEPT !.dhr    = theirs,
                !.pn     = s.ns,
                !.ns     = 0,
                !.nr     = 0,
                !.recvCK = NewChain(root1, DH(fresh, theirs)),
                !.dhs    = fresh,
                !.root   = MixRoot(root1, DH(fresh, theirs)),
                !.sendCK = NewChain(s.root, DH(s.dhs, theirs))]

\* Mutant: the length of the ended chain is off by one.
DhRatchetOffByOne(s, theirs, fresh) ==
  LET root1 == MixRoot(s.root, DH(s.dhs, theirs))
  IN  [s EXCEPT !.dhr    = theirs,
                !.pn     = s.ns - 1,
                !.ns     = 0,
                !.nr     = 0,
                !.recvCK = NewChain(s.root, DH(s.dhs, theirs)),
                !.dhs    = fresh,
                !.root   = MixRoot(root1, DH(fresh, theirs)),
                !.sendCK = NewChain(root1, DH(fresh, theirs))]

\* dh_ratchet with the public key of the header and a fresh key pair.
DhRatchet(s, theirs, fresh) ==
  LET root1 == MixRoot(s.root, DH(s.dhs, theirs))
  IN  [s EXCEPT !.dhr    = theirs,
                !.pn     = s.ns,
                !.ns     = 0,
                !.nr     = 0,
                !.recvCK = NewChain(s.root, DH(s.dhs, theirs)),
                !.dhs    = fresh,
                !.root   = MixRoot(root1, DH(fresh, theirs)),
                !.sendCK = NewChain(root1, DH(fresh, theirs))]

HasSkippedKey(s, m) == HasKey(s.skipped, <<m.dh, m.n>>)

\* None is different from every key of a header.
NeedsRatchet(s, m) == s.dhr # m.dh

\* Mutant: the rest of the old chain is not skipped before the ratchet.
RatchetedUnskipped(s, m, fresh) ==
  IF NeedsRatchet(s, m) THEN DhRatchet(s, m.dh, fresh) ELSE s

\* The state with which step 3 of decrypt starts.
Ratcheted(s, m, fresh) ==
  IF NeedsRatchet(s, m) THEN DhRatchet(Skip(s, m.pn), m.dh, fresh) ELSE s

Decryption(ok, s) == [ok |-> ok, st |-> s]

\* decrypt takes &mut self: the returned state is the one the caller is left
\* with, also when decryption fails.
Decrypt(s, m, fresh) ==
  IF HasSkippedKey(s, m) THEN
    Decryption(s.skipped.keys[<<m.dh, m.n>>] = m.key,
               [s EXCEPT !.skipped = Take(@, <<m.dh, m.n>>)])
  ELSE IF NeedsRatchet(s, m) /\ SkipFails(s, m.pn) THEN
    Decryption(FALSE, s)
  ELSE
    LET r == Ratcheted(s, m, fresh)
        k == Skip(r, m.n)
    IN  IF SkipFails(r, m.n) \/ r.recvCK = NoKey THEN Decryption(FALSE, r)
        ELSE IF k.recvCK # m.key
             THEN Decryption(FALSE, [k EXCEPT !.recvCK = Advance(@, 1)])
             ELSE Decryption(TRUE, [k EXCEPT !.recvCK = Advance(@, 1), !.nr = @ + 1])

\* Whether this decryption generates a key pair (dh_ratchet is reached).
Ratchets(s, m) ==
  /\ ~HasSkippedKey(s, m)
  /\ NeedsRatchet(s, m)
  /\ ~SkipFails(s, m.pn)
=============================================================================
