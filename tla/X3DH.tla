---------------------------------- MODULE X3DH ---------------------------------
(***************************************************************************)
(* The X3DH handshake with a post-quantum KEM (crates/hysj-crypto/src/     *)
(* x3dh.rs, postquantum.rs) on symbolic keys: a key pair is named by its   *)
(* public key, a Diffie-Hellman output is the pair of the two public keys, *)
(* HKDF is injective, so that a shared secret is what was concatenated.    *)
(***************************************************************************)
EXTENDS Sequences

CONSTANT NoPreKey                \* None, for an absent one-time pre-key

Exchange(mine, theirs) == {mine, theirs}

\* kyber_encapsulate: `coins` is the randomness the initiator drew.
Encapsulate(public, coins) ==
  [ciphertext |-> [to |-> public, coins |-> coins], secret |-> <<public, coins>>]

\* kyber_decapsulate: a ciphertext for another key gives an unrelated secret.
Decapsulate(ciphertext, key) ==
  IF ciphertext.to = key THEN <<key, ciphertext.coins>> ELSE <<key, ciphertext>>

\* DH4 is part of the input only when there is a one-time pre-key.
Combined(dh1, dh2, dh3, dh4, kem) == <<dh1, dh2, dh3>> \o dh4 \o <<kem>>

\* What the initiator computes, and what it sends along.
X3dhInitiate(identity, ephemeral, bundle) ==
  LET kem == Encapsulate(bundle.kyber, ephemeral)
  IN  [secret     |-> Combined(Exchange(identity, bundle.signedPreKey),
                               Exchange(ephemeral, bundle.identity),
                               Exchange(ephemeral, bundle.signedPreKey),
                               IF bundle.oneTime = NoPreKey THEN << >>
                               ELSE <<Exchange(ephemeral, bundle.oneTime)>>,
                               kem.secret),
       identity   |-> identity,
       ephemeral  |-> ephemeral,
       ciphertext |-> kem.ciphertext]

\* Mutant: the first two exchanges are in the wrong order.
X3dhRespondSwapped(keys, oneTime, hello) ==
  Combined(Exchange(keys.identity, hello.ephemeral),
           Exchange(keys.signedPreKey, hello.identity),
           Exchange(keys.signedPreKey, hello.ephemeral),
           IF oneTime = NoPreKey THEN << >> ELSE <<Exchange(oneTime, hello.ephemeral)>>,
           Decapsulate(hello.ciphertext, keys.kyber))

\* What the responder computes with a one-time pre-key of its choice.
X3dhRespond(keys, oneTime, hello) ==
  Combined(Exchange(keys.signedPreKey, hello.identity),
           Exchange(keys.identity, hello.ephemeral),
           Exchange(keys.signedPreKey, hello.ephemeral),
           IF oneTime = NoPreKey THEN << >> ELSE <<Exchange(oneTime, hello.ephemeral)>>,
           Decapsulate(hello.ciphertext, keys.kyber))
=============================================================================
