------------------------------ MODULE SkippedKeys ------------------------------
(***************************************************************************)
(* The cache of message keys that were derived for messages not received   *)
(* yet (crates/hysj-crypto/src/ratchet/skipped.rs).  A cache is a record   *)
(*   keys  : a function from identifiers to message keys (the HashMap)     *)
(*   order : the identifiers in insertion order, oldest first (the Vec)    *)
(* An identifier is a pair <<DH public key, message number>>.              *)
(***************************************************************************)
EXTENDS Vec, Naturals, Sequences, FiniteSets

CONSTANT MaxSkippedKeys          \* MAX_SKIPPED_KEYS, 1000 in the code

ASSUME MaxSkippedKeysAssumption == MaxSkippedKeys \in Nat \ {0}

EmptyCache == [keys |-> [id \in {} |-> id], order |-> << >>]

HasKey(cache, id) == id \in DOMAIN cache.keys

CacheLen(cache) == Cardinality(DOMAIN cache.keys)

\* The `while` loop of insert: drop from the front of the order, with their
\* keys, as many identifiers as leave room for one more.
Evicted(cache) ==
  IF CacheLen(cache) < MaxSkippedKeys THEN {}
  ELSE {cache.order[i] : i \in 1 .. (CacheLen(cache) - MaxSkippedKeys + 1)}

Evict(cache) ==
  [keys  |-> [id \in DOMAIN cache.keys \ Evicted(cache) |-> cache.keys[id]],
   order |-> SubSeq(cache.order, Cardinality(Evicted(cache)) + 1, Len(cache.order))]

\* Mutant: the capacity check is forgotten.
InsertUnbounded(cache, id, key) ==
  [keys  |-> [i \in DOMAIN cache.keys \cup {id} |-> IF i = id THEN key ELSE cache.keys[i]],
   order |-> IF HasKey(cache, id) THEN cache.order ELSE Append(cache.order, id)]

\* An identifier already present gets the new key and keeps its place.
Insert(cache, id, key) ==
  IF HasKey(cache, id)
  THEN [cache EXCEPT !.keys[id] = key]
  ELSE LET room == Evict(cache)
       IN  [keys  |-> [i \in DOMAIN room.keys \cup {id} |->
                         IF i = id THEN key ELSE room.keys[i]],
            order |-> Append(room.order, id)]

\* Mutant: the key is read and stays in the cache (`get` for `remove`).
TakeKeeping(cache, id) == cache

\* take: the key leaves the cache (the caller reads it before).
Take(cache, id) ==
  [keys  |-> [i \in DOMAIN cache.keys \ {id} |-> cache.keys[i]],
   order |-> Retain(cache.order, DOMAIN cache.keys \ {id})]

\* The two structures describe the same set, without repetition.
Coherent(cache) ==
  /\ {cache.order[i] : i \in DOMAIN cache.order} = DOMAIN cache.keys
  /\ \A i, j \in DOMAIN cache.order : cache.order[i] = cache.order[j] => i = j
=============================================================================
