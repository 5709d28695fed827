--------------------------- MODULE RatchetLemmas ----------------------------
(***************************************************************************)
(* The operators of the Double Ratchet, for any cache size and any gap:    *)
(* the cache stays coherent and within its capacity, decrypt leaves a      *)
(* state of the same kind, and what a state cannot compute no later state  *)
(* can.                                                                    *)
(*                                                                         *)
(* A ratchet mixes two outputs into the root key, so the length of a root  *)
(* key tells what it has passed: the chains a party sends on are shorter   *)
(* by an even number of outputs, those it receives on by an odd one.       *)
(*                                                                         *)
(* Between two parties one is ahead, by the turn of the ratchet the other  *)
(* has yet to make: Leads says what either has still to read of the other, *)
(* and the lemmas about it what encrypt and decrypt do to that.            *)
(***************************************************************************)
EXTENDS Ratchet, VecLemmas

CacheOK(c) ==
  /\ c = [keys |-> c.keys, order |-> c.order]
  /\ c.keys = [id \in DOMAIN c.keys |-> c.keys[id]]
  /\ IsFiniteSet(DOMAIN c.keys)
  /\ c.order \in Seq(DOMAIN c.keys)
  /\ Coherent(c)
  /\ CacheLen(c) = Len(c.order)
  /\ CacheLen(c) <= MaxSkippedKeys

(* What becomes of the keys of c when <<id, key>> may be put in: they stay as they are,
   or go. *)
PutIn(c, d, id, key) ==
  /\ DOMAIN d.keys \subseteq DOMAIN c.keys \cup {id}
  /\ \A i \in DOMAIN d.keys : d.keys[i] = IF i = id THEN key ELSE c.keys[i]

LEMMA EmptyCacheOK == CacheOK(EmptyCache) /\ DOMAIN EmptyCache.keys = {}
<1> DEFINE c == EmptyCache
<1>1. /\ c = [keys |-> c.keys, order |-> c.order] /\ DOMAIN c.keys = {} /\ c.order = << >>
      /\ c.keys = [id \in DOMAIN c.keys |-> c.keys[id]]
  BY DEF EmptyCache
<1>2. CacheLen(c) = 0 /\ IsFiniteSet(DOMAIN c.keys)
  BY <1>1, FS_EmptySet DEF CacheLen
<1>3. Coherent(c)
  BY <1>1 DEF Coherent
<1> HIDE DEF c
<1>. QED  BY <1>1, <1>2, <1>3, MaxSkippedKeysAssumption DEF CacheOK, c

LEMMA EvictOK ==
  ASSUME NEW c, CacheOK(c)
  PROVE  LET room == Evict(c)
         IN  /\ CacheOK(room) /\ CacheLen(room) < MaxSkippedKeys
             /\ DOMAIN room.keys \subseteq DOMAIN c.keys
             /\ \A id \in DOMAIN room.keys : room.keys[id] = c.keys[id]
             /\ \/ room = c
                \/ /\ Len(c.order) = MaxSkippedKeys
                   /\ room.order = SubSeq(c.order, 2, Len(c.order))
                   /\ DOMAIN room.keys = DOMAIN c.keys \ {c.order[1]}
<1> DEFINE room == Evict(c)
           D == DOMAIN c.keys
<1>1. /\ c.order \in Seq(D) /\ IsFiniteSet(D) /\ Cardinality(D) = Len(c.order)
      /\ Cardinality(D) <= MaxSkippedKeys /\ Cardinality(D) \in Nat
      /\ {c.order[i] : i \in DOMAIN c.order} = D
      /\ \A i, j \in DOMAIN c.order : c.order[i] = c.order[j] => i = j
      /\ MaxSkippedKeys \in Nat \ {0}
  BY FS_CardinalityType, MaxSkippedKeysAssumption DEF CacheOK, CacheLen, Coherent
<1>2. CASE Cardinality(D) < MaxSkippedKeys
  <2>1. Evicted(c) = {} /\ Cardinality(Evicted(c)) = 0
    BY <1>2, FS_EmptySet DEF Evicted, CacheLen
  <2>2. SubSeq(c.order, 1, Len(c.order)) = c.order
    BY <1>1
  <2>3. D \ Evicted(c) = D /\ Cardinality(Evicted(c)) + 1 = 1
    BY <2>1
  <2>4. room = [keys |-> [id \in D |-> c.keys[id]], order |-> c.order]
    BY <2>2, <2>3 DEF Evict
  <2>5. room = c
    BY <2>4 DEF CacheOK
  <2>. QED  BY <1>2, <2>5 DEF CacheLen
<1>3. CASE ~(Cardinality(D) < MaxSkippedKeys)
  <2> DEFINE old == c.order[1]
             rest == SubSeq(c.order, 2, Len(c.order))
  <2>1. Cardinality(D) = MaxSkippedKeys /\ Len(c.order) \in Nat \ {0} /\ 1 \in DOMAIN c.order
    BY <1>1, <1>3
  <2>2. Evicted(c) = {old}
    <3>1. 1 .. (CacheLen(c) - MaxSkippedKeys + 1) = {1}
      BY <1>1, <2>1 DEF CacheLen
    <3>2. Evicted(c) = {c.order[i] : i \in 1 .. (CacheLen(c) - MaxSkippedKeys + 1)}
      BY <1>3 DEF Evicted, CacheLen
    <3>. QED  BY <3>1, <3>2
  <2>3. Cardinality(Evicted(c)) = 1
    BY <2>2, FS_Singleton
  <2>4. room = [keys |-> [id \in D \ {old} |-> c.keys[id]], order |-> rest]
    <3>1. Cardinality(Evicted(c)) + 1 = 2
      BY <2>3
    <3>. QED  BY <2>2, <3>1 DEF Evict
  <2>5. /\ Len(rest) = Len(c.order) - 1 /\ DOMAIN rest = 1 .. Len(c.order) - 1
        /\ \A i \in DOMAIN rest : rest[i] = c.order[i + 1] /\ i + 1 \in DOMAIN c.order
    BY <1>1, <2>1
  <2>6. \A i \in DOMAIN rest : rest[i] \in D /\ rest[i] # old
    BY <1>1, <2>1, <2>5
  <2>7. rest \in Seq(D \ {old})
    <3>1. \A i \in 2 .. Len(c.order) : c.order[i] \in D \ {old}
      BY <1>1, <2>1
    <3>. QED  BY <1>1, <3>1, SubSeqProperties
  <2>8. {rest[i] : i \in DOMAIN rest} = D \ {old}
    <3>1. ASSUME NEW x \in D \ {old} PROVE \E i \in DOMAIN rest : rest[i] = x
      <4>1. PICK j \in DOMAIN c.order : c.order[j] = x
        BY <1>1
      <4>2. j # 1 /\ j \in 1 .. Len(c.order)
        BY <1>1, <4>1
      <4>3. j - 1 \in DOMAIN rest /\ rest[j - 1] = c.order[j]
        BY <2>1, <2>5, <4>2
      <4>. QED  BY <4>1, <4>3
    <3>. QED  BY SMTT(30), <2>6, <3>1
  <2>9. \A i, j \in DOMAIN rest : rest[i] = rest[j] => i = j
    BY <1>1, <2>1, <2>5
  <2>10. old \in D
    BY <1>1, <2>1
  <2>11. IsFiniteSet(D \ {old}) /\ Cardinality(D \ {old}) = Len(c.order) - 1
    <3>1. IsFiniteSet(D \ {old}) /\ Cardinality(D \ {old}) = Cardinality(D) - 1
      BY <1>1, <2>10, FS_RemoveElement
    <3>. QED  BY <1>1, <3>1
  <2> HIDE DEF old, rest, room
  <2>12. /\ room.keys = [id \in D \ {old} |-> c.keys[id]] /\ room.order = rest
         /\ DOMAIN room.keys = D \ {old}
         /\ room = [keys |-> room.keys, order |-> room.order]
    BY <2>4
  <2>13. Coherent(room)
    BY <2>8, <2>9, <2>12 DEF Coherent
  <2>14. CacheLen(room) = Len(room.order) /\ CacheLen(room) < MaxSkippedKeys
    BY <1>1, <2>1, <2>5, <2>11, <2>12 DEF CacheLen
  <2>15. CacheOK(room)
    BY <1>1, <2>7, <2>11, <2>12, <2>13, <2>14 DEF CacheOK, CacheLen
  <2>16. Len(c.order) = MaxSkippedKeys
    BY <1>1, <2>1
  <2>. QED  BY <2>12, <2>14, <2>15, <2>16 DEF room, rest, old
<1>. QED  BY <1>2, <1>3

LEMMA InsertOK ==
  ASSUME NEW c, CacheOK(c), NEW id, NEW key
  PROVE  LET d == Insert(c, id, key)
         IN  CacheOK(d) /\ id \in DOMAIN d.keys /\ PutIn(c, d, id, key)
<1> DEFINE d == Insert(c, id, key)
<1>1. CASE HasKey(c, id)
  <2>1. d = [c EXCEPT !.keys[id] = key]
    BY <1>1 DEF Insert
  <2>2. /\ d = [keys |-> d.keys, order |-> c.order] /\ d.order = c.order
        /\ d.keys = [c.keys EXCEPT ![id] = key]
    BY <2>1 DEF CacheOK
  <2>3. /\ DOMAIN d.keys = DOMAIN c.keys /\ id \in DOMAIN c.keys
        /\ d.keys = [i \in DOMAIN d.keys |-> d.keys[i]]
        /\ \A i \in DOMAIN d.keys : d.keys[i] = IF i = id THEN key ELSE c.keys[i]
    BY <1>1, <2>2 DEF HasKey, CacheOK
  <2> HIDE DEF d
  <2>. QED  BY <2>2, <2>3 DEF CacheOK, Coherent, CacheLen, PutIn, d
<1>2. CASE ~HasKey(c, id)
  <2> DEFINE room == Evict(c)
             D == DOMAIN room.keys
  <2>1. /\ CacheOK(room) /\ CacheLen(room) < MaxSkippedKeys /\ D \subseteq DOMAIN c.keys
        /\ \A i \in D : room.keys[i] = c.keys[i]
    BY EvictOK
  <2>2. d = [keys  |-> [i \in D \cup {id} |-> IF i = id THEN key ELSE room.keys[i]],
             order |-> Append(room.order, id)]
    BY <1>2 DEF Insert
  <2>3. id \notin D
    BY <1>2, <2>1 DEF HasKey
  <2> HIDE DEF room, d
  <2>4. /\ room.order \in Seq(D) /\ IsFiniteSet(D) /\ Cardinality(D) = Len(room.order)
        /\ Cardinality(D) < MaxSkippedKeys /\ Cardinality(D) \in Nat /\ MaxSkippedKeys \in Nat
        /\ {room.order[i] : i \in DOMAIN room.order} = D
        /\ \A i, j \in DOMAIN room.order : room.order[i] = room.order[j] => i = j
    BY <2>1, FS_CardinalityType, MaxSkippedKeysAssumption DEF CacheOK, CacheLen, Coherent
  <2>5. /\ d = [keys |-> d.keys, order |-> d.order] /\ d.order = Append(room.order, id)
        /\ DOMAIN d.keys = D \cup {id}
        /\ d.keys = [i \in DOMAIN d.keys |-> d.keys[i]]
        /\ \A i \in DOMAIN d.keys : d.keys[i] = IF i = id THEN key ELSE room.keys[i]
    BY <2>2
  <2>6. PutIn(c, d, id, key) /\ id \in DOMAIN d.keys
    BY <2>1, <2>5 DEF PutIn
  <2>7. IsFiniteSet(D \cup {id}) /\ Cardinality(D \cup {id}) = Cardinality(D) + 1
    BY <2>3, <2>4, FS_AddElement
  <2> HIDE DEF D
  <2>8. /\ Append(room.order, id) \in Seq(D \cup {id})
        /\ Len(Append(room.order, id)) = Len(room.order) + 1
        /\ DOMAIN Append(room.order, id) = DOMAIN room.order \cup {Len(room.order) + 1}
        /\ Len(room.order) + 1 \notin DOMAIN room.order
        /\ \A i \in DOMAIN room.order : Append(room.order, id)[i] = room.order[i] /\ room.order[i] \in D
        /\ Append(room.order, id)[Len(room.order) + 1] = id
    BY <2>4
  <2>9. Coherent(d)
    BY <2>3, <2>4, <2>5, <2>8 DEF Coherent
  <2>10. CacheLen(d) = Len(d.order) /\ CacheLen(d) <= MaxSkippedKeys
    BY <2>4, <2>5, <2>7, <2>8 DEF CacheLen
  <2>. QED  BY <2>5, <2>6, <2>7, <2>8, <2>9, <2>10 DEF CacheOK, d
<1>. QED  BY <1>1, <1>2

LEMMA TakeOK ==
  ASSUME NEW c, CacheOK(c), NEW id \in DOMAIN c.keys
  PROVE  LET d == Take(c, id)
         IN  /\ CacheOK(d) /\ DOMAIN d.keys = DOMAIN c.keys \ {id}
             /\ \A i \in DOMAIN d.keys : d.keys[i] = c.keys[i]
<1> DEFINE d == Take(c, id)
           D == DOMAIN c.keys
           S == D \ {id}
           kept == Retain(c.order, S)
<1>1. /\ c.order \in Seq(D) /\ IsFiniteSet(D) /\ Cardinality(D) = Len(c.order)
      /\ Cardinality(D) <= MaxSkippedKeys /\ Cardinality(D) \in Nat /\ MaxSkippedKeys \in Nat
      /\ {c.order[i] : i \in DOMAIN c.order} = D
      /\ \A i, j \in DOMAIN c.order : c.order[i] = c.order[j] => i = j
  BY FS_CardinalityType, MaxSkippedKeysAssumption DEF CacheOK, CacheLen, Coherent
<1>2. /\ d = [keys |-> d.keys, order |-> d.order] /\ d.order = kept /\ DOMAIN d.keys = S
      /\ d.keys = [i \in DOMAIN d.keys |-> d.keys[i]]
      /\ \A i \in DOMAIN d.keys : d.keys[i] = c.keys[i]
  BY DEF Take
<1> HIDE DEF d
<1>3. /\ kept \in Seq(D) /\ {kept[i] : i \in DOMAIN kept} = {c.order[i] : i \in Counted(c.order, S)}
      /\ Len(kept) = Cardinality(Counted(c.order, S))
      /\ \A i, j \in DOMAIN kept : kept[i] = kept[j] => i = j
  <2> HIDE DEF S, D
  <2>0. c.order \in Seq(D)
    BY <1>1
  <2>1. kept \in Seq(D)
    BY <2>0, RetainProperties
  <2>1a. {kept[i] : i \in DOMAIN kept} = {c.order[i] : i \in Counted(c.order, S)}
    BY <2>0, RetainProperties
  <2>1b. Len(kept) = Cardinality(Counted(c.order, S))
    BY <2>0, RetainProperties
  <2>2. \A i, j \in DOMAIN kept : kept[i] = kept[j] => i = j
    BY <1>1, RetainProperties
  <2>. QED  BY <2>1, <2>1a, <2>1b, <2>2
<1> HIDE DEF kept
<1>4. {kept[i] : i \in DOMAIN kept} = S
  <2>1. {c.order[i] : i \in Counted(c.order, S)} = S
    BY <1>1 DEF Counted
  <2>. QED  BY <1>3, <2>1
<1>5. kept \in Seq(S)
  <2>1. \A i \in DOMAIN kept : kept[i] \in S
    BY <1>4
  <2>2. Len(kept) \in Nat /\ kept \in [1 .. Len(kept) -> D] /\ DOMAIN kept = 1 .. Len(kept)
    BY <1>3
  <2>3. kept \in [1 .. Len(kept) -> S]
    BY <2>1, <2>2
  <2>. QED  BY <2>2, <2>3, SeqDef
<1>6. PICK n \in DOMAIN c.order : c.order[n] = id
  BY <1>1
<1>7. Counted(c.order, S) = DOMAIN c.order \ {n}
  BY <1>1, <1>6 DEF Counted
<1>8. IsFiniteSet(DOMAIN c.order) /\ Cardinality(DOMAIN c.order) = Len(c.order)
  <2>1. DOMAIN c.order = 1 .. Len(c.order) /\ Len(c.order) \in Nat
    BY <1>1
  <2>. QED  BY <2>1, FS_Interval
<1>9. Len(kept) = Cardinality(D) - 1
  <2>1. Cardinality(DOMAIN c.order \ {n}) = Cardinality(DOMAIN c.order) - 1
    BY <1>6, <1>8, FS_RemoveElement
  <2>. QED  BY <1>1, <1>3, <1>7, <1>8, <2>1
<1>10. IsFiniteSet(S) /\ Cardinality(S) = Cardinality(D) - 1
  BY <1>1, FS_RemoveElement
<1> HIDE DEF S, D
<1>11. Coherent(d)
  BY <1>2, <1>3, <1>4 DEF Coherent
<1>12. CacheLen(d) = Len(d.order) /\ CacheLen(d) <= MaxSkippedKeys
  BY <1>1, <1>2, <1>9, <1>10 DEF CacheLen
<1>. QED  BY <1>2, <1>5, <1>10, <1>11, <1>12 DEF CacheOK, d, S, D

(* The recursion of CacheSkipped is one. *)
LEMMA CacheSkippedDef ==
  ASSUME NEW s, NEW until, until - s.nr \in Nat
  PROVE  \E cache :
           /\ cache[0] = s.skipped
           /\ \A i \in 1 .. until - s.nr :
                cache[i] = Insert(cache[i - 1], <<s.dhr, s.nr + i - 1>>, Advance(s.recvCK, i - 1))
           /\ CacheSkipped(s, until) = cache[until - s.nr]
<1> DEFINE n == until - s.nr
           Step(f, i) == IF i = 0 THEN s.skipped
                         ELSE Insert(f[i - 1], <<s.dhr, s.nr + i - 1>>, Advance(s.recvCK, i - 1))
           IsCache(f, k) == f = [i \in 0 .. k |-> Step(f, i)]
           G == {k \in Nat : \E f : IsCache(f, k)}
<1>1. 0 \in G
  <2> DEFINE g == [i \in 0 .. 0 |-> s.skipped]
  <2>1. IsCache(g, 0)
    OBVIOUS
  <2>. QED  BY <2>1
<1>2. ASSUME NEW k \in 1 .. n, k - 1 \in G
      PROVE  k \in G
  <2>1. PICK f : IsCache(f, k - 1)
    BY <1>2
  <2> DEFINE g == [i \in 0 .. k |-> IF i = k THEN Step(f, k) ELSE f[i]]
  <2>2. k \in Nat \ {0} /\ k - 1 \in 0 .. k - 1 /\ k - 1 # k
    OBVIOUS
  <2>3. g[k] = Step(f, k) /\ \A i \in 0 .. k - 1 : g[i] = f[i]
    BY <2>2
  <2>4. \A i \in 0 .. k - 1 : f[i] = Step(f, i)
    BY <2>1
  <2>5. \A i \in 0 .. k - 1 : Step(f, i) = Step(g, i)
    BY <2>3
  <2>6. Step(f, k) = Step(g, k)
    BY <2>2, <2>3
  <2>7. \A i \in 0 .. k : g[i] = Step(g, i)
    <3> HIDE DEF Step, g
    <3>1. \A i \in 0 .. k : i = k \/ i \in 0 .. k - 1
      BY <2>2
    <3>. QED  BY <2>3, <2>4, <2>5, <2>6, <3>1
  <2>8. IsCache(g, k)
    <3> HIDE DEF Step
    <3>. QED  BY <2>7
  <2>. QED  BY <2>2, <2>8
<1>3. n \in Nat /\ n \in G
  <2> HIDE DEF G
  <2>1. \A i \in 0 .. n : i \in G
    BY <1>1, <1>2, Induction
  <2>. QED  BY <2>1
<1>4. \E f : IsCache(f, n)
  BY <1>3
<1>5. PICK cache : IsCache(cache, n) /\ CacheSkipped(s, until) = cache[n]
  <2>1. CacheSkipped(s, until) = (CHOOSE f : IsCache(f, n))[n]
    BY DEF CacheSkipped
  <2>. QED  BY <1>4, <2>1
<1>6. \A i \in 0 .. n : cache[i] = Step(cache, i)
  <2> HIDE DEF Step
  <2>. QED  BY <1>5
<1>7. cache[0] = s.skipped
  <2>1. 0 \in 0 .. n
    BY <1>3
  <2>. QED  BY <1>6, <2>1
<1>8. \A i \in 1 .. n : cache[i] = Insert(cache[i - 1], <<s.dhr, s.nr + i - 1>>, Advance(s.recvCK, i - 1))
  BY <1>6
<1>. QED  BY <1>5, <1>7, <1>8

(* What the loop of skip_missed_messages leaves: a cache in order, in which every key is
   one from before or that of a number that was passed over. *)
LEMMA CacheSkippedOK ==
  ASSUME NEW s, CacheOK(s.skipped), NEW until, s.nr \in Nat, until \in Nat, s.nr <= until
  PROVE  LET c == CacheSkipped(s, until)
         IN  /\ CacheOK(c)
             /\ until = s.nr => c = s.skipped
             /\ until # s.nr => DOMAIN c.keys # {}
             /\ \A id \in DOMAIN c.keys :
                  \/ id \in DOMAIN s.skipped.keys /\ c.keys[id] = s.skipped.keys[id]
                  \/ \E i \in 0 .. until - s.nr - 1 :
                       id = <<s.dhr, s.nr + i>> /\ c.keys[id] = Advance(s.recvCK, i)
<1> DEFINE n == until - s.nr
           Id(i) == <<s.dhr, s.nr + i>>
           Key(i) == Advance(s.recvCK, i)
<1>1. n \in Nat
  OBVIOUS
<1>2. PICK cache :
        /\ cache[0] = s.skipped
        /\ \A i \in 1 .. n : cache[i] = Insert(cache[i - 1], <<s.dhr, s.nr + i - 1>>, Key(i - 1))
        /\ CacheSkipped(s, until) = cache[n]
  BY <1>1, CacheSkippedDef
<1>3. \A i \in 1 .. n : cache[i] = Insert(cache[i - 1], Id(i - 1), Key(i - 1))
  <2>1. \A i \in 1 .. n : s.nr + i - 1 = s.nr + (i - 1)
    OBVIOUS
  <2>. QED  BY <1>2, <2>1
<1> HIDE DEF Id, Key
<1> DEFINE From(id, key, k) ==
             \/ id \in DOMAIN s.skipped.keys /\ key = s.skipped.keys[id]
             \/ \E i \in 0 .. k - 1 : id = Id(i) /\ key = Key(i)
           Good(k) == /\ CacheOK(cache[k])
                      /\ \A id \in DOMAIN cache[k].keys : From(id, cache[k].keys[id], k)
<1>4. Good(0)
  BY <1>2
<1>5. ASSUME NEW k \in 1 .. n, Good(k - 1)
      PROVE  Good(k) /\ Id(k - 1) \in DOMAIN cache[k].keys
  <2>1. /\ CacheOK(cache[k]) /\ Id(k - 1) \in DOMAIN cache[k].keys
        /\ PutIn(cache[k - 1], cache[k], Id(k - 1), Key(k - 1))
    BY <1>3, <1>5, InsertOK
  <2>2. ASSUME NEW id \in DOMAIN cache[k].keys
        PROVE  From(id, cache[k].keys[id], k)
    <3>1. CASE id = Id(k - 1)
      <4>1. cache[k].keys[id] = Key(k - 1) /\ k - 1 \in 0 .. k - 1
        BY <1>1, <2>1, <2>2, <3>1 DEF PutIn
      <4>. QED  BY <3>1, <4>1
    <3>2. CASE id # Id(k - 1)
      <4>1. id \in DOMAIN cache[k - 1].keys /\ cache[k].keys[id] = cache[k - 1].keys[id]
        BY <2>1, <2>2, <3>2 DEF PutIn
      <4>2. From(id, cache[k].keys[id], k - 1)
        BY <1>5, <4>1
      <4>3. \A i \in 0 .. k - 1 - 1 : i \in 0 .. k - 1
        BY <1>1
      <4>. QED  BY <4>2, <4>3
    <3>. QED  BY <3>1, <3>2
  <2>. QED  BY <2>1, <2>2
<1>6. \A k \in 0 .. n : Good(k)
  <2> DEFINE G == {k \in 0 .. n : Good(k)}
  <2> HIDE DEF Good
  <2>1. 0 \in G /\ \A k \in 1 .. n : k - 1 \in G => k \in G
    BY <1>1, <1>4, <1>5
  <2> HIDE DEF G
  <2>2. \A k \in 0 .. n : k \in G
    BY <1>1, <2>1, Induction
  <2>. QED  BY <2>2 DEF G
<1>7. until # s.nr => DOMAIN cache[n].keys # {}
  <2>1. until # s.nr => n \in 1 .. n /\ n - 1 \in 0 .. n
    BY <1>1
  <2>. QED  BY <1>5, <1>6, <2>1
<1>8. Good(n)
  BY <1>1, <1>6
<1>9. until = s.nr => cache[n] = s.skipped
  BY <1>2
<1> HIDE DEF n
<1>. QED  BY <1>2, <1>7, <1>8, <1>9 DEF Id, Key, n

Fields == {"root", "sendCK", "recvCK", "dhs", "dhr", "ns", "nr", "pn", "skipped"}

AllKeyPairs == Party \X Nat

Known(count) == {k \in AllKeyPairs : k[2] <= count[k[1]]}

ChainKeys == [chain : Seq(SUBSET AllKeyPairs), step : Nat]

-----------------------------------------------------------------------------
(* What the operators do to the fields that sending uses *)

SameSending(s, t) ==
  /\ DOMAIN t = Fields
  /\ t.root = s.root /\ t.sendCK = s.sendCK /\ t.dhs = s.dhs
  /\ t.ns = s.ns /\ t.pn = s.pn

NextSending(s, t, theirs, fresh) ==
  LET root1 == Append(s.root, DH(s.dhs, theirs))
  IN  /\ DOMAIN t = Fields
      /\ t.root = Append(root1, DH(fresh, theirs))
      /\ t.sendCK = [chain |-> Append(root1, DH(fresh, theirs)), step |-> 0]
      /\ t.dhs = fresh
      /\ t.ns = 0 /\ t.pn = s.ns

LEMMA SkipKeeps ==
  ASSUME NEW s, DOMAIN s = Fields, NEW until
  PROVE  SameSending(s, Skip(s, until))
BY DEF Skip, SameSending, Fields

LEMMA DhRatchetMoves ==
  ASSUME NEW s, DOMAIN s = Fields, NEW theirs, NEW fresh
  PROVE  NextSending(s, DhRatchet(s, theirs, fresh), theirs, fresh)
BY DEF DhRatchet, NextSending, MixRoot, NewChain, Fields

LEMMA RatchetedMoves ==
  ASSUME NEW s, DOMAIN s = Fields, NEW m, NEW fresh
  PROVE  /\ ~NeedsRatchet(s, m) => SameSending(s, Ratcheted(s, m, fresh))
         /\ NeedsRatchet(s, m) => NextSending(s, Ratcheted(s, m, fresh), m.dh, fresh)
<1>1. CASE NeedsRatchet(s, m)
  <2> DEFINE k == Skip(s, m.pn)
  <2>1. SameSending(s, k)
    BY SkipKeeps
  <2>2. NextSending(k, DhRatchet(k, m.dh, fresh), m.dh, fresh)
    BY <2>1, DhRatchetMoves DEF SameSending
  <2>3. Ratcheted(s, m, fresh) = DhRatchet(k, m.dh, fresh)
    BY <1>1 DEF Ratcheted
  <2> HIDE DEF k
  <2>. QED  BY <1>1, <2>1, <2>2, <2>3 DEF SameSending, NextSending
<1>2. CASE ~NeedsRatchet(s, m)
  BY <1>2 DEF Ratcheted, SameSending
<1>. QED  BY <1>1, <1>2

(* A decryption, successful or not, keeps what sending uses, unless it
   ratchets. *)
LEMMA DecryptMoves ==
  ASSUME NEW s, DOMAIN s = Fields, NEW m, NEW fresh
  PROVE  /\ ~Ratchets(s, m) => SameSending(s, Decrypt(s, m, fresh).st)
         /\ Ratchets(s, m) => NextSending(s, Decrypt(s, m, fresh).st, m.dh, fresh)
<1> DEFINE r == Ratcheted(s, m, fresh)
           k == Skip(r, m.n)
           t == Decrypt(s, m, fresh).st
<1>1. CASE HasSkippedKey(s, m)
  <2>1. t = [s EXCEPT !.skipped = Take(@, <<m.dh, m.n>>)]
    BY <1>1 DEF Decrypt, Decryption
  <2>2. SameSending(s, t)
    BY <2>1 DEF SameSending, Fields
  <2>. QED  BY <1>1, <2>2 DEF Ratchets
<1>2. CASE ~HasSkippedKey(s, m) /\ NeedsRatchet(s, m) /\ SkipFails(s, m.pn)
  BY <1>2 DEF Decrypt, Decryption, Ratchets, SameSending
<1>3. CASE ~HasSkippedKey(s, m) /\ ~(NeedsRatchet(s, m) /\ SkipFails(s, m.pn))
  <2>1. DOMAIN r = Fields
    BY RatchetedMoves DEF SameSending, NextSending
  <2>2. SameSending(r, k)
    BY <2>1, SkipKeeps
  <2>3. t \in {r, [k EXCEPT !.recvCK = Advance(@, 1)],
               [k EXCEPT !.recvCK = Advance(@, 1), !.nr = @ + 1]}
    BY <1>3 DEF Decrypt, Decryption
  <2>4. SameSending(r, t)
    <3> HIDE DEF r, k, t
    <3>. QED  BY <2>1, <2>2, <2>3 DEF SameSending, Fields
  <2>5. Ratchets(s, m) <=> NeedsRatchet(s, m)
    BY <1>3 DEF Ratchets
  <2>6. /\ ~NeedsRatchet(s, m) => SameSending(s, r)
        /\ NeedsRatchet(s, m) => NextSending(s, r, m.dh, fresh)
    BY RatchetedMoves
  <2> HIDE DEF r, k, t
  <2>7. /\ ~NeedsRatchet(s, m) => SameSending(s, t)
        /\ NeedsRatchet(s, m) => NextSending(s, t, m.dh, fresh)
    BY <2>4, <2>6 DEF SameSending, NextSending
  <2>. QED  BY <2>5, <2>7 DEF t
<1>. QED  BY <1>1, <1>2, <1>3


-----------------------------------------------------------------------------
(* Keys a state is past *)

Reaches(root, key, n) == \E j \in Nat : Len(root) = Len(key.chain) + 2 * j + n

(* A key of a chain that was received on, and the state is past it. *)
Spent(s, key) ==
  /\ key \in ChainKeys /\ Reaches(s.root, key, 1)
  /\ s.recvCK # NoKey /\ s.recvCK.chain = key.chain => key.step < s.recvCK.step

Gone(s, key) ==
  /\ Spent(s, key)
  /\ \A id \in DOMAIN s.skipped.keys : s.skipped.keys[id] # key

ReceivingOK(s) ==
  /\ DOMAIN s = Fields
  /\ s.root \in Seq(SUBSET AllKeyPairs)
  /\ CacheOK(s.skipped)
  /\ s.nr \in Nat
  /\ s.recvCK # NoKey => s.recvCK \in ChainKeys /\ Reaches(s.root, s.recvCK, 1)
  /\ \A id \in DOMAIN s.skipped.keys : Spent(s, s.skipped.keys[id])
  /\ \A i, j \in DOMAIN s.skipped.keys : s.skipped.keys[i] = s.skipped.keys[j] => i = j

(* t is further on than s: what was gone stays gone. *)
Further(s, t) == ReceivingOK(t) /\ \A key : Gone(s, key) => Gone(t, key)

LEMMA NoKeyIsNone == NoKey \notin ChainKeys /\ NoKey \notin AllKeyPairs
BY RatchetAssumption DEF ChainKeys, AllKeyPairs

LEMMA AdvanceStep ==
  ASSUME NEW ck \in ChainKeys, NEW n \in Nat
  PROVE  /\ Advance(ck, n) \in ChainKeys /\ Advance(ck, n).chain = ck.chain
         /\ Advance(ck, n).step = ck.step + n
BY DEF Advance, ChainKeys

LEMMA SkipFurther ==
  ASSUME NEW s, ReceivingOK(s), NEW until \in Nat
  PROVE  Further(s, Skip(s, until))
<1> DEFINE t == Skip(s, until)
<1>1. CASE s.nr > until \/ s.recvCK = NoKey
  <2>1. t = s
    BY <1>1 DEF Skip
  <2> HIDE DEF t
  <2>. QED  BY <2>1 DEF Further, t
<1>2. CASE ~(s.nr > until \/ s.recvCK = NoKey)
  <2> DEFINE c == CacheSkipped(s, until)
             n == until - s.nr
  <2>1. /\ s.nr \in Nat /\ s.nr <= until /\ n \in Nat
        /\ s.recvCK \in ChainKeys /\ Reaches(s.root, s.recvCK, 1)
        /\ s.recvCK.step \in Nat
    BY <1>2 DEF ReceivingOK, ChainKeys
  <2>2. /\ CacheOK(c)
        /\ \A id \in DOMAIN c.keys :
             \/ id \in DOMAIN s.skipped.keys /\ c.keys[id] = s.skipped.keys[id]
             \/ \E i \in 0 .. n - 1 : id = <<s.dhr, s.nr + i>> /\ c.keys[id] = Advance(s.recvCK, i)
    BY <2>1, CacheSkippedOK DEF ReceivingOK
  <2>3. t = [s EXCEPT !.skipped = c, !.recvCK = Advance(@, n), !.nr = until]
    BY <1>2 DEF Skip
  <2> HIDE DEF c, t, n
  <2>4. /\ DOMAIN t = Fields /\ t.root = s.root /\ t.skipped = c /\ t.nr = until
        /\ t.recvCK = Advance(s.recvCK, n)
    BY <2>3 DEF ReceivingOK, Fields
  <2>5. /\ t.recvCK \in ChainKeys /\ t.recvCK.chain = s.recvCK.chain
        /\ t.recvCK.step = s.recvCK.step + n
    <3>1. /\ Advance(s.recvCK, n) \in ChainKeys /\ Advance(s.recvCK, n).chain = s.recvCK.chain
          /\ Advance(s.recvCK, n).step = s.recvCK.step + n
      BY ZenonT(40), <2>1, AdvanceStep
    <3>. QED  BY SMTT(30), <2>4, <3>1
  <2>6. Reaches(t.root, t.recvCK, 1)
    BY <2>1, <2>4, <2>5 DEF Reaches
  <2>7. ASSUME NEW key, Spent(s, key)
        PROVE  Spent(t, key)
    <3>1. key.step \in Nat
      BY <2>7 DEF Spent, ChainKeys
    <3>2. s.recvCK # NoKey
      BY <1>2
    <3>. QED  BY <2>1, <2>4, <2>5, <2>7, <3>1, <3>2 DEF Spent
  <2>8. ASSUME NEW i \in 0 .. n - 1
        PROVE  /\ Spent(t, Advance(s.recvCK, i))
               /\ Advance(s.recvCK, i).chain = s.recvCK.chain
               /\ Advance(s.recvCK, i).step = s.recvCK.step + i
    <3>0. i \in Nat /\ i < n
      BY <2>1
    <3>1. /\ Advance(s.recvCK, i) \in ChainKeys /\ Advance(s.recvCK, i).chain = s.recvCK.chain
          /\ Advance(s.recvCK, i).step = s.recvCK.step + i /\ i \in Nat /\ i < n
      BY <2>1, <3>0, AdvanceStep
    <3>2. Reaches(t.root, Advance(s.recvCK, i), 1)
      BY <2>1, <2>4, <3>1 DEF Reaches
    <3>3. s.recvCK.step + i < s.recvCK.step + n
      BY <2>1, <3>1
    <3>. QED  BY <2>5, <3>1, <3>2, <3>3 DEF Spent
  <2>9. \A id \in DOMAIN c.keys : Spent(t, c.keys[id])
    BY <2>2, <2>7, <2>8 DEF ReceivingOK
  <2>10. ASSUME NEW i \in DOMAIN c.keys, NEW j \in DOMAIN c.keys, c.keys[i] = c.keys[j]
         PROVE  i = j
    <3> DEFINE Old(id) == id \in DOMAIN s.skipped.keys /\ c.keys[id] = s.skipped.keys[id]
               New(id, k) == id = <<s.dhr, s.nr + k>> /\ c.keys[id] = Advance(s.recvCK, k)
    <3>0. /\ Old(i) \/ \E k \in 0 .. n - 1 : New(i, k)
          /\ Old(j) \/ \E k \in 0 .. n - 1 : New(j, k)
      BY <2>2
    <3>1. CASE Old(i) /\ Old(j)
      BY <2>10, <3>1 DEF ReceivingOK
    <3>2. ASSUME NEW a \in DOMAIN c.keys, Old(a), NEW b \in DOMAIN c.keys, NEW k \in 0 .. n - 1, New(b, k),
                 c.keys[a] = c.keys[b]
          PROVE  FALSE
      <4>1. Spent(s, c.keys[a]) /\ s.recvCK # NoKey
        BY <1>2, <3>2 DEF ReceivingOK
      <4>2. c.keys[a].chain = s.recvCK.chain /\ c.keys[a].step = s.recvCK.step + k
        BY <2>8, <3>2
      <4>3. s.recvCK.step + k < s.recvCK.step
        BY <4>1, <4>2 DEF Spent
      <4>. QED  BY <2>1, <4>3
    <3>3. ASSUME NEW k \in 0 .. n - 1, New(i, k), NEW l \in 0 .. n - 1, New(j, l)
          PROVE  i = j
      <4>1. s.recvCK.step + k = s.recvCK.step + l
        BY <2>8, <2>10, <3>3
      <4>2. k = l
        BY <2>1, <4>1
      <4>. QED  BY <3>3, <4>2
    <3> HIDE DEF Old, New
    <3>. QED  BY <2>10, <3>0, <3>1, <3>2, <3>3
  <2>11. ASSUME NEW key, Gone(s, key)
         PROVE  Gone(t, key)
    <3>1. Spent(t, key) /\ Spent(s, key)
      BY <2>7, <2>11 DEF Gone
    <3>2. ASSUME NEW i \in 0 .. n - 1, Advance(s.recvCK, i) = key
          PROVE  FALSE
      <4>1. key.chain = s.recvCK.chain /\ key.step = s.recvCK.step + i /\ s.recvCK # NoKey
        BY <1>2, <2>8, <3>2
      <4>2. s.recvCK.step + i < s.recvCK.step
        BY <3>1, <4>1 DEF Spent
      <4>. QED  BY <2>1, <4>2
    <3>3. \A id \in DOMAIN c.keys : c.keys[id] # key
      BY <2>2, <2>11, <3>2 DEF Gone
    <3>. QED  BY <2>4, <3>1, <3>3 DEF Gone
  <2>12. ReceivingOK(t)
    BY <2>1, <2>2, <2>4, <2>5, <2>6, <2>9, <2>10 DEF ReceivingOK
  <2>. QED  BY <2>11, <2>12 DEF Further, t
<1>. QED  BY <1>1, <1>2

LEMMA DhRatchetFurther ==
  ASSUME NEW s, ReceivingOK(s), s.dhs \in AllKeyPairs, NEW theirs \in AllKeyPairs,
         NEW fresh \in AllKeyPairs
  PROVE  LET t == DhRatchet(s, theirs, fresh)
         IN  /\ Further(s, t)
             /\ t.recvCK = NewChain(s.root, DH(s.dhs, theirs)) /\ t.recvCK # NoKey
             /\ t.nr = 0 /\ t.dhr = theirs /\ t.skipped = s.skipped
<1> DEFINE t == DhRatchet(s, theirs, fresh)
           root1 == Append(s.root, DH(s.dhs, theirs))
           root2 == Append(root1, DH(fresh, theirs))
<1>1. /\ DOMAIN t = Fields /\ t.root = root2 /\ t.recvCK = [chain |-> root1, step |-> 0]
      /\ t.nr = 0 /\ t.dhr = theirs /\ t.skipped = s.skipped
  BY DEF DhRatchet, MixRoot, NewChain, ReceivingOK, Fields
<1>2. DH(s.dhs, theirs) \in SUBSET AllKeyPairs /\ DH(fresh, theirs) \in SUBSET AllKeyPairs
  BY DEF DH
<1>3. s.root \in Seq(SUBSET AllKeyPairs) /\ Len(s.root) \in Nat
  BY DEF ReceivingOK
<1>4. /\ root1 \in Seq(SUBSET AllKeyPairs) /\ Len(root1) = Len(s.root) + 1
      /\ root2 \in Seq(SUBSET AllKeyPairs) /\ Len(root2) = Len(s.root) + 2
  BY <1>2, <1>3
<1> HIDE DEF t, root1, root2
<1>5. t.recvCK \in ChainKeys /\ t.recvCK.chain = root1 /\ t.recvCK # NoKey
  BY <1>1, <1>4, NoKeyIsNone DEF ChainKeys
<1>6. Reaches(t.root, t.recvCK, 1)
  <2>1. Len(t.root) = Len(t.recvCK.chain) + 2 * 0 + 1
    BY <1>1, <1>3, <1>4, <1>5
  <2>. QED  BY <2>1 DEF Reaches
<1>7. ASSUME NEW key, Spent(s, key)
      PROVE  Spent(t, key)
  <2>1. PICK j \in Nat : Len(s.root) = Len(key.chain) + 2 * j + 1
    BY <1>7 DEF Spent, Reaches
  <2>2. key \in ChainKeys /\ Len(key.chain) \in Nat
    BY <1>7 DEF Spent, ChainKeys
  <2>3. Len(t.root) = Len(s.root) + 2 /\ Len(t.recvCK.chain) = Len(s.root) + 1
    BY <1>1, <1>4, <1>5
  <2>4. \A a, b \in Nat : a = b + 2 * j + 1 => a + 2 = b + 2 * (j + 1) + 1 /\ a + 1 # b
    OBVIOUS
  <2>5. Len(t.root) = Len(key.chain) + 2 * (j + 1) + 1
    <3>1. Len(s.root) = Len(key.chain) + 2 * j + 1
      BY <2>1
    <3>2. Len(s.root) + 2 = Len(key.chain) + 2 * (j + 1) + 1
      BY <1>3, <2>2, <2>4, <3>1
    <3>. QED  BY <2>3, <3>2
  <2>6. t.recvCK.chain # key.chain
    BY <1>3, <2>1, <2>2, <2>3, <2>4
  <2>. QED  BY <1>5, <2>2, <2>5, <2>6, j + 1 \in Nat DEF Spent, Reaches
<1>8. ReceivingOK(t)
  BY <1>1, <1>4, <1>5, <1>6, <1>7 DEF ReceivingOK
<1>9. \A key : Gone(s, key) => Gone(t, key)
  BY <1>1, <1>7 DEF Gone
<1>10. t.recvCK = NewChain(s.root, DH(s.dhs, theirs))
  BY <1>1 DEF NewChain, root1
<1>. QED  BY <1>1, <1>5, <1>8, <1>9, <1>10 DEF Further, t

(* A key is taken from the receiving chain. *)
LEMMA AdvanceFurther ==
  ASSUME NEW s, ReceivingOK(s), s.recvCK # NoKey, NEW n \in Nat
  PROVE  LET t == [s EXCEPT !.recvCK = Advance(@, 1), !.nr = n]
         IN  Further(s, t) /\ Gone(t, s.recvCK)
<1> DEFINE t == [s EXCEPT !.recvCK = Advance(@, 1), !.nr = n]
<1>1. /\ DOMAIN t = Fields /\ t.root = s.root /\ t.recvCK = Advance(s.recvCK, 1)
      /\ t.nr = n /\ t.skipped = s.skipped
  BY DEF ReceivingOK, Fields
<1>2. s.recvCK \in ChainKeys /\ Reaches(s.root, s.recvCK, 1) /\ s.recvCK.step \in Nat
  BY DEF ReceivingOK, ChainKeys
<1> HIDE DEF t
<1>3. /\ t.recvCK \in ChainKeys /\ t.recvCK.chain = s.recvCK.chain
      /\ t.recvCK.step = s.recvCK.step + 1
  <2>1. 1 \in Nat
    OBVIOUS
  <2>2. /\ Advance(s.recvCK, 1) \in ChainKeys /\ Advance(s.recvCK, 1).chain = s.recvCK.chain
        /\ Advance(s.recvCK, 1).step = s.recvCK.step + 1
    BY ZenonT(40), <1>2, <2>1, AdvanceStep
  <2>. QED  BY SMTT(30), <1>1, <2>2
<1>4. Reaches(t.root, t.recvCK, 1)
  BY <1>1, <1>2, <1>3 DEF Reaches
<1>5. ASSUME NEW key, Spent(s, key)
      PROVE  Spent(t, key)
  <2>1. key.step \in Nat
    BY <1>5 DEF Spent, ChainKeys
  <2>. QED  BY <1>1, <1>2, <1>3, <1>5, <2>1 DEF Spent
<1>6. Spent(t, s.recvCK)
  BY <1>1, <1>2, <1>3 DEF Spent
<1>7. \A id \in DOMAIN t.skipped.keys : t.skipped.keys[id] # s.recvCK
  BY <1>1, <1>2 DEF ReceivingOK, Spent
<1>8. ReceivingOK(t)
  BY <1>1, <1>3, <1>4, <1>5 DEF ReceivingOK
<1>. QED  BY <1>1, <1>5, <1>6, <1>7, <1>8 DEF Further, Gone, t

(* A key is taken from the cache. *)
LEMMA TakeFurther ==
  ASSUME NEW s, ReceivingOK(s), NEW id \in DOMAIN s.skipped.keys
  PROVE  LET t == [s EXCEPT !.skipped = Take(@, id)]
         IN  Further(s, t) /\ Gone(t, s.skipped.keys[id])
<1> DEFINE t == [s EXCEPT !.skipped = Take(@, id)]
<1>1. /\ DOMAIN t = Fields /\ t.root = s.root /\ t.recvCK = s.recvCK
      /\ t.nr = s.nr /\ t.skipped = Take(s.skipped, id)
  BY DEF ReceivingOK, Fields
<1> HIDE DEF t
<1>2. /\ CacheOK(t.skipped) /\ DOMAIN t.skipped.keys = DOMAIN s.skipped.keys \ {id}
      /\ \A i \in DOMAIN t.skipped.keys : t.skipped.keys[i] = s.skipped.keys[i]
  BY <1>1, TakeOK DEF ReceivingOK
<1>3. \A key : Spent(s, key) <=> Spent(t, key)
  BY <1>1 DEF Spent
<1>4. ReceivingOK(t)
  BY <1>1, <1>2, <1>3 DEF ReceivingOK
<1>5. \A key : Gone(s, key) => Gone(t, key)
  BY <1>2, <1>3 DEF Gone
<1>6. Gone(t, s.skipped.keys[id])
  BY <1>2, <1>3 DEF Gone, ReceivingOK
<1>. QED  BY <1>4, <1>5, <1>6 DEF Further, t

(* What decrypt is given: the header of a message. *)
Header(m) == m.n \in Nat /\ m.pn \in Nat /\ m.dh \in AllKeyPairs

LEMMA FurtherTrans ==
  ASSUME NEW s, NEW t, NEW u, Further(s, t), Further(t, u)
  PROVE  Further(s, u)
BY DEF Further

LEMMA RatchetedFurther ==
  ASSUME NEW s, ReceivingOK(s), s.dhs \in AllKeyPairs, NEW m, Header(m), NEW fresh \in AllKeyPairs
  PROVE  Further(s, Ratcheted(s, m, fresh))
<1>1. CASE NeedsRatchet(s, m)
  <2> DEFINE k == Skip(s, m.pn)
  <2>1. Further(s, k) /\ ReceivingOK(k)
    BY SkipFurther DEF Header, Further
  <2>2. k.dhs = s.dhs
    BY SkipKeeps DEF SameSending, ReceivingOK
  <2> HIDE DEF k
  <2>3. Further(k, DhRatchet(k, m.dh, fresh))
    BY <2>1, <2>2, DhRatchetFurther DEF Header
  <2>4. Ratcheted(s, m, fresh) = DhRatchet(k, m.dh, fresh)
    BY <1>1 DEF Ratcheted, k
  <2>. QED  BY <2>1, <2>3, <2>4, FurtherTrans
<1>2. CASE ~NeedsRatchet(s, m)
  BY <1>2 DEF Ratcheted, Further
<1>. QED  BY <1>1, <1>2

(* decrypt only moves on, and past the key of what it opened. *)
LEMMA DecryptFurther ==
  ASSUME NEW s, ReceivingOK(s), s.dhs \in AllKeyPairs, NEW m, Header(m), NEW fresh \in AllKeyPairs
  PROVE  LET d == Decrypt(s, m, fresh)
         IN  Further(s, d.st) /\ (d.ok => Gone(d.st, m.key))
<1> DEFINE d == Decrypt(s, m, fresh)
           r == Ratcheted(s, m, fresh)
           k == Skip(r, m.n)
<1>1. CASE HasSkippedKey(s, m)
  <2> DEFINE id == <<m.dh, m.n>>
  <2>1. id \in DOMAIN s.skipped.keys
    BY <1>1 DEF HasSkippedKey, HasKey
  <2>2. /\ d.st = [s EXCEPT !.skipped = Take(@, id)]
        /\ d.ok = (s.skipped.keys[id] = m.key)
    BY <1>1 DEF Decrypt, Decryption
  <2> HIDE DEF d, id
  <2>3. LET t == [s EXCEPT !.skipped = Take(@, id)]
        IN  Further(s, t) /\ Gone(t, s.skipped.keys[id])
    BY <2>1, TakeFurther
  <2>. QED  BY <2>2, <2>3 DEF d
<1>2. CASE ~HasSkippedKey(s, m) /\ NeedsRatchet(s, m) /\ SkipFails(s, m.pn)
  <2>1. d.st = s /\ d.ok = FALSE
    BY <1>2 DEF Decrypt, Decryption
  <2>. QED  BY <2>1 DEF Further
<1>3. CASE ~HasSkippedKey(s, m) /\ ~(NeedsRatchet(s, m) /\ SkipFails(s, m.pn))
  <2>1. Further(s, r) /\ ReceivingOK(r)
    BY RatchetedFurther DEF Further
  <2>2. CASE SkipFails(r, m.n) \/ r.recvCK = NoKey
    <3>1. d.st = r /\ d.ok = FALSE
      BY <1>3, <2>2 DEF Decrypt, Decryption
    <3> HIDE DEF d, r
    <3>. QED  BY <2>1, <3>1 DEF d
  <2>3. CASE ~(SkipFails(r, m.n) \/ r.recvCK = NoKey)
    <3>1. Further(r, k) /\ ReceivingOK(k)
      BY <2>1, SkipFurther DEF Header, Further
    <3>2. k.recvCK # NoKey
      <4> HIDE DEF r
      <4>1. CASE r.nr > m.n
        BY <2>3, <4>1 DEF Skip
      <4>2. CASE ~(r.nr > m.n)
        <5>1. /\ m.n - r.nr \in Nat /\ r.recvCK \in ChainKeys /\ DOMAIN r = Fields
          BY <2>1, <2>3, <4>2 DEF ReceivingOK, Header
        <5>2. k.recvCK = Advance(r.recvCK, m.n - r.nr)
          BY <2>3, <4>2, <5>1 DEF Skip, Fields
        <5> HIDE DEF k
        <5>. QED  BY <5>1, <5>2, AdvanceStep, NoKeyIsNone
      <4>. QED  BY <4>1, <4>2
    <3>3. \/ /\ k.recvCK # m.key /\ d.ok = FALSE
             /\ d.st = [k EXCEPT !.recvCK = Advance(@, 1)]
          \/ /\ k.recvCK = m.key /\ d.ok = TRUE
             /\ d.st = [k EXCEPT !.recvCK = Advance(@, 1), !.nr = @ + 1]
      BY <1>3, <2>3 DEF Decrypt, Decryption
    <3> HIDE DEF d, r, k
    <3>4. k.nr \in Nat /\ k.nr + 1 \in Nat /\ DOMAIN k = Fields
      BY <3>1 DEF ReceivingOK
    <3>5. [k EXCEPT !.recvCK = Advance(@, 1)] = [k EXCEPT !.recvCK = Advance(@, 1), !.nr = k.nr]
      BY <3>4 DEF Fields
    <3>6. Further(k, d.st) /\ (d.ok => Gone(d.st, m.key))
      <4>1. /\ Further(k, [k EXCEPT !.recvCK = Advance(@, 1), !.nr = k.nr])
            /\ Further(k, [k EXCEPT !.recvCK = Advance(@, 1), !.nr = k.nr + 1])
            /\ Gone([k EXCEPT !.recvCK = Advance(@, 1), !.nr = k.nr + 1], k.recvCK)
        BY <3>1, <3>2, <3>4, AdvanceFurther
      <4>2. [k EXCEPT !.recvCK = Advance(@, 1), !.nr = @ + 1]
              = [k EXCEPT !.recvCK = Advance(@, 1), !.nr = k.nr + 1]
        OBVIOUS
      <4>. QED  BY <3>3, <3>5, <4>1, <4>2
    <3>. QED  BY <2>1, <3>1, <3>6, FurtherTrans DEF d
  <2>. QED  BY <2>2, <2>3
<1>. QED  BY <1>1, <1>2, <1>3

(* What a state is past it never decrypts again. *)
LEMMA GoneFails ==
  ASSUME NEW s, ReceivingOK(s), s.dhs \in AllKeyPairs, NEW m, Header(m), NEW fresh \in AllKeyPairs,
         Gone(s, m.key)
  PROVE  ~Decrypt(s, m, fresh).ok
<1> DEFINE r == Ratcheted(s, m, fresh)
           k == Skip(r, m.n)
<1>1. CASE HasSkippedKey(s, m)
  <2>1. <<m.dh, m.n>> \in DOMAIN s.skipped.keys
    BY <1>1 DEF HasSkippedKey, HasKey
  <2>2. Decrypt(s, m, fresh).ok = (s.skipped.keys[<<m.dh, m.n>>] = m.key)
    BY <1>1 DEF Decrypt, Decryption
  <2>. QED  BY <2>1, <2>2 DEF Gone
<1>2. CASE ~HasSkippedKey(s, m) /\ Decrypt(s, m, fresh).ok
  <2>1. k.recvCK = m.key /\ r.recvCK # NoKey
    BY <1>2 DEF Decrypt, Decryption
  <2>2. Further(s, r)
    BY RatchetedFurther
  <2> HIDE DEF r
  <2>3. Further(r, k)
    BY <2>2, SkipFurther DEF Further, Header
  <2>4. Gone(k, m.key) /\ ReceivingOK(k)
    BY <2>2, <2>3 DEF Further
  <2> HIDE DEF k
  <2>5. m.key \in ChainKeys /\ m.key.step \in Nat /\ (k.recvCK # NoKey => m.key.step < m.key.step)
    BY <2>1, <2>4 DEF Gone, Spent, ChainKeys
  <2>. QED  BY <2>1, <2>5, NoKeyIsNone
<1>. QED  BY <1>1, <1>2

-----------------------------------------------------------------------------
(* Whose turn it is.  One party is ahead: its root key has one output more  *)
(* than its peer's.                                                         *)

IsState(s) == s = [f \in Fields |-> s[f]]

Message == [dh : AllKeyPairs, pn : Nat, n : Nat, key : ChainKeys]

SessionOK(s) ==
  /\ ReceivingOK(s) /\ IsState(s)
  /\ s.dhs \in AllKeyPairs /\ s.ns \in Nat /\ s.pn \in Nat
  /\ s.sendCK # NoKey => s.sendCK = [chain |-> s.root, step |-> s.ns]

\* m is the message number k of those that the receiving chain of s opens next.
Continues(m, s, k) ==
  /\ m.dh = s.dhr /\ m.n = s.nr + k
  /\ s.recvCK # NoKey /\ m.key = Advance(s.recvCK, k)

\* m is the message number k of the chain that s sends on.
OnChain(m, s, k) ==
  /\ m.dh = s.dhs /\ m.pn = s.pn /\ m.n = k
  /\ m.key = [chain |-> s.root, step |-> k]

\* s is ahead of u.  Of its messages `out` the peer has passed the first d, of the peer's
\* messages `in` it has passed the first c.  What the peer has not passed are messages of the
\* chain before, which u still receives on, and after them those of the present one.
Leads(s, u, out, in, c, d) ==
  /\ s.root = Append(u.root, DH(s.dhs, u.dhs)) /\ s.dhr = u.dhs /\ s.sendCK # NoKey
  /\ u.sendCK # NoKey => s.recvCK = [chain |-> u.root, step |-> s.nr]
  /\ u.ns = s.nr + (Len(in) - c)
  /\ \A j \in c + 1 .. Len(in) : Continues(in[j], s, j - (c + 1))
  /\ u.dhr # s.dhs /\ u.nr <= s.pn
  /\ LET old == d + (s.pn - u.nr)
     IN  /\ old <= Len(out)
         /\ \A j \in d + 1 .. old : Continues(out[j], u, j - (d + 1))
         /\ \A j \in old + 1 .. Len(out) : OnChain(out[j], s, j - (old + 1))
         /\ s.ns = Len(out) - old

LEMMA SealedRuns ==
  ASSUME NEW s, SessionOK(s), s.sendCK # NoKey
  PROVE  /\ Sealed(s) \in Message
         /\ OnChain(Sealed(s), s, s.ns)
         /\ SessionOK(AfterEncrypt(s))
         /\ LET t == AfterEncrypt(s)
            IN  /\ t.ns = s.ns + 1
                /\ \A f \in Fields \ {"ns", "sendCK"} : t[f] = s[f]
                /\ t.sendCK # NoKey
                /\ \A key : Gone(s, key) => Gone(t, key)
<1> DEFINE t == AfterEncrypt(s)
<1>1. /\ s.root \in Seq(SUBSET AllKeyPairs) /\ s.ns \in Nat /\ s.pn \in Nat /\ s.dhs \in AllKeyPairs
      /\ s.sendCK = [chain |-> s.root, step |-> s.ns] /\ DOMAIN s = Fields
  BY DEF SessionOK, ReceivingOK
<1>2. s.sendCK \in ChainKeys
  BY <1>1 DEF ChainKeys
<1>3. Sealed(s) \in Message /\ OnChain(Sealed(s), s, s.ns)
  BY <1>1, <1>2 DEF Sealed, Message, OnChain
<1>4. /\ t.ns = s.ns + 1 /\ t.sendCK = Advance(s.sendCK, 1)
      /\ \A f \in Fields \ {"ns", "sendCK"} : t[f] = s[f]
      /\ IsState(t)
  BY <1>1 DEF AfterEncrypt, Fields, IsState
<1>5. t.sendCK = [chain |-> s.root, step |-> s.ns + 1]
  BY <1>1, <1>4 DEF Advance
<1> HIDE DEF t
<1>6. /\ t.root = s.root /\ t.recvCK = s.recvCK /\ t.dhs = s.dhs /\ t.pn = s.pn /\ t.nr = s.nr
      /\ t.skipped = s.skipped /\ DOMAIN t = Fields
  BY <1>4 DEF Fields, IsState
<1>7. SessionOK(t)
  BY <1>1, <1>4, <1>5, <1>6 DEF SessionOK, ReceivingOK, Spent
<1>8. t.sendCK # NoKey
  <2>1. t.sendCK \in ChainKeys
    BY <1>1, <1>5 DEF ChainKeys
  <2>. QED  BY <2>1, NoKeyIsNone
<1>9. \A key : Gone(s, key) => Gone(t, key)
  BY <1>6 DEF Gone, Spent
<1>. QED  BY <1>3, <1>4, <1>7, <1>8, <1>9 DEF t

LEMMA AheadSends ==
  ASSUME NEW s, SessionOK(s), NEW u, SessionOK(u), NEW out \in Seq(Message), NEW in \in Seq(Message),
         NEW c \in Nat, NEW d \in Nat, Leads(s, u, out, in, c, d)
  PROVE  Leads(AfterEncrypt(s), u, Append(out, Sealed(s)), in, c, d)
<1> DEFINE t == AfterEncrypt(s)
           msg == Sealed(s)
           longer == Append(out, msg)
           old == d + (s.pn - u.nr)
<1>1. /\ msg \in Message /\ OnChain(msg, s, s.ns) /\ t.ns = s.ns + 1 /\ t.sendCK # NoKey
      /\ t.root = s.root /\ t.recvCK = s.recvCK /\ t.dhs = s.dhs /\ t.pn = s.pn /\ t.nr = s.nr /\ t.dhr = s.dhr
  BY SealedRuns DEF Leads, Fields
<1> HIDE DEF t, msg
<1>2. /\ Len(longer) = Len(out) + 1 /\ Len(out) \in Nat /\ longer[Len(out) + 1] = msg
      /\ \A j \in 1 .. Len(out) : longer[j] = out[j]
  BY <1>1
<1>3. /\ s.pn \in Nat /\ u.nr \in Nat /\ s.ns \in Nat /\ u.nr <= s.pn /\ old \in Nat /\ d <= old
      /\ old <= Len(out) /\ s.ns = Len(out) - old
  BY SMTT(60) DEF SessionOK, ReceivingOK, Leads
<1> HIDE DEF longer
<1>4. \A j \in d + 1 .. old : Continues(longer[j], u, j - (d + 1))
  <2> TAKE j \in d + 1 .. old
  <2>1. Continues(out[j], u, j - (d + 1))
    BY DEF Leads
  <2>2. longer[j] = out[j]
    <3>1. j \in 1 .. Len(out)
      BY <1>2, <1>3
    <3>. QED  BY <1>2, <3>1
  <2>. QED  BY <2>1, <2>2
<1>5. ASSUME NEW j \in old + 1 .. Len(longer)
      PROVE  OnChain(longer[j], t, j - (old + 1))
  <2>1. CASE j \in old + 1 .. Len(out)
    <3>1. j \in 1 .. Len(out)
      BY <1>2, <1>3, <2>1
    <3>2. longer[j] = out[j]
      BY <1>2, <3>1
    <3>3. OnChain(out[j], s, j - (old + 1))
      BY <2>1 DEF Leads
    <3>. QED  BY <1>1, <3>2, <3>3 DEF OnChain
  <2>2. CASE j = Len(out) + 1
    <3>1. j - (old + 1) = s.ns /\ longer[j] = msg
      BY <1>2, <1>3, <2>2
    <3>. QED  BY <1>1, <3>1 DEF OnChain
  <2>. QED  BY <1>2, <1>3, <2>1, <2>2
<1>6. \A j \in c + 1 .. Len(in) : Continues(in[j], t, j - (c + 1))
  BY <1>1 DEF Leads, Continues
<1>7. t.ns = Len(longer) - old /\ old <= Len(longer)
  BY <1>1, <1>2, <1>3
<1>8. Leads(t, u, longer, in, c, d)
  BY <1>1, <1>4, <1>5, <1>6, <1>7 DEF Leads
<1>. QED  BY <1>8 DEF t, longer, msg

LEMMA BehindSends ==
  ASSUME NEW s, SessionOK(s), NEW u, SessionOK(u), NEW out \in Seq(Message), NEW in \in Seq(Message),
         NEW c \in Nat, NEW d \in Nat, Leads(s, u, out, in, c, d), u.sendCK # NoKey, c <= Len(in)
  PROVE  Leads(s, AfterEncrypt(u), out, Append(in, Sealed(u)), c, d)
<1> DEFINE t == AfterEncrypt(u)
           msg == Sealed(u)
           longer == Append(in, msg)
           old == d + (s.pn - u.nr)
<1>1. /\ msg \in Message /\ OnChain(msg, u, u.ns) /\ t.ns = u.ns + 1
      /\ t.root = u.root /\ t.recvCK = u.recvCK /\ t.dhs = u.dhs /\ t.pn = u.pn /\ t.nr = u.nr /\ t.dhr = u.dhr
  BY SealedRuns DEF Fields
<1> HIDE DEF t, msg
<1>2. /\ Len(longer) = Len(in) + 1 /\ Len(in) \in Nat /\ longer[Len(in) + 1] = msg
      /\ \A j \in 1 .. Len(in) : longer[j] = in[j]
  BY <1>1
<1>3. s.nr \in Nat /\ u.ns = s.nr + (Len(in) - c) /\ u.ns \in Nat
  BY DEF SessionOK, ReceivingOK, Leads
<1>4. s.recvCK = [chain |-> u.root, step |-> s.nr] /\ s.recvCK # NoKey
  <2>1. s.recvCK = [chain |-> u.root, step |-> s.nr]
    BY DEF Leads
  <2>2. s.recvCK \in ChainKeys
    BY <1>3, <2>1 DEF ChainKeys, SessionOK, ReceivingOK
  <2>. QED  BY <2>1, <2>2, NoKeyIsNone
<1> HIDE DEF longer
<1>5. ASSUME NEW j \in c + 1 .. Len(longer)
      PROVE  Continues(longer[j], s, j - (c + 1))
  <2>1. CASE j \in c + 1 .. Len(in)
    <3>1. Continues(in[j], s, j - (c + 1)) /\ longer[j] = in[j]
      BY <1>2, <2>1 DEF Leads
    <3>. QED  BY <3>1
  <2>2. CASE j = Len(in) + 1
    <3>1. u.ns = s.nr + (j - (c + 1)) /\ longer[j] = msg
      BY <1>2, <1>3, <2>2
    <3>2. Advance(s.recvCK, j - (c + 1)) = [chain |-> u.root, step |-> s.nr + (j - (c + 1))]
      BY <1>4 DEF Advance
    <3>3. s.dhr = u.dhs
      BY DEF Leads
    <3>. QED  BY <1>1, <1>4, <3>1, <3>2, <3>3 DEF OnChain, Continues
  <2>. QED  BY <1>2, <2>1, <2>2
<1>6. t.ns = s.nr + (Len(longer) - c)
  BY <1>1, <1>2, <1>3
<1>7. \A j \in d + 1 .. old : Continues(out[j], t, j - (d + 1))
  BY <1>1 DEF Leads, Continues
<1> HIDE DEF old
<1>8. /\ old = d + (s.pn - t.nr) /\ old <= Len(out) /\ s.ns = Len(out) - old
      /\ \A j \in old + 1 .. Len(out) : OnChain(out[j], s, j - (old + 1))
  BY <1>1 DEF Leads, old
<1>9. Leads(s, t, out, longer, c, d)
  BY <1>1, <1>4, <1>5, <1>6, <1>7, <1>8 DEF Leads
<1>. QED  BY <1>9 DEF t, longer, msg

LEMMA AdvanceTwice ==
  ASSUME NEW ck \in ChainKeys, NEW a \in Nat, NEW b \in Nat
  PROVE  Advance(Advance(ck, a), b) = Advance(ck, a + b)
<1>1. ck = [chain |-> ck.chain, step |-> ck.step] /\ ck.step \in Nat
  BY DEF ChainKeys
<1>2. Advance(ck, a) = [chain |-> ck.chain, step |-> ck.step + a]
  BY <1>1 DEF Advance
<1>3. Advance(Advance(ck, a), b) = [chain |-> ck.chain, step |-> (ck.step + a) + b]
  <2>1. \A x, y : Advance([chain |-> x, step |-> y], b) = [chain |-> x, step |-> y + b]
    BY DEF Advance
  <2>. QED  BY <1>2, <2>1
<1>4. Advance(ck, a + b) = [chain |-> ck.chain, step |-> ck.step + (a + b)]
  BY <1>1 DEF Advance
<1>. QED  BY <1>1, <1>3, <1>4

\* t is s after the next k numbers of its receiving chain were passed over.
Shifted(s, t, k) ==
  /\ k # 0 => s.recvCK # NoKey
  /\ t.nr = s.nr + k
  /\ t.recvCK = IF s.recvCK = NoKey THEN NoKey ELSE Advance(s.recvCK, k)
  /\ \A f \in Fields \ {"nr", "recvCK", "skipped"} : t[f] = s[f]

LEMMA ShiftedContinues ==
  ASSUME NEW s, SessionOK(s), NEW k \in Nat, NEW t, Shifted(s, t, k),
         NEW m, NEW j \in Nat, Continues(m, s, k + j)
  PROVE  Continues(m, t, j)
<1>1. s.recvCK \in ChainKeys /\ s.recvCK # NoKey /\ s.nr \in Nat
  BY DEF SessionOK, ReceivingOK, Continues
<1>2. t.nr = s.nr + k /\ t.recvCK = Advance(s.recvCK, k) /\ t.dhr = s.dhr
  BY <1>1 DEF Shifted, Fields
<1>3. Advance(t.recvCK, j) = Advance(s.recvCK, k + j)
  BY <1>1, <1>2, AdvanceTwice
<1>4. t.recvCK # NoKey
  BY <1>1, <1>2, AdvanceStep, NoKeyIsNone
<1>5. s.nr + (k + j) = (s.nr + k) + j
  BY <1>1
<1>. QED  BY <1>1, <1>2, <1>3, <1>4, <1>5 DEF Continues

LEMMA AheadShifts ==
  ASSUME NEW s, SessionOK(s), NEW u, SessionOK(u), NEW out \in Seq(Message), NEW in \in Seq(Message),
         NEW c \in Nat, NEW d \in Nat, Leads(s, u, out, in, c, d),
         NEW k \in Nat, c + k <= Len(in), NEW t, Shifted(s, t, k)
  PROVE  Leads(t, u, out, in, c + k, d)
<1> DEFINE old == d + (s.pn - u.nr)
<1>1. /\ s.nr \in Nat /\ t.nr = s.nr + k
      /\ t.root = s.root /\ t.sendCK = s.sendCK /\ t.dhs = s.dhs /\ t.dhr = s.dhr
      /\ t.ns = s.ns /\ t.pn = s.pn
  BY DEF Shifted, Fields, SessionOK, ReceivingOK
<1>2. ASSUME NEW j \in (c + k) + 1 .. Len(in)
      PROVE  Continues(in[j], t, j - ((c + k) + 1))
  <2>1. j \in c + 1 .. Len(in) /\ j - ((c + k) + 1) \in Nat
        /\ j - (c + 1) = k + (j - ((c + k) + 1))
    OBVIOUS
  <2>2. Continues(in[j], s, k + (j - ((c + k) + 1)))
    BY <2>1 DEF Leads
  <2>. QED  BY <2>1, <2>2, ShiftedContinues
<1>3. ASSUME u.sendCK # NoKey
      PROVE  t.recvCK = [chain |-> u.root, step |-> t.nr]
  <2>1. s.recvCK = [chain |-> u.root, step |-> s.nr]
    BY <1>3 DEF Leads
  <2>2. s.recvCK # NoKey
    <3>1. s.recvCK \in ChainKeys
      BY <1>1, <2>1 DEF SessionOK, ReceivingOK, ChainKeys
    <3>. QED  BY <3>1, NoKeyIsNone
  <2>. QED  BY <1>1, <2>1, <2>2 DEF Shifted, Advance
<1>4. u.ns = t.nr + (Len(in) - (c + k))
  BY <1>1 DEF Leads
<1>5. \A j \in old + 1 .. Len(out) : OnChain(out[j], t, j - (old + 1))
  BY <1>1 DEF Leads, OnChain
<1> HIDE DEF old
<1>6. /\ old = d + (t.pn - u.nr) /\ old <= Len(out) /\ t.ns = Len(out) - old
      /\ \A j \in d + 1 .. old : Continues(out[j], u, j - (d + 1))
  BY <1>1 DEF Leads, old
<1>. QED  BY <1>1, <1>2, <1>3, <1>4, <1>5, <1>6 DEF Leads

LEMMA BehindShifts ==
  ASSUME NEW s, SessionOK(s), NEW u, SessionOK(u), NEW out \in Seq(Message), NEW in \in Seq(Message),
         NEW c \in Nat, NEW d \in Nat, Leads(s, u, out, in, c, d),
         NEW k \in Nat, k <= s.pn - u.nr, NEW t, Shifted(u, t, k)
  PROVE  Leads(s, t, out, in, c, d + k)
<1> DEFINE old == d + (s.pn - u.nr)
<1>1. /\ u.nr \in Nat /\ s.pn \in Nat /\ t.nr = u.nr + k
      /\ t.root = u.root /\ t.sendCK = u.sendCK /\ t.dhs = u.dhs /\ t.dhr = u.dhr
      /\ t.ns = u.ns /\ t.pn = u.pn
  BY DEF Shifted, Fields, SessionOK, ReceivingOK
<1>2. ASSUME NEW j \in (d + k) + 1 .. old
      PROVE  Continues(out[j], t, j - ((d + k) + 1))
  <2>1. j \in d + 1 .. old /\ j - ((d + k) + 1) \in Nat
        /\ j - (d + 1) = k + (j - ((d + k) + 1))
    BY <1>1
  <2>2. Continues(out[j], u, k + (j - ((d + k) + 1)))
    BY <2>1 DEF Leads
  <2>. QED  BY <2>1, <2>2, ShiftedContinues
<1>3. (d + k) + (s.pn - t.nr) = old /\ t.nr <= s.pn
  BY SMTT(30), <1>1
<1> HIDE DEF old
<1>4. /\ old <= Len(out) /\ s.ns = Len(out) - old
      /\ \A j \in old + 1 .. Len(out) : OnChain(out[j], s, j - (old + 1))
  BY DEF Leads, old
<1>. QED  BY <1>1, <1>2, <1>3, <1>4 DEF Leads

(* The party that is behind comes to the end of the chain it receives on, and a ratchet
   puts it ahead. *)
LEMMA LeadTaken ==
  ASSUME NEW s, SessionOK(s), NEW u, SessionOK(u), NEW out \in Seq(Message), NEW in \in Seq(Message),
         NEW c \in Nat, NEW d \in Nat, Leads(s, u, out, in, c, d),
         s.pn = u.nr, d <= Len(out), c <= Len(in),
         NEW fresh \in AllKeyPairs, fresh # s.dhr
  PROVE  LET r == DhRatchet(u, s.dhs, fresh)
         IN  /\ Leads(r, s, in, out, d, c)
             /\ SessionOK(r) /\ Further(u, r)
             /\ r.recvCK = [chain |-> s.root, step |-> 0] /\ r.recvCK # NoKey
             /\ r.dhs = fresh /\ r.dhr = s.dhs /\ r.nr = 0 /\ r.skipped = u.skipped
<1> DEFINE r == DhRatchet(u, s.dhs, fresh)
<1>1. /\ Len(in) \in Nat /\ Len(out) \in Nat /\ s.nr \in Nat /\ u.ns \in Nat /\ u.nr \in Nat
      /\ s.dhs \in AllKeyPairs /\ DOMAIN u = Fields /\ ReceivingOK(u) /\ u.dhs \in AllKeyPairs
      /\ s.root = Append(u.root, DH(u.dhs, s.dhs))
  <2>1. DH(s.dhs, u.dhs) = DH(u.dhs, s.dhs)
    BY DEF DH
  <2>2. s.root = Append(u.root, DH(s.dhs, u.dhs))
    BY DEF Leads
  <2>3. s.root = Append(u.root, DH(u.dhs, s.dhs))
    BY <2>1, <2>2
  <2>. QED  BY <2>3 DEF SessionOK, ReceivingOK
<1>2. /\ r.root = Append(s.root, DH(fresh, s.dhs))
      /\ r.sendCK = [chain |-> r.root, step |-> 0]
      /\ r.recvCK = [chain |-> s.root, step |-> 0]
      /\ r.dhs = fresh /\ r.dhr = s.dhs /\ r.ns = 0 /\ r.nr = 0 /\ r.pn = u.ns
      /\ r.skipped = u.skipped /\ IsState(r)
  BY <1>1 DEF DhRatchet, MixRoot, NewChain, Fields, IsState
<1>3. Further(u, r) /\ r.recvCK # NoKey
  BY <1>1, DhRatchetFurther
<1> HIDE DEF r
<1>4. SessionOK(r)
  BY <1>1, <1>2, <1>3 DEF SessionOK, Further
<1>5. r.sendCK # NoKey
  <2>1. r.sendCK \in ChainKeys
    BY <1>2, <1>4 DEF ChainKeys, SessionOK, ReceivingOK
  <2>. QED  BY <2>1, NoKeyIsNone
<1>6. /\ s.ns = Len(out) - d /\ u.ns = s.nr + (Len(in) - c)
      /\ \A j \in d + 1 .. Len(out) : OnChain(out[j], s, j - (d + 1))
      /\ \A j \in c + 1 .. Len(in) : Continues(in[j], s, j - (c + 1))
  <2>1. d + (s.pn - u.nr) = d
    BY <1>1
  <2>. QED  BY <2>1 DEF Leads
<1>7. ASSUME NEW j \in d + 1 .. Len(out)
      PROVE  Continues(out[j], r, j - (d + 1))
  <2>1. OnChain(out[j], s, j - (d + 1))
    BY <1>6
  <2>2. j - (d + 1) \in Nat /\ 0 + (j - (d + 1)) = j - (d + 1)
    BY <1>1
  <2>3. Advance(r.recvCK, j - (d + 1)) = [chain |-> s.root, step |-> 0 + (j - (d + 1))]
    BY <1>2 DEF Advance
  <2>. QED  BY <1>2, <1>3, <2>1, <2>2, <2>3 DEF Continues, OnChain
<1>8. s.ns = r.nr + (Len(out) - d)
  BY <1>1, <1>2, <1>6
<1> DEFINE old == c + (r.pn - s.nr)
<1>9. old = Len(in) /\ s.nr <= r.pn
  BY <1>1, <1>2, <1>6
<1>10. r.ns = Len(in) - old /\ old <= Len(in)
       /\ \A j \in c + 1 .. old : Continues(in[j], s, j - (c + 1))
       /\ \A i \in old + 1 .. Len(in) : OnChain(in[i], r, i - (old + 1))
  BY SMTT(30), <1>1, <1>2, <1>6, <1>9
<1>11. s.dhr # r.dhs
  BY <1>2
<1> HIDE DEF old
<1>12. r.root = Append(s.root, DH(r.dhs, s.dhs)) /\ r.dhr = s.dhs
  BY <1>2
<1>13. s.sendCK # NoKey => r.recvCK = [chain |-> s.root, step |-> r.nr]
  BY <1>2
<1>14. old = c + (r.pn - s.nr)
  BY DEF old
<1>15. Leads(r, s, in, out, d, c)
  BY <1>5, <1>7, <1>8, <1>9, <1>10, <1>11, <1>12, <1>13, <1>14 DEF Leads
<1>. QED  BY <1>2, <1>3, <1>4, <1>15 DEF r

\* The state after the receiving chain gave a key.
Received(s) == [s EXCEPT !.recvCK = Advance(@, 1), !.nr = @ + 1]

LEMMA ReceivedRuns ==
  ASSUME NEW s, SessionOK(s), s.recvCK # NoKey
  PROVE  LET t == Received(s)
         IN  /\ SessionOK(t) /\ Further(s, t) /\ Gone(t, s.recvCK) /\ Shifted(s, t, 1)
             /\ \A f \in Fields \ {"nr", "recvCK"} : t[f] = s[f]
<1> DEFINE t == Received(s)
<1>1. /\ s.nr + 1 \in Nat /\ ReceivingOK(s) /\ DOMAIN s = Fields /\ s.recvCK \in ChainKeys
  BY DEF SessionOK, ReceivingOK
<1>2. /\ t.nr = s.nr + 1 /\ t.recvCK = Advance(s.recvCK, 1)
      /\ \A f \in Fields \ {"nr", "recvCK"} : t[f] = s[f]
      /\ IsState(t)
  BY <1>1 DEF Received, Fields, IsState
<1>3. t = [s EXCEPT !.recvCK = Advance(@, 1), !.nr = s.nr + 1]
  BY DEF Received
<1> HIDE DEF t
<1>4. Further(s, t) /\ Gone(t, s.recvCK)
  BY <1>1, <1>3, AdvanceFurther DEF SessionOK
<1>5. /\ t.root = s.root /\ t.sendCK = s.sendCK /\ t.dhs = s.dhs /\ t.ns = s.ns /\ t.pn = s.pn
  BY <1>2 DEF Fields
<1>6. SessionOK(t)
  BY <1>2, <1>4, <1>5 DEF SessionOK, Further
<1>7. Shifted(s, t, 1)
  BY <1>2 DEF Shifted
<1>. QED  BY <1>2, <1>4, <1>6, <1>7 DEF t

-----------------------------------------------------------------------------
LEMMA PeerFacts ==
  \A p \in Party : Peer(p) \in Party /\ Peer(p) # p /\ Peer(Peer(p)) = p /\ Party = {p, Peer(p)}
BY DEF Party, Peer

LEMMA ElementType ==
  ASSUME NEW S, NEW s \in Seq(S), NEW i \in DOMAIN s
  PROVE  s[i] \in S
OBVIOUS

LEMMA SeqMonotone ==
  ASSUME NEW S, NEW T, S \subseteq T, NEW s \in Seq(S)
  PROVE  s \in Seq(T)
OBVIOUS
=============================================================================
