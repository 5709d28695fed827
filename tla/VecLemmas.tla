----------------------------- MODULE VecLemmas ------------------------------
(***************************************************************************)
(* What Vec::retain leaves of a sequence, by induction over its length:    *)
(* the order, the elements and how many there are.                         *)
(*                                                                         *)
(* An induction theorem of the library takes an operator as a parameter,   *)
(* which the provers cannot instantiate. Here induction is about a set of  *)
(* numbers instead, from the well-foundedness of the inclusion of finite   *)
(* sets, so that a recursive function can be reasoned about.               *)
(***************************************************************************)
EXTENDS Vec, Integers, FiniteSetTheorems, SequenceTheorems, TLAPS

LEMMA LeastNat ==
  ASSUME NEW T \in SUBSET Nat, T # {}
  PROVE  \E x \in T : \A y \in T : x <= y
<1> DEFINE F == {1 .. n : n \in T}
<1>1. F \subseteq FiniteSubsetsOf(Nat) /\ F # {}
  <2>1. \A n \in T : 1 .. n \in FiniteSubsetsOf(Nat)
    BY FS_Interval DEF FiniteSubsetsOf
  <2>. QED  BY <2>1
<1>2. PICK X \in F : \A Y \in F : ~(<<Y, X>> \in StrictSubsetOrdering(Nat))
  <2> HIDE DEF F
  <2>. QED BY <1>1, FS_StrictSubsetOrderingWellFounded, WFMin, Zenon
<1>3. PICK x \in T : X = 1 .. x
  BY <1>2
<1>4. ASSUME NEW y \in T, y < x
      PROVE  FALSE
  <2>1. 1 .. y \subseteq 1 .. x /\ x \in 1 .. x /\ x \notin 1 .. y
    BY <1>4
  <2>2. 1 .. y \subseteq X /\ 1 .. y # X /\ X \subseteq Nat /\ 1 .. y \subseteq Nat
    BY <1>3, <2>1
  <2>3. <<1 .. y, X>> \in StrictSubsetOrdering(Nat)
    BY <2>2 DEF StrictSubsetOrdering
  <2>. QED  BY <1>2, <2>3
<1>. QED  BY <1>3, <1>4

(* Induction up to n, for a set. *)
LEMMA Induction ==
  ASSUME NEW n \in Nat, NEW G, 0 \in G, \A i \in 1 .. n : i - 1 \in G => i \in G
  PROVE  \A i \in 0 .. n : i \in G
<1>. SUFFICES ASSUME (0 .. n) \ G # {} PROVE FALSE
  OBVIOUS
<1>0. (0 .. n) \ G \in SUBSET Nat
  OBVIOUS
<1>1. PICK x \in (0 .. n) \ G : \A y \in (0 .. n) \ G : x <= y
  BY <1>0, LeastNat
<1>2. x # 0 /\ x - 1 \in 0 .. n /\ ~(x <= x - 1)
  BY <1>1
<1>. QED  BY <1>1, <1>2

Counted(s, S) == {i \in DOMAIN s : s[i] \in S}

(* The recursion of Retain is one. *)
LEMMA RetainDef ==
  ASSUME NEW A, NEW s \in Seq(A), NEW S
  PROVE  \E kept :
           /\ kept = [n \in 0 .. Len(s) |->
                        IF n = 0 THEN << >>
                        ELSE IF s[n] \in S THEN Append(kept[n - 1], s[n]) ELSE kept[n - 1]]
           /\ Retain(s, S) = kept[Len(s)]
<1> DEFINE Step(f, n) == IF n = 0 THEN << >>
                         ELSE IF s[n] \in S THEN Append(f[n - 1], s[n]) ELSE f[n - 1]
           IsKept(f, k) == f = [n \in 0 .. k |-> Step(f, n)]
           G == {k \in Nat : \E f : IsKept(f, k)}
<1>1. 0 \in G
  <2> DEFINE g == [n \in 0 .. 0 |-> << >>]
  <2>1. IsKept(g, 0)
    OBVIOUS
  <2>. QED  BY <2>1
<1>2. ASSUME NEW k \in 1 .. Len(s), k - 1 \in G
      PROVE  k \in G
  <2>1. PICK f : IsKept(f, k - 1)
    BY <1>2
  <2> DEFINE g == [n \in 0 .. k |-> IF n = k THEN Step(f, k) ELSE f[n]]
  <2>2. k \in Nat \ {0} /\ k - 1 \in 0 .. k - 1 /\ k - 1 # k
    OBVIOUS
  <2>3. g[k] = Step(f, k) /\ \A n \in 0 .. k - 1 : g[n] = f[n]
    BY <2>2
  <2>4. \A n \in 0 .. k - 1 : f[n] = Step(f, n)
    BY <2>1
  <2>5. \A n \in 0 .. k - 1 : Step(f, n) = Step(g, n)
    BY <2>3
  <2>6. Step(f, k) = Step(g, k)
    BY <2>2, <2>3
  <2>7. \A n \in 0 .. k : g[n] = Step(g, n)
    <3> HIDE DEF Step, g
    <3>1. \A n \in 0 .. k : n = k \/ n \in 0 .. k - 1
      BY <2>2
    <3>. QED  BY <2>3, <2>4, <2>5, <2>6, <3>1
  <2>8. IsKept(g, k)
    <3> HIDE DEF Step
    <3>. QED  BY <2>7
  <2>. QED  BY <2>2, <2>8
<1>3. Len(s) \in G
  <2>0. Len(s) \in Nat
    OBVIOUS
  <2> HIDE DEF G
  <2>1. Len(s) \in Nat /\ \A k \in 1 .. Len(s) : k - 1 \in G => k \in G
    BY <1>2, <2>0
  <2>2. \A i \in 0 .. Len(s) : i \in G
    BY <1>1, <2>1, Induction
  <2>. QED  BY <2>0, <2>2
<1>4. \E f : IsKept(f, Len(s))
  BY <1>3
<1>5. Retain(s, S) = (CHOOSE f : IsKept(f, Len(s)))[Len(s)]
  BY DEF Retain
<1>. QED  BY <1>4, <1>5

LEMMA CountedFinite ==
  ASSUME NEW A, NEW s \in Seq(A), NEW S
  PROVE  /\ IsFiniteSet(Counted(s, S)) /\ Cardinality(Counted(s, S)) \in Nat
         /\ Cardinality(Counted(s, S)) <= Len(s)
         /\ Cardinality(Counted(s, A)) = Len(s)
<1>1. Len(s) \in Nat /\ DOMAIN s = 1 .. Len(s)
  OBVIOUS
<1>2. IsFiniteSet(DOMAIN s) /\ Cardinality(DOMAIN s) = Len(s)
  BY <1>1, FS_Interval
<1>3. Counted(s, S) \subseteq DOMAIN s /\ Counted(s, A) = DOMAIN s
  <2>1. \A i \in DOMAIN s : s[i] \in A
    OBVIOUS
  <2>. QED  BY <2>1 DEF Counted
<1>. QED  BY <1>2, <1>3, FS_Subset, FS_CardinalityType

LEMMA CountedAppend ==
  ASSUME NEW A, NEW s \in Seq(A), NEW x \in A, NEW S
  PROVE  Cardinality(Counted(Append(s, x), S)) =
           Cardinality(Counted(s, S)) + (IF x \in S THEN 1 ELSE 0)
<1>1. /\ DOMAIN Append(s, x) = DOMAIN s \cup {Len(s) + 1} /\ Len(s) + 1 \notin DOMAIN s
      /\ \A i \in DOMAIN s : Append(s, x)[i] = s[i]
      /\ Append(s, x)[Len(s) + 1] = x
  OBVIOUS
<1>2. IsFiniteSet(Counted(s, S)) /\ Cardinality(Counted(s, S)) \in Nat
  BY CountedFinite
<1>3. CASE x \in S
  <2>1. Counted(Append(s, x), S) = Counted(s, S) \cup {Len(s) + 1} /\ Len(s) + 1 \notin Counted(s, S)
    BY <1>1, <1>3 DEF Counted
  <2>. QED  BY <1>2, <1>3, <2>1, FS_AddElement
<1>4. CASE x \notin S
  <2>1. Counted(Append(s, x), S) = Counted(s, S)
    BY <1>1, <1>4 DEF Counted
  <2>. QED  BY <1>2, <1>4, <2>1
<1>. QED  BY <1>3, <1>4

LEMMA RetainProperties ==
  ASSUME NEW A, NEW s \in Seq(A), NEW S
  PROVE  /\ Retain(s, S) \in Seq(A)
         /\ {Retain(s, S)[i] : i \in DOMAIN Retain(s, S)} = {s[i] : i \in Counted(s, S)}
         /\ Len(Retain(s, S)) = Cardinality(Counted(s, S))
         /\ \A T : Cardinality(Counted(Retain(s, S), T)) = Cardinality(Counted(s, S \cap T))
         /\ (\A i, j \in DOMAIN s : s[i] = s[j] => i = j) =>
              \A i, j \in DOMAIN Retain(s, S) : Retain(s, S)[i] = Retain(s, S)[j] => i = j
<1>1. PICK kept :
        /\ kept = [n \in 0 .. Len(s) |->
                     IF n = 0 THEN << >>
                     ELSE IF s[n] \in S THEN Append(kept[n - 1], s[n]) ELSE kept[n - 1]]
        /\ Retain(s, S) = kept[Len(s)]
  BY RetainDef
<1>2. Len(s) \in Nat /\ DOMAIN s = 1 .. Len(s)
  OBVIOUS
<1>3. /\ kept[0] = << >>
      /\ \A n \in 1 .. Len(s) :
           kept[n] = IF s[n] \in S THEN Append(kept[n - 1], s[n]) ELSE kept[n - 1]
  <2>1. \A n \in 0 .. Len(s) : kept[n] = IF n = 0 THEN << >>
                     ELSE IF s[n] \in S THEN Append(kept[n - 1], s[n]) ELSE kept[n - 1]
    BY <1>1
  <2>. QED  BY <1>2, <2>1
<1> DEFINE Up(n, T) == {i \in 1 .. n : s[i] \in T}
           Values(n) == {s[i] : i \in Up(n, S)}
           Ran(t) == {t[i] : i \in DOMAIN t}
           Inj(t) == \A i, j \in DOMAIN t : t[i] = t[j] => i = j
<1>4. ASSUME NEW T
      PROVE  /\ Up(0, T) = {}
             /\ Up(Len(s), T) = Counted(s, T)
             /\ \A n \in 1 .. Len(s) :
                  /\ Up(n, T) = IF s[n] \in T THEN Up(n - 1, T) \cup {n} ELSE Up(n - 1, T)
                  /\ n \notin Up(n - 1, T)
                  /\ IsFiniteSet(Up(n - 1, T)) /\ Cardinality(Up(n - 1, T)) \in Nat
  <2>1. Up(0, T) = {}
    OBVIOUS
  <2>2. Up(Len(s), T) = Counted(s, T)
    BY <1>2 DEF Counted
  <2>3. ASSUME NEW n \in 1 .. Len(s)
        PROVE  /\ Up(n, T) = IF s[n] \in T THEN Up(n - 1, T) \cup {n} ELSE Up(n - 1, T)
               /\ n \notin Up(n - 1, T)
               /\ IsFiniteSet(Up(n - 1, T)) /\ Cardinality(Up(n - 1, T)) \in Nat
    <3>1. 1 .. n = (1 .. n - 1) \cup {n} /\ n \notin 1 .. n - 1 /\ n - 1 \in Nat
      OBVIOUS
    <3>2. IsFiniteSet(1 .. n - 1) /\ Up(n - 1, T) \subseteq 1 .. n - 1
      BY <3>1, FS_Interval
    <3>3. IsFiniteSet(Up(n - 1, T)) /\ Cardinality(Up(n - 1, T)) \in Nat
      BY <3>2, FS_Subset, FS_CardinalityType
    <3>. QED  BY <3>1, <3>3
  <2>. QED  BY <2>1, <2>2, <2>3
<1> HIDE DEF Up
<1> DEFINE Good(n) ==
             /\ kept[n] \in Seq(A)
             /\ \A T : Cardinality(Counted(kept[n], T)) = Cardinality(Up(n, S \cap T))
             /\ Ran(kept[n]) = Values(n)
             /\ Inj(s) => Inj(kept[n])
<1>5. Good(0)
  <2>1. kept[0] = << >> /\ DOMAIN << >> = {} /\ << >> \in Seq(A)
    BY <1>3
  <2>2. \A T : Counted(<< >>, T) = {}
    BY DEF Counted
  <2>. QED  BY <1>4, <2>1, <2>2
<1>6. ASSUME NEW n \in 1 .. Len(s), Good(n - 1)
      PROVE  Good(n)
  <2>1. s[n] \in A
    BY <1>2
  <2>2. CASE s[n] \notin S
    <3>1. kept[n] = kept[n - 1]
      BY <1>3, <2>2
    <3>2. \A T : Up(n, S \cap T) = Up(n - 1, S \cap T)
      BY <1>4, <2>2
    <3>3. Values(n) = Values(n - 1)
      BY <1>4, <2>2
    <3>. QED  BY <1>6, <3>1, <3>2, <3>3
  <2>3. CASE s[n] \in S
    <3> DEFINE k == kept[n - 1]
    <3>1. kept[n] = Append(k, s[n]) /\ k \in Seq(A)
      BY <1>3, <1>6, <2>3
    <3>2. kept[n] \in Seq(A)
      BY <2>1, <3>1
    <3>3. \A T : Cardinality(Counted(kept[n], T)) = Cardinality(Up(n, S \cap T))
      <4>1. TAKE T
      <4>2. Cardinality(Counted(kept[n], T)) =
              Cardinality(Counted(k, T)) + (IF s[n] \in T THEN 1 ELSE 0)
        BY <2>1, <3>1, CountedAppend
      <4>3. Cardinality(Counted(k, T)) = Cardinality(Up(n - 1, S \cap T))
        BY <1>6
      <4>4. /\ Up(n, S \cap T) = IF s[n] \in T THEN Up(n - 1, S \cap T) \cup {n} ELSE Up(n - 1, S \cap T)
            /\ n \notin Up(n - 1, S \cap T) /\ IsFiniteSet(Up(n - 1, S \cap T))
            /\ Cardinality(Up(n - 1, S \cap T)) \in Nat
        BY <1>4, <2>3
      <4>5. CASE s[n] \in T
        <5>1. Cardinality(Up(n, S \cap T)) = Cardinality(Up(n - 1, S \cap T)) + 1
          BY <4>4, <4>5, FS_AddElement
        <5>. QED  BY <4>2, <4>3, <4>5, <5>1
      <4>6. CASE s[n] \notin T
        <5>1. Cardinality(Counted(k, T)) \in Nat
          BY <4>3, <4>4
        <5> HIDE DEF k
        <5>. QED  BY <4>2, <4>3, <4>4, <4>6, <5>1
      <4>. QED  BY <4>5, <4>6
    <3>4. /\ DOMAIN kept[n] = DOMAIN k \cup {Len(k) + 1} /\ Len(k) + 1 \notin DOMAIN k
          /\ \A i \in DOMAIN k : kept[n][i] = k[i]
          /\ kept[n][Len(k) + 1] = s[n]
      BY <2>1, <3>1
    <3>5. Values(n) = Values(n - 1) \cup {s[n]}
      <4>1. Up(n, S) = Up(n - 1, S) \cup {n}
        BY <1>4, <2>3
      <4>. QED  BY <4>1
    <3>6. Ran(kept[n]) = Values(n)
      <4>1. Ran(k) = Values(n - 1)
        BY <1>6
      <4>2. Ran(kept[n]) = Ran(k) \cup {s[n]}
        BY <3>4
      <4>. QED  BY <3>5, <4>1, <4>2
    <3>7. ASSUME Inj(s) PROVE Inj(kept[n])
      <4>1. \A i \in DOMAIN k : k[i] # s[n]
        <5>1. Up(n - 1, S) \subseteq 1 .. n - 1
          BY DEF Up
        <5>2. \A i \in Up(n - 1, S) : i \in DOMAIN s /\ i # n
          BY <1>2, <5>1
        <5>3. \A i \in Up(n - 1, S) : s[i] # s[n]
          BY <1>2, <3>7, <5>2
        <5>4. Ran(k) = Values(n - 1)
          BY <1>6
        <5>. QED  BY <5>3, <5>4
      <4>2. Inj(k)
        BY <1>6, <3>7
      <4>. QED  BY <3>4, <4>1, <4>2
    <3>. QED  BY <3>2, <3>3, <3>6, <3>7
  <2>. QED  BY <2>2, <2>3
<1>7. Good(Len(s))
  <2> DEFINE G == {n \in 0 .. Len(s) : Good(n)}
  <2> HIDE DEF Good
  <2>1. 0 \in G /\ \A n \in 1 .. Len(s) : n - 1 \in G => n \in G
    BY <1>2, <1>5, <1>6
  <2> HIDE DEF G
  <2>2. \A n \in 0 .. Len(s) : n \in G
    BY <1>2, <2>1, Induction
  <2>. QED  BY <1>2, <2>2 DEF G
<1>8. Len(Retain(s, S)) = Cardinality(Counted(s, S))
  <2>1. Cardinality(Counted(kept[Len(s)], A)) = Len(kept[Len(s)])
    BY <1>7, CountedFinite
  <2>2. Cardinality(Counted(kept[Len(s)], A)) = Cardinality(Counted(s, S \cap A))
    BY <1>4, <1>7
  <2>3. Counted(s, S \cap A) = Counted(s, S)
    BY DEF Counted
  <2>. QED  BY <1>1, <2>1, <2>2, <2>3
<1>. QED  BY <1>1, <1>4, <1>7, <1>8
(* What is left of a sequence is in the order it had there. *)
LEMMA RetainOrder ==
  ASSUME NEW A, NEW s \in Seq(A), NEW S
  PROVE  \A a, b \in DOMAIN Retain(s, S) : a < b =>
           \E i, j \in DOMAIN s : i < j /\ Retain(s, S)[a] = s[i] /\ Retain(s, S)[b] = s[j]
<1>1. PICK kept :
        /\ kept = [n \in 0 .. Len(s) |->
                     IF n = 0 THEN << >>
                     ELSE IF s[n] \in S THEN Append(kept[n - 1], s[n]) ELSE kept[n - 1]]
        /\ Retain(s, S) = kept[Len(s)]
  BY RetainDef
<1>2. Len(s) \in Nat /\ DOMAIN s = 1 .. Len(s)
  OBVIOUS
<1>3. /\ kept[0] = << >>
      /\ \A n \in 1 .. Len(s) :
           kept[n] = IF s[n] \in S THEN Append(kept[n - 1], s[n]) ELSE kept[n - 1]
  <2>1. \A n \in 0 .. Len(s) : kept[n] = IF n = 0 THEN << >>
                     ELSE IF s[n] \in S THEN Append(kept[n - 1], s[n]) ELSE kept[n - 1]
    BY <1>1
  <2>. QED  BY <1>2, <2>1
<1> DEFINE From(t, n) == \A a \in DOMAIN t : \E i \in 1 .. n : t[a] = s[i]
           InOrder(t, n) == \A a, b \in DOMAIN t : a < b =>
                              \E i, j \in 1 .. n : i < j /\ t[a] = s[i] /\ t[b] = s[j]
           Good(n) == kept[n] \in Seq(A) /\ From(kept[n], n) /\ InOrder(kept[n], n)
<1>4. Good(0)
  <2>1. kept[0] = << >> /\ DOMAIN << >> = {} /\ << >> \in Seq(A)
    BY <1>3
  <2>. QED  BY <2>1
<1>5. ASSUME NEW n \in 1 .. Len(s), Good(n - 1)
      PROVE  Good(n)
  <2>1. s[n] \in A /\ n \in Nat /\ 1 .. n = (1 .. n - 1) \cup {n} /\ \A i \in 1 .. n - 1 : i < n
    BY <1>2
  <2>2. CASE s[n] \notin S
    <3>1. kept[n] = kept[n - 1]
      BY <1>3, <2>2
    <3>2. \A i \in 1 .. n - 1 : i \in 1 .. n
      BY <2>1
    <3>3. From(kept[n - 1], n)
      BY <1>5, <3>2
    <3>4. InOrder(kept[n - 1], n)
      <4> DEFINE t == kept[n - 1]
      <4>1. InOrder(t, n - 1)
        BY <1>5
      <4> HIDE DEF t
      <4>2. InOrder(t, n)
        BY <3>2, <4>1
      <4>. QED  BY <4>2 DEF t
    <3>. QED  BY <1>5, <3>1, <3>3, <3>4
  <2>3. CASE s[n] \in S
    <3> DEFINE k == kept[n - 1]
    <3>1. kept[n] = Append(k, s[n]) /\ k \in Seq(A)
      BY <1>3, <1>5, <2>3
    <3>2. kept[n] \in Seq(A)
      BY <2>1, <3>1
    <3>3. /\ DOMAIN kept[n] = DOMAIN k \cup {Len(k) + 1}
          /\ \A a \in DOMAIN k : kept[n][a] = k[a] /\ a < Len(k) + 1 /\ a \in Nat
          /\ kept[n][Len(k) + 1] = s[n] /\ Len(k) + 1 \in Nat
      BY <2>1, <3>1
    <3>4. From(k, n - 1) /\ InOrder(k, n - 1)
      BY <1>5
    <3> DEFINE last == Len(k) + 1
               t == kept[n]
    <3> HIDE DEF k, last, t
    <3>5. From(t, n)
      <4>1. \A a \in DOMAIN k : \E i \in 1 .. n : t[a] = s[i]
        BY <2>1, <3>3, <3>4 DEF t
      <4>2. n \in 1 .. n /\ t[last] = s[n]
        BY <2>1, <3>3 DEF t, last
      <4>. QED  BY <3>3, <4>1, <4>2 DEF t, last
    <3>6. ASSUME NEW a \in DOMAIN t, NEW b \in DOMAIN t, a < b
          PROVE  \E i, j \in 1 .. n : i < j /\ t[a] = s[i] /\ t[b] = s[j]
      <4>1. a \in DOMAIN k
        <5>1. a # last
          BY <3>3, <3>6 DEF t, last
        <5>. QED  BY <3>3, <5>1 DEF t, last
      <4>2. CASE b \in DOMAIN k
        <5>1. PICK i \in 1 .. n - 1, j \in 1 .. n - 1 : i < j /\ k[a] = s[i] /\ k[b] = s[j]
          BY <3>4, <3>6, <4>1, <4>2
        <5>. QED  BY <2>1, <3>3, <4>1, <4>2, <5>1 DEF t
      <4>3. CASE b = last
        <5>1. PICK i \in 1 .. n - 1 : k[a] = s[i]
          BY <3>4, <4>1
        <5>2. i \in 1 .. n /\ n \in 1 .. n /\ i < n
          BY <2>1
        <5>3. t[a] = s[i] /\ t[b] = s[n]
          BY <3>3, <4>1, <4>3, <5>1 DEF t, last
        <5>. QED  BY <5>2, <5>3
      <4>. QED  BY <3>3, <4>2, <4>3 DEF t, last
    <3>. QED  BY <3>2, <3>5, <3>6 DEF t
  <2>. QED  BY <2>2, <2>3
<1>6. Good(Len(s))
  <2> DEFINE G == {n \in 0 .. Len(s) : Good(n)}
  <2> HIDE DEF Good
  <2>1. 0 \in G /\ \A n \in 1 .. Len(s) : n - 1 \in G => n \in G
    BY <1>2, <1>4, <1>5
  <2> HIDE DEF G
  <2>2. \A n \in 0 .. Len(s) : n \in G
    BY <1>2, <2>1, Induction
  <2>. QED  BY <1>2, <2>2 DEF G
<1>7. InOrder(Retain(s, S), Len(s))
  <2>1. InOrder(kept[Len(s)], Len(s))
    BY <1>6
  <2>2. Retain(s, S) = kept[Len(s)]
    BY <1>1
  <2> HIDE DEF InOrder
  <2>. QED  BY <2>1, <2>2
<1>. QED  BY <1>2, <1>7
=============================================================================
