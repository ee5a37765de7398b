--------------------------- MODULE ClipNode_proofs ---------------------------
(***************************************************************************)
(* Theorems about ClipNode, for all nodes, links, contents and bounds:     *)
(* the types, what is suppressed, and, by counting notices and markers,    *)
(* that nothing is announced that no user copied.                          *)
(***************************************************************************)
EXTENDS ClipNode, FunctionTheorems, FiniteSetTheorems, SequenceTheorems, TLAPS

-----------------------------------------------------------------------------
(* Positions: what Consume keeps of the markers, in order *)

Rank(I, i) == Cardinality({j \in I : j <= i})

\* The elements of a finite set of numbers, numbered from the least.
LEMMA Ranks ==
  ASSUME NEW I \in SUBSET Nat, IsFiniteSet(I)
  PROVE  /\ Cardinality(I) \in Nat
         /\ \A i \in I : Rank(I, i) \in 1 .. Cardinality(I)
         /\ \A i, j \in I : Rank(I, i) = Rank(I, j) => i = j
         /\ \A k \in 1 .. Cardinality(I) : \E i \in I : Rank(I, i) = k
<1> DEFINE upTo(i) == {j \in I : j <= i}
<1>1. Cardinality(I) \in Nat
  BY FS_CardinalityType
<1>2. ASSUME NEW i \in I
      PROVE  /\ IsFiniteSet(upTo(i)) /\ Rank(I, i) \in 1 .. Cardinality(I)
  <2>1. upTo(i) \in SUBSET I
    OBVIOUS
  <2>2. IsFiniteSet(upTo(i)) /\ Cardinality(upTo(i)) <= Cardinality(I)
    BY <2>1, FS_Subset
  <2>3. Cardinality(upTo(i)) \in Nat
    BY <2>2, FS_CardinalityType
  <2>4. Cardinality(upTo(i)) # 0
    <3>1. upTo(i) # {}
      OBVIOUS
    <3> QED BY <2>2, <3>1, FS_EmptySet
  <2> QED BY <1>1, <2>2, <2>3, <2>4 DEF Rank
<1>3. ASSUME NEW i \in I, NEW j \in I, i < j
      PROVE  Rank(I, i) # Rank(I, j)
  <2>1. upTo(i) \in SUBSET upTo(j) /\ j \in upTo(j) /\ j \notin upTo(i)
    <3>1. i \in Nat /\ j \in Nat /\ \A x \in I : x \in Nat
      OBVIOUS
    <3>2. \A x \in I : x <= i => x <= j
      BY <1>3, <3>1
    <3>3. j \in upTo(j) /\ j \notin upTo(i)
      BY <1>3, <3>1
    <3> QED BY <3>2, <3>3
  <2>2. IsFiniteSet(upTo(j))
    BY <1>2
  <2>3. Cardinality(upTo(j)) = Cardinality(upTo(i)) => upTo(j) = upTo(i)
    <3> HIDE DEF upTo
    <3> QED BY <2>1, <2>2, FS_Subset
  <2> QED BY <2>1, <2>3 DEF Rank
<1>4. ASSUME NEW i \in I, NEW j \in I, Rank(I, i) = Rank(I, j)
      PROVE  i = j
  <2>1. i \in Nat /\ j \in Nat
    OBVIOUS
  <2>2. ~ (i < j) /\ ~ (j < i)
    BY <1>3, <1>4
  <2> QED BY <2>1, <2>2
<1>5. ASSUME NEW k \in 1 .. Cardinality(I)
      PROVE  \E i \in I : Rank(I, i) = k
  <2> DEFINE f == [i \in I |-> Rank(I, i)]
             n == Cardinality(I)
  <2>1. f \in Injection(I, 1 .. n)
    <3>1. f \in [I -> 1 .. n]
      BY <1>2
    <3>2. \A i, j \in I : f[i] = f[j] => i = j
      BY <1>4
    <3> HIDE DEF f
    <3> QED BY <3>1, <3>2 DEF Injection, IsInjective
  <2>2. IsFiniteSet(1 .. n) /\ Cardinality(1 .. n) = n
    <3>1. n \in Nat
      BY <1>1
    <3> HIDE DEF n
    <3>2. IsFiniteSet(1 .. n) /\ Cardinality(1 .. n) = IF 1 > n THEN 0 ELSE n - 1 + 1
      BY <3>1, FS_Interval
    <3> QED BY <3>1, <3>2
  <2>3. f \in Surjection(I, 1 .. n)
    <3>1. n = Cardinality(I)
      OBVIOUS
    <3> HIDE DEF f, n
    <3> QED BY <2>1, <2>2, <3>1, FS_Injection
  <2>4. PICK i \in I : f[i] = k
    BY <2>3 DEF Surjection
  <2> QED BY <2>4
<1> QED BY <1>1, <1>2, <1>4, <1>5

\* Positions are in the set, and no two are the same.
LEMMA Positions ==
  ASSUME NEW I \in SUBSET Nat, IsFiniteSet(I)
  PROVE  /\ Cardinality(I) \in Nat
         /\ \A k \in 1 .. Cardinality(I) :
              Position(I, k) \in I /\ Rank(I, Position(I, k)) = k
         /\ \A i \in I : \E k \in 1 .. Cardinality(I) : Position(I, k) = i
<1>1. Cardinality(I) \in Nat
  BY Ranks
<1>2. ASSUME NEW k \in 1 .. Cardinality(I)
      PROVE  Position(I, k) \in I /\ Rank(I, Position(I, k)) = k
  <2>1. \E i \in I : Cardinality({j \in I : j <= i}) = k
    BY Ranks DEF Rank
  <2> QED BY <2>1 DEF Position, Rank
<1>3. ASSUME NEW i \in I
      PROVE  \E k \in 1 .. Cardinality(I) : Position(I, k) = i
  <2>1. PICK k : k = Rank(I, i)
    OBVIOUS
  <2>2. k \in 1 .. Cardinality(I)
    BY <2>1, Ranks
  <2>3. Position(I, k) \in I /\ Rank(I, Position(I, k)) = Rank(I, i)
    BY <1>2, <2>1, <2>2
  <2>4. Position(I, k) = i
    <3>1. PICK p : p = Position(I, k)
      OBVIOUS
    <3>2. p \in I /\ Rank(I, p) = Rank(I, i)
      BY <2>3, <3>1
    <3> QED BY <3>1, <3>2, Ranks
  <2> QED BY <2>2, <2>4
<1> QED BY <1>1, <1>2, <1>3

LEMMA DomainsFinite ==
  ASSUME NEW S, NEW s \in Seq(S), NEW I \in SUBSET (DOMAIN s)
  PROVE  /\ I \in SUBSET Nat /\ IsFiniteSet(I)
         /\ Cardinality(I) \in Nat /\ Cardinality(I) <= Len(s)
<1>1. Len(s) \in Nat /\ DOMAIN s = 1 .. Len(s)
  OBVIOUS
<1>2. IsFiniteSet(1 .. Len(s)) /\ Cardinality(1 .. Len(s)) = Len(s)
  <2>1. PICK n \in Nat : n = Len(s)
    BY <1>1
  <2>2. IsFiniteSet(1 .. n) /\ Cardinality(1 .. n) = IF 1 > n THEN 0 ELSE n - 1 + 1
    BY FS_Interval
  <2> QED BY <2>1, <2>2
<1>3. I \in SUBSET (1 .. Len(s))
  BY <1>1
<1> QED BY <1>1, <1>2, <1>3, FS_Subset, FS_CardinalityType

\* What is kept are entries of the sequence.
LEMMA KeptEntries ==
  ASSUME NEW S, NEW s \in Seq(S), NEW I \in SUBSET (DOMAIN s)
  PROVE  /\ EntriesAt(s, I) \in Seq(S) /\ Len(EntriesAt(s, I)) = Cardinality(I)
         /\ DOMAIN EntriesAt(s, I) = 1 .. Cardinality(I)
         /\ \A k \in 1 .. Cardinality(I) :
              Position(I, k) \in I /\ EntriesAt(s, I)[k] = s[Position(I, k)]
<1>1. I \in SUBSET Nat /\ IsFiniteSet(I) /\ Cardinality(I) \in Nat
  BY DomainsFinite
<1>2. \A k \in 1 .. Cardinality(I) : Position(I, k) \in I
  BY <1>1, Positions
<1>3. \A i \in I : s[i] \in S
  OBVIOUS
<1>4. PICK n \in Nat : n = Cardinality(I)
  BY <1>1
<1>5. EntriesAt(s, I) = [k \in 1 .. n |-> s[Position(I, k)]]
  BY <1>4 DEF EntriesAt
<1>6. \A k \in 1 .. n : s[Position(I, k)] \in S
  BY <1>2, <1>3, <1>4
<1>7. EntriesAt(s, I) \in Seq(S) /\ Len(EntriesAt(s, I)) = n
  BY <1>5, <1>6
<1> QED BY <1>2, <1>4, <1>5, <1>7

-----------------------------------------------------------------------------
(* How many entries of a sequence are of some kind *)

Count(s, T) == Cardinality({i \in DOMAIN s : s[i] \in T})

LEMMA CountType ==
  ASSUME NEW S, NEW s \in Seq(S), NEW T
  PROVE  /\ Count(s, T) \in Nat /\ Count(s, T) <= Len(s)
         /\ Count(s, T) = 0 <=> \A i \in DOMAIN s : s[i] \notin T
<1>1. PICK A : A = {i \in DOMAIN s : s[i] \in T}
  OBVIOUS
<1>2. A \in SUBSET (DOMAIN s)
  BY <1>1
<1>3. IsFiniteSet(A) /\ Cardinality(A) \in Nat /\ Cardinality(A) <= Len(s)
  BY <1>2, DomainsFinite
<1>4. Cardinality(A) = 0 <=> A = {}
  BY <1>3, FS_EmptySet
<1> QED BY <1>1, <1>3, <1>4 DEF Count

LEMMA CountEmpty == \A T : Count(<< >>, T) = 0
<1> TAKE T
<1>1. {i \in DOMAIN << >> : << >>[i] \in T} = {}
  OBVIOUS
<1> QED BY <1>1, FS_EmptySet DEF Count

LEMMA CountAppend ==
  ASSUME NEW S, NEW s \in Seq(S), NEW e \in S, NEW T
  PROVE  Count(Append(s, e), T) = Count(s, T) + IF e \in T THEN 1 ELSE 0
<1>1. PICK A, B, n : A = {i \in DOMAIN s : s[i] \in T} /\ n = Len(s)
                     /\ B = {i \in DOMAIN Append(s, e) : Append(s, e)[i] \in T}
  OBVIOUS
<1>2. /\ n \in Nat /\ DOMAIN s = 1 .. n /\ DOMAIN Append(s, e) = 1 .. n + 1
      /\ Append(s, e)[n + 1] = e /\ \A i \in 1 .. n : Append(s, e)[i] = s[i]
  BY <1>1
<1>3. IsFiniteSet(A) /\ Cardinality(A) \in Nat
  <2>1. A \in SUBSET (DOMAIN s)
    BY <1>1
  <2> QED BY <2>1, DomainsFinite
<1>4. n + 1 \notin A
  BY <1>1, <1>2
<1>5. CASE e \in T
  <2>1. B = A \cup {n + 1}
    BY <1>1, <1>2, <1>5
  <2>2. Cardinality(B) = Cardinality(A) + 1
    BY <1>3, <1>4, <2>1, FS_AddElement
  <2> QED BY <1>1, <1>5, <2>2 DEF Count
<1>6. CASE e \notin T
  <2>1. B = A
    BY <1>1, <1>2, <1>6
  <2>2. Count(Append(s, e), T) = Cardinality(A) /\ Count(s, T) = Cardinality(A)
    BY <1>1, <2>1 DEF Count
  <2> QED BY <1>3, <1>6, <2>2
<1> QED BY <1>5, <1>6

\* One-to-one onto: as many.
LEMMA AsMany ==
  ASSUME NEW A, NEW B, IsFiniteSet(A), NEW g \in [A -> B],
         \A x, y \in A : g[x] = g[y] => x = y,
         \A y \in B : \E x \in A : g[x] = y
  PROVE  Cardinality(B) = Cardinality(A)
<1>1. g \in Injection(A, B) /\ g \in Surjection(A, B)
  BY DEF Injection, IsInjective, Surjection
<1>2. ExistsBijection(A, B)
  BY <1>1 DEF ExistsBijection, Bijection
<1> QED BY <1>2, FS_Bijection

LEMMA CountTail ==
  ASSUME NEW S, NEW s \in Seq(S), s # << >>, NEW T
  PROVE  Count(s, T) = Count(Tail(s), T) + IF Head(s) \in T THEN 1 ELSE 0
<1>1. PICK A, B, n, t : /\ A = {i \in DOMAIN t : t[i] \in T} /\ n = Len(t) /\ t = Tail(s)
                        /\ B = {i \in DOMAIN s : s[i] \in T}
  OBVIOUS
<1>2. /\ n \in Nat /\ t \in Seq(S) /\ DOMAIN t = 1 .. n /\ DOMAIN s = 1 .. n + 1
      /\ Head(s) = s[1] /\ \A i \in 1 .. n : t[i] = s[i + 1]
  BY <1>1
<1>3. IsFiniteSet(A) /\ Cardinality(A) \in Nat
  <2>1. A \in SUBSET (DOMAIN t)
    BY <1>1
  <2> QED BY <1>2, <2>1, DomainsFinite
<1> DEFINE C == {i + 1 : i \in A}
           g == [i \in A |-> i + 1]
<1>4. A \subseteq 1 .. n
  BY <1>1, <1>2
<1>5. Cardinality(C) = Cardinality(A) /\ IsFiniteSet(C)
  <2>1. \A x, y \in A : g[x] = g[y] => x = y
    BY <1>2, <1>4
  <2>2. g \in [A -> C] /\ \A y \in C : \E x \in A : g[x] = y
    OBVIOUS
  <2>3. g \in Injection(A, C) /\ g \in Surjection(A, C)
    <3> HIDE DEF g, C
    <3> QED BY <2>1, <2>2 DEF Injection, IsInjective, Surjection
  <2> HIDE DEF g, C
  <2>4. ExistsBijection(A, C)
    BY <2>3 DEF ExistsBijection, Bijection
  <2> QED BY <1>3, <2>4, FS_Bijection
<1>6. 1 \notin C
  BY <1>2, <1>4
<1>7. B = IF Head(s) \in T THEN C \cup {1} ELSE C
  <2>1. ASSUME NEW i \in B PROVE i \in IF Head(s) \in T THEN C \cup {1} ELSE C
    <3>1. CASE i = 1
      BY <1>1, <1>2, <3>1
    <3>2. CASE i # 1
      <4>1. i - 1 \in 1 .. n /\ i - 1 + 1 = i
        BY <1>1, <1>2, <3>2
      <4>2. t[i - 1] = s[i]
        BY <1>2, <4>1
      <4>3. i - 1 \in A
        BY <1>1, <1>2, <4>1, <4>2
      <4> QED BY <4>1, <4>3
    <3> QED BY <3>1, <3>2
  <2>2. \A i \in A : i + 1 \in B
    <3> TAKE i \in A
    <3>1. i \in 1 .. n /\ t[i] \in T /\ i + 1 \in 1 .. n + 1
      BY <1>1, <1>2
    <3> QED BY <1>1, <1>2, <3>1
  <2>3. Head(s) \in T => 1 \in B
    BY <1>1, <1>2
  <2>4. 1 \in B => Head(s) \in T
    BY <1>1, <1>2
  <2> QED BY <2>1, <2>2, <2>3, <2>4
<1> HIDE DEF C, g
<1>8. Cardinality(B) = Cardinality(A) + IF Head(s) \in T THEN 1 ELSE 0
  <2>1. Cardinality(C \cup {1}) = Cardinality(C) + 1
    BY <1>5, <1>6, FS_AddElement
  <2> QED BY <1>3, <1>5, <1>7, <2>1
<1> QED BY <1>1, <1>8 DEF Count

\* What is kept of some kind is what was of that kind at the positions kept.
LEMMA CountKept ==
  ASSUME NEW S, NEW s \in Seq(S), NEW I \in SUBSET (DOMAIN s), NEW T
  PROVE  Count(EntriesAt(s, I), T) = Cardinality({i \in I : s[i] \in T})
<1>1. PICK t, n : t = EntriesAt(s, I) /\ n = Cardinality(I)
  OBVIOUS
<1>2. /\ n \in Nat /\ DOMAIN t = 1 .. n /\ t \in Seq(S)
      /\ \A k \in 1 .. n : Position(I, k) \in I /\ t[k] = s[Position(I, k)]
      /\ I \in SUBSET Nat /\ IsFiniteSet(I)
  BY <1>1, KeptEntries, DomainsFinite
<1> DEFINE A == {k \in DOMAIN t : t[k] \in T}
           B == {i \in I : s[i] \in T}
           g == [k \in A |-> Position(I, k)]
<1>3. IsFiniteSet(A)
  <2>1. A \in SUBSET (DOMAIN t)
    OBVIOUS
  <2> HIDE DEF A
  <2> QED BY <1>2, <2>1, DomainsFinite
<1>4. g \in [A -> B]
  BY <1>2
<1>5. \A x, y \in A : g[x] = g[y] => x = y
  <2>1. \A k \in 1 .. n : Rank(I, Position(I, k)) = k
    BY <1>1, <1>2, Positions
  <2> QED BY <1>2, <2>1
<1>6. \A y \in B : \E x \in A : g[x] = y
  <2> TAKE y \in B
  <2>1. PICK k \in 1 .. n : Position(I, k) = y
    BY <1>1, <1>2, Positions
  <2>2. k \in A
    BY <1>2, <2>1
  <2> QED BY <2>1, <2>2
<1>7. Cardinality(B) = Cardinality(A)
  <2> HIDE DEF A, B, g
  <2> QED BY <1>3, <1>4, <1>5, <1>6, AsMany
<1> QED BY <1>1, <1>7 DEF Count

-----------------------------------------------------------------------------
(* Markers *)

Marker == [key : Keys, expires : 1 .. MaxTicks + TTL]

\* The live markers of a key.
Live(key, time) == {e \in Marker : e.key = key /\ e.expires > time}

\* Consume adds none.
LEMMA ConsumeKeeps ==
  ASSUME NEW s \in Seq(Marker), NEW key, NEW time \in Nat
  PROVE  \A k \in DOMAIN EchoRest(s, key, time) :
           \E i \in DOMAIN s : EchoRest(s, key, time)[k] = s[i]
<1>1. PICK I \in SUBSET (DOMAIN s) : EchoRest(s, key, time) = EntriesAt(s, I)
  BY DEF EchoRest, LiveEchoes
<1> QED BY <1>1, KeptEntries

\* Consume removes one live marker of the key it is asked for, if there is one,
\* and no live marker of another key.
LEMMA ConsumeCounts ==
  ASSUME NEW s \in Seq(Marker), NEW key, NEW other, NEW time \in Nat
  PROVE  /\ EchoRest(s, key, time) \in Seq(Marker) /\ Len(EchoRest(s, key, time)) <= Len(s)
         /\ EchoExpected(s, key, time) <=> Count(s, Live(key, time)) > 0
         /\ Count(EchoRest(s, key, time), Live(other, time))
              = Count(s, Live(other, time))
                - IF other = key /\ EchoExpected(s, key, time) THEN 1 ELSE 0
<1> DEFINE matches == EchoMatches(s, key, time)
           oldest == {i \in matches : \A j \in matches : i <= j}
           I == LiveEchoes(s, time) \ oldest
           A == {i \in DOMAIN s : s[i] \in Live(other, time)}
           B == {i \in I : s[i] \in Live(other, time)}
<1>1. EchoRest(s, key, time) = EntriesAt(s, I)
  BY DEF EchoRest
<1>2. I \in SUBSET (DOMAIN s)
  BY DEF LiveEchoes
<1>3. matches = {i \in DOMAIN s : s[i] \in Live(key, time)}
  BY DEF EchoMatches, LiveEchoes, Live
<1>4. matches \in SUBSET (DOMAIN s) /\ matches \in SUBSET Nat /\ IsFiniteSet(matches)
  <2>1. matches \in SUBSET (DOMAIN s)
    BY <1>3
  <2> HIDE DEF matches
  <2> QED BY <2>1, DomainsFinite
<1>5. EchoExpected(s, key, time) <=> Count(s, Live(key, time)) > 0
  <2>1. Count(s, Live(key, time)) = Cardinality(matches)
    BY <1>3 DEF Count
  <2>2. Cardinality(matches) \in Nat /\ (Cardinality(matches) = 0 <=> matches = {})
    <3> HIDE DEF matches
    <3> QED BY <1>4, FS_CardinalityType, FS_EmptySet
  <2> QED BY <2>1, <2>2 DEF EchoExpected
<1>6. matches # {} => \E i \in matches : oldest = {i}
  <2>1. SUFFICES ASSUME matches # {} PROVE \E i \in matches : oldest = {i}
    OBVIOUS
  <2>2. Cardinality(matches) \in Nat /\ Cardinality(matches) # 0
    <3> HIDE DEF matches
    <3> QED BY <1>4, <2>1, FS_CardinalityType, FS_EmptySet
  <2>3. PICK i \in matches : Rank(matches, i) = 1
    <3>1. 1 \in 1 .. Cardinality(matches)
      BY <2>2
    <3> HIDE DEF matches
    <3> QED BY <1>4, <3>1, Ranks
  <2>4. \A j \in matches : i <= j
    <3> SUFFICES ASSUME NEW j \in matches, ~ (i <= j) PROVE FALSE
      OBVIOUS
    <3>1. i \in Nat /\ j \in Nat /\ j < i
      BY <1>4
    <3>2. {x \in matches : x <= i} = {i, j} \cup {x \in matches : x <= i}
      BY <3>1
    <3>3. PICK C : C = {x \in matches : x <= i}
      OBVIOUS
    <3>4. Cardinality(C) = 1 /\ i \in C /\ j \in C /\ IsFiniteSet(C)
      <4>1. C \in SUBSET matches
        BY <3>3
      <4>2. IsFiniteSet(C)
        <5> HIDE DEF matches
        <5> QED BY <1>4, <4>1, FS_Subset
      <4> QED BY <2>3, <3>1, <3>3, <4>2 DEF Rank
    <3>5. \E x : C = {x}
      BY <3>4, FS_Singleton
    <3> QED BY <3>1, <3>4, <3>5
  <2>5. \A j \in oldest : j = i
    <3> TAKE j \in oldest
    <3>1. j \in matches /\ j <= i /\ i <= j /\ i \in Nat /\ j \in Nat
      BY <1>4, <2>4
    <3> QED BY <3>1
  <2> QED BY <2>4, <2>5
<1>7. EchoExpected(s, key, time) <=> matches # {}
  BY DEF EchoExpected
<1>8. EchoRest(s, key, time) \in Seq(Marker) /\ Len(EchoRest(s, key, time)) <= Len(s)
  <2> HIDE DEF I
  <2> QED BY <1>1, <1>2, KeptEntries, DomainsFinite
<1>9. Count(EchoRest(s, key, time), Live(other, time)) = Cardinality(B)
  <2>1. Count(EntriesAt(s, I), Live(other, time)) = Cardinality(B)
    <3> HIDE DEF I
    <3> QED BY <1>2, CountKept
  <2> QED BY <1>1, <2>1
<1>10. Count(s, Live(other, time)) = Cardinality(A) /\ IsFiniteSet(A) /\ Cardinality(A) \in Nat
  <2>1. A \in SUBSET (DOMAIN s)
    OBVIOUS
  <2>2. Count(s, Live(other, time)) = Cardinality(A)
    BY DEF Count
  <2> HIDE DEF A
  <2> QED BY <2>1, <2>2, DomainsFinite
<1>11. B = A \ oldest
  BY DEF LiveEchoes, Live
<1> HIDE DEF A, B, I, matches, oldest
<1>12. CASE other = key /\ matches # {}
  <2>1. PICK i \in matches : oldest = {i}
    BY <1>6, <1>12
  <2>2. i \in A
    BY <1>3, <1>12 DEF A
  <2>3. Cardinality(B) = Cardinality(A) - 1
    BY <1>10, <1>11, <2>1, <2>2, FS_RemoveElement
  <2> QED BY <1>5, <1>7, <1>8, <1>9, <1>10, <1>12, <2>3
<1>13. CASE ~ (other = key /\ matches # {})
  <2>1. A \cap oldest = {}
    <3>1. SUFFICES ASSUME NEW i \in A, i \in oldest PROVE FALSE
      OBVIOUS
    <3>2. i \in matches
      BY <3>1 DEF oldest
    <3>3. s[i].key = key /\ s[i].key = other
      BY <1>3, <3>1, <3>2 DEF A, Live
    <3> QED BY <1>13, <3>2, <3>3
  <2>2. Cardinality(B) = Cardinality(A)
    BY <1>11, <2>1
  <2> QED BY <1>5, <1>7, <1>8, <1>9, <1>10, <1>13, <2>2
<1> QED BY <1>12, <1>13

\* Add puts one more marker in, when it drops none that is live.
LEMMA AddCounts ==
  ASSUME NEW s \in Seq(Marker), NEW e \in Marker, NEW key, NEW time \in Nat,
         Len(s) = RingSize => s[1].expires <= time
  PROVE  Count(EchoAdd(s, e), Live(key, time))
           = Count(s, Live(key, time)) + IF e \in Live(key, time) THEN 1 ELSE 0
<1>1. CASE Len(s) = RingSize
  <2>1. s # << >> /\ Head(s) = s[1] /\ s[1] \in Marker
    BY <1>1, RingSizeAssumption
  <2>2. PICK t : t = Tail(s) /\ t \in Seq(Marker)
    <3>1. Tail(s) \in Seq(Marker)
      BY <2>1
    <3> QED BY <3>1
  <2>3. Head(s) \notin Live(key, time)
    <3>1. PICK x : x = s[1].expires /\ x \in Int
      BY <2>1 DEF Marker
    <3>2. x <= time
      BY <1>1, <3>1
    <3>3. SUFFICES ASSUME Head(s) \in Live(key, time) PROVE FALSE
      OBVIOUS
    <3>4. x > time
      BY <2>1, <3>1, <3>3 DEF Live
    <3> QED BY <3>1, <3>2, <3>4
  <2>4. Count(s, Live(key, time)) = Count(t, Live(key, time))
    <3>1. PICK T : T = Live(key, time)
      OBVIOUS
    <3>2. Count(t, T) \in Nat
      BY <2>2, CountType
    <3>3. Count(s, T) = Count(Tail(s), T) + IF Head(s) \in T THEN 1 ELSE 0
      BY <2>1, CountTail
    <3> QED BY <2>2, <2>3, <3>1, <3>2, <3>3
  <2>5. Count(Append(t, e), Live(key, time))
          = Count(t, Live(key, time)) + IF e \in Live(key, time) THEN 1 ELSE 0
    BY <2>2, CountAppend
  <2> QED BY <1>1, <2>2, <2>4, <2>5 DEF EchoAdd
<1>2. CASE Len(s) # RingSize
  BY <1>2, CountAppend DEF EchoAdd
<1> QED BY <1>1, <1>2

\* With overflow, too, it stays within the capacity, and what is in it was or is new.
LEMMA AddEntries ==
  ASSUME NEW s \in Seq(Marker), Len(s) <= RingSize, NEW e \in Marker
  PROVE  /\ EchoAdd(s, e) \in Seq(Marker) /\ Len(EchoAdd(s, e)) <= RingSize
         /\ \A k \in DOMAIN EchoAdd(s, e) :
              EchoAdd(s, e)[k] = e \/ \E i \in DOMAIN s : EchoAdd(s, e)[k] = s[i]
<1>1. Len(s) \in Nat /\ RingSize \in Nat \ {0}
  BY RingSizeAssumption
<1>2. CASE Len(s) = RingSize
  <2>1. EchoAdd(s, e) = Append(Tail(s), e)
    BY <1>2 DEF EchoAdd
  <2>2. s # << >>
    BY <1>1, <1>2
  <2>3. PICK t : t = Tail(s)
    OBVIOUS
  <2>4. t \in Seq(Marker) /\ Len(t) = Len(s) - 1 /\ \A i \in 1 .. Len(s) - 1 : t[i] = s[i + 1]
    BY <2>2, <2>3
  <2>5. PICK n \in Nat : n = Len(t)
    BY <2>4
  <2>6. Append(t, e) \in Seq(Marker) /\ Len(Append(t, e)) = n + 1
        /\ DOMAIN Append(t, e) = 1 .. n + 1 /\ Append(t, e)[n + 1] = e
        /\ \A i \in 1 .. n : Append(t, e)[i] = t[i]
    BY <2>4, <2>5
  <2>7. ASSUME NEW k \in 1 .. n + 1
        PROVE  Append(t, e)[k] = e \/ \E i \in DOMAIN s : Append(t, e)[k] = s[i]
    <3>1. CASE k = n + 1
      BY <2>6, <3>1
    <3>2. CASE k # n + 1
      <4>1. k \in 1 .. n /\ k + 1 \in DOMAIN s /\ k \in 1 .. Len(s) - 1
        BY <1>1, <2>4, <2>5, <3>2
      <4>2. Append(t, e)[k] = s[k + 1]
        BY <2>4, <2>6, <4>1
      <4> QED BY <4>1, <4>2
    <3> QED BY <3>1, <3>2
  <2> QED BY <1>1, <1>2, <2>1, <2>3, <2>4, <2>5, <2>6, <2>7
<1>3. CASE Len(s) # RingSize
  <2>1. EchoAdd(s, e) = Append(s, e)
    BY <1>3 DEF EchoAdd
  <2>2. Append(s, e) \in Seq(Marker) /\ Len(Append(s, e)) = Len(s) + 1
        /\ DOMAIN Append(s, e) = 1 .. Len(s) + 1 /\ DOMAIN s = 1 .. Len(s)
        /\ Append(s, e)[Len(s) + 1] = e
        /\ \A i \in 1 .. Len(s) : Append(s, e)[i] = s[i]
    OBVIOUS
  <2>3. \A k \in 1 .. Len(s) + 1 : k = Len(s) + 1 \/ k \in 1 .. Len(s)
    BY <1>1
  <2>4. PICK t : t = Append(s, e)
    OBVIOUS
  <2>5. \A k \in DOMAIN t : t[k] = e \/ \E i \in DOMAIN s : t[k] = s[i]
    BY <2>2, <2>3, <2>4
  <2>6. Len(t) <= RingSize
    <3>1. PICK n \in Nat : n = Len(s)
      BY <1>1
    <3>2. n + 1 <= RingSize
      BY <1>1, <1>3, <3>1
    <3>3. Len(t) = n + 1
      BY <2>2, <2>4, <3>1
    <3> QED BY <3>2, <3>3
  <2> QED BY <2>1, <2>2, <2>4, <2>5, <2>6
<1> QED BY <1>2, <1>3

-----------------------------------------------------------------------------
(* The types *)

Notice == [content : Contents, by : {"user", "remote"}]
Copy   == [node : Nodes, value : UserValues, calm : BOOLEAN]
Hush   == [key : Keys, by : {"user", "remote"}]

\* While a watcher reads, its channel has room for what it reads.
RoomForNotice ==
  \A n \in Nodes, t \in Types :
    Len(notices[n][t]) <= ChanCap + IF t \in reading[n] THEN 0 ELSE 1

NobodysClip == \A n \in Nodes : clip[n].by = "nobody" => \A t \in Types : clip[n].val[t] = None

ClipOK == /\ clip \in [Nodes -> [val : [Types -> Contents \cup {None}], by : Origins]]
          /\ NobodysClip

WatchOK == /\ changed \in [Nodes -> SUBSET Types]
           /\ reading \in [Nodes -> SUBSET Types]
           /\ notices \in [Nodes -> [Types -> Seq(Notice)]]
           /\ RoomForNotice

LoopOK == /\ loop \in [Nodes -> Messages \cup {None}]
          /\ echoes \in [Nodes -> Seq(Marker)]
          /\ \A n \in Nodes : Len(echoes[n]) <= RingSize

NetOK == /\ lastTS \in [Nodes -> 0 .. MaxTS]
         /\ transit \subseteq Links \X Messages
         /\ now \in 0 .. MaxTicks

HistoryOK == /\ copied \in Seq(Copy)
             /\ sent \in Seq(Messages)
             /\ written \in [Nodes -> SUBSET Keys]
             /\ hushed \in [Nodes -> Seq(Hush)]

TypeInv == ClipOK /\ WatchOK /\ LoopOK /\ NetOK /\ HistoryOK

LEMMA TypeInvSuffices == TypeInv => TypeOK
<1> SUFFICES ASSUME TypeInv PROVE TypeOK
  OBVIOUS
<1>1. ASSUME NEW n \in Nodes, NEW t \in Types
      PROVE  notices[n][t] \in Seq(Notice) /\ Len(notices[n][t]) <= ChanCap + 1
  <2>1. notices[n][t] \in Seq(Notice)
    BY DEF TypeInv, WatchOK
  <2>2. Len(notices[n][t]) \in Nat /\ ChanCap \in Nat
    BY <2>1, ClipNodeAssumption
  <2>3. Len(notices[n][t]) <= ChanCap + IF t \in reading[n] THEN 0 ELSE 1
    BY DEF TypeInv, WatchOK, RoomForNotice
  <2> QED BY <2>1, <2>2, <2>3
<1> QED BY <1>1 DEF TypeInv, ClipOK, WatchOK, LoopOK, NetOK, HistoryOK, Notice, Marker, TypeOK

\* The clipboard of one node is written.
LEMMA SetClipTypes ==
  ASSUME ClipOK, changed \in [Nodes -> SUBSET Types], NEW n \in Nodes,
         NEW value \in [Types -> Contents \cup {None}], NEW by \in {"user", "remote"},
         SetClip(n, value, by)
  PROVE  ClipOK' /\ changed' \in [Nodes -> SUBSET Types]
<1>1. clip' = [clip EXCEPT ![n] = [val |-> value, by |-> by]]
  BY DEF SetClip
<1>2. clip' \in [Nodes -> [val : [Types -> Contents \cup {None}], by : Origins]]
  BY <1>1 DEF ClipOK, Origins
<1>3. NobodysClip'
  BY <1>1 DEF ClipOK, NobodysClip
<1>4. changed' \in [Nodes -> SUBSET Types]
  BY DEF SetClip
<1> QED BY <1>2, <1>3, <1>4 DEF ClipOK

\* What a change of clip and histories leaves alone.
LEMMA WatchUnchanged ==
  ASSUME WatchOK, changed' \in [Nodes -> SUBSET Types], UNCHANGED <<reading, notices>>
  PROVE  WatchOK'
  BY DEF WatchOK, RoomForNotice

LEMMA ClipUnchanged ==
  ASSUME ClipOK, UNCHANGED clip
  PROVE  ClipOK'
  BY DEF ClipOK, NobodysClip

LEMMA LoopUnchanged ==
  ASSUME LoopOK, UNCHANGED <<loop, echoes>>
  PROVE  LoopOK'
  BY DEF LoopOK

LEMMA UserCopyTypes ==
  ASSUME TypeInv, NEW n \in Copiers, NEW value \in UserValues, UserCopy(n, value)
  PROVE  TypeInv'
<1>1. n \in Nodes /\ value \in [Types -> Contents \cup {None}]
  BY ClipNodeAssumption
<1>2. ClipOK' /\ WatchOK'
  <2>1. SetClip(n, value, "user") /\ UNCHANGED <<reading, notices>>
    BY DEF UserCopy
  <2> QED BY <1>1, <2>1, SetClipTypes, WatchUnchanged DEF TypeInv, WatchOK
<1>3. LoopOK' /\ NetOK'
  BY DEF TypeInv, UserCopy, nodeVars, LoopOK, NetOK
<1>4. HistoryOK'
  <2>1. PICK c : c = Quiet /\ c \in BOOLEAN
    BY Zenon DEF Quiet
  <2>2. [node |-> n, value |-> value, calm |-> c] \in Copy
    BY <1>1, <2>1 DEF Copy
  <2>3. copied' = Append(copied, [node |-> n, value |-> value, calm |-> c])
    BY <2>1 DEF UserCopy
  <2> QED BY <2>2, <2>3 DEF TypeInv, HistoryOK, UserCopy
<1> QED BY <1>2, <1>3, <1>4 DEF TypeInv

LEMMA PollTypes ==
  ASSUME TypeInv, NEW n \in Nodes, NEW t \in Types, Poll(n, t)
  PROVE  TypeInv'
<1>1. ClipOK' /\ LoopOK' /\ NetOK' /\ HistoryOK'
  BY ClipUnchanged DEF TypeInv, Poll, nodeVars, history, LoopOK, NetOK, HistoryOK
<1>2. /\ changed' \in [Nodes -> SUBSET Types] /\ reading' \in [Nodes -> SUBSET Types]
      /\ notices' \in [Nodes -> [Types -> Seq(Notice)]]
  BY DEF TypeInv, WatchOK, Poll
<1>3. RoomForNotice'
  <2> SUFFICES ASSUME NEW m \in Nodes, NEW u \in Types
               PROVE  Len(notices[m][u]) <= ChanCap + IF u \in reading'[m] THEN 0 ELSE 1
    BY DEF RoomForNotice, Poll
  <2>1. Len(notices[m][u]) <= ChanCap + IF u \in reading[m] THEN 0 ELSE 1
    BY DEF TypeInv, WatchOK, RoomForNotice
  <2>2. reading' = [reading EXCEPT ![n] = @ \cup {t}] /\ Len(notices[n][t]) <= ChanCap
    BY DEF Poll
  <2>3. ChanCap \in Nat
    BY ClipNodeAssumption
  <2>4. CASE m = n /\ u = t
    BY <2>2, <2>3, <2>4 DEF TypeInv, WatchOK
  <2>5. CASE ~ (m = n /\ u = t)
    BY <2>1, <2>2, <2>5 DEF TypeInv, WatchOK
  <2> QED BY <2>4, <2>5
<1> QED BY <1>1, <1>2, <1>3 DEF TypeInv, WatchOK

\* What a read adds to a channel.
LEMMA ReadNotice ==
  ASSUME TypeInv, NEW n \in Nodes, NEW t \in Types, clip[n].val[t] # None
  PROVE  [content |-> clip[n].val[t], by |-> clip[n].by] \in Notice
<1>1. clip[n].val[t] \in Contents /\ clip[n].by \in Origins
  BY DEF TypeInv, ClipOK
<1>2. clip[n].by # "nobody"
  BY DEF TypeInv, ClipOK, NobodysClip
<1> QED BY <1>1, <1>2 DEF Notice, Origins

LEMMA ReadDataTypes ==
  ASSUME TypeInv, NEW n \in Nodes, NEW t \in Types, ReadData(n, t)
  PROVE  TypeInv'
<1>1. ClipOK' /\ LoopOK' /\ NetOK' /\ HistoryOK'
  BY ClipUnchanged DEF TypeInv, ReadData, nodeVars, history, LoopOK, NetOK, HistoryOK
<1>2. /\ changed' \in [Nodes -> SUBSET Types] /\ reading' \in [Nodes -> SUBSET Types]
      /\ reading' = [reading EXCEPT ![n] = @ \ {t}] /\ t \in reading[n]
  BY DEF TypeInv, WatchOK, ReadData
<1>3. ChanCap \in Nat
  BY ClipNodeAssumption
<1>4. \A m \in Nodes, u \in Types :
        /\ notices[m][u] \in Seq(Notice)
        /\ Len(notices[m][u]) \in Nat
        /\ Len(notices[m][u]) <= ChanCap + IF u \in reading[m] THEN 0 ELSE 1
  <2> TAKE m \in Nodes, u \in Types
  <2>1. notices[m][u] \in Seq(Notice)
    BY DEF TypeInv, WatchOK
  <2> QED BY <2>1 DEF TypeInv, WatchOK, RoomForNotice
<1>5. CASE clip[n].val[t] = None
  <2>1. notices' = notices
    BY <1>5 DEF ReadData
  <2>2. RoomForNotice'
    <3> SUFFICES ASSUME NEW m \in Nodes, NEW u \in Types
                 PROVE  Len(notices[m][u]) <= ChanCap + IF u \in reading'[m] THEN 0 ELSE 1
      BY <2>1 DEF RoomForNotice
    <3>1. u \in reading'[m] => u \in reading[m]
      BY <1>2 DEF TypeInv, WatchOK
    <3> QED BY <1>3, <1>4, <3>1
  <2> QED BY <1>1, <1>2, <2>1, <2>2 DEF TypeInv, WatchOK
<1>6. CASE clip[n].val[t] # None
  <2>1. PICK e \in Notice : notices' = [notices EXCEPT ![n][t] = Append(@, e)]
    <3>1. notices' = [notices EXCEPT ![n][t] = Append(@, [content |-> clip[n].val[t], by |-> clip[n].by])]
      BY <1>6 DEF ReadData
    <3> QED BY <1>6, <3>1, ReadNotice
  <2>2. notices' \in [Nodes -> [Types -> Seq(Notice)]]
    <3>1. Append(notices[n][t], e) \in Seq(Notice)
      BY <1>4
    <3> QED BY <2>1, <3>1 DEF TypeInv, WatchOK
  <2>3. RoomForNotice'
    <3> SUFFICES ASSUME NEW m \in Nodes, NEW u \in Types
                 PROVE  Len(notices'[m][u]) <= ChanCap + IF u \in reading'[m] THEN 0 ELSE 1
      BY DEF RoomForNotice
    <3>1. CASE m = n /\ u = t
      <4>1. notices'[m][u] = Append(notices[n][t], e) /\ u \notin reading'[m]
        BY <1>2, <2>1, <3>1 DEF TypeInv, WatchOK
      <4>2. PICK s \in Seq(Notice) : s = notices[n][t]
        BY <1>4
      <4>3. Len(Append(s, e)) = Len(s) + 1 /\ Len(s) <= ChanCap /\ Len(s) \in Nat
        BY <1>2, <1>3, <1>4, <4>2
      <4> QED BY <1>3, <4>1, <4>2, <4>3
    <3>2. CASE ~ (m = n /\ u = t)
      <4>1. notices'[m][u] = notices[m][u] /\ (u \in reading'[m] <=> u \in reading[m])
        BY <1>2, <2>1, <3>2 DEF TypeInv, WatchOK
      <4> QED BY <1>4, <4>1
    <3> QED BY <3>1, <3>2
  <2> QED BY <1>1, <1>2, <2>2, <2>3 DEF TypeInv, WatchOK
<1> QED BY <1>5, <1>6

LEMMA NotifyTypes ==
  ASSUME TypeInv, NEW n \in Nodes, NEW t \in Types, Notify(n, t)
  PROVE  TypeInv'
<1> DEFINE data == Head(notices[n][t])
           key  == <<t, data.content>>
<1>1. data \in Notice /\ key \in Keys
  <2>1. PICK s \in Seq(Notice) : s = notices[n][t]
    BY DEF TypeInv, WatchOK
  <2>2. s # << >>
    BY <2>1 DEF Notify
  <2>3. Head(s) \in Notice
    BY <2>2
  <2> QED BY <2>1, <2>3 DEF Notice, Keys
<1>2. ClipOK'
  BY ClipUnchanged DEF TypeInv, Notify
<1>3. WatchOK'
  <2>1. /\ changed' = changed /\ reading' = reading
        /\ notices' = [notices EXCEPT ![n][t] = Tail(@)]
    BY DEF Notify
  <2>2. PICK s \in Seq(Notice) : s = notices[n][t] /\ s # << >>
    BY DEF TypeInv, WatchOK, Notify
  <2>3. PICK u : u = Tail(s)
    OBVIOUS
  <2>3a. u \in Seq(Notice) /\ Len(u) = Len(s) - 1 /\ Len(s) \in Nat
    BY <2>2, <2>3
  <2>4. notices' = [notices EXCEPT ![n] = [@ EXCEPT ![t] = u]]
    BY <2>1, <2>2, <2>3
  <2>5. notices' \in [Nodes -> [Types -> Seq(Notice)]]
    BY <2>3a, <2>4 DEF TypeInv, WatchOK
  <2>6. RoomForNotice'
    <3> SUFFICES ASSUME NEW m \in Nodes, NEW v \in Types
                 PROVE  Len(notices'[m][v]) <= ChanCap + IF v \in reading[m] THEN 0 ELSE 1
      BY <2>1 DEF RoomForNotice
    <3>1. /\ Len(notices[m][v]) <= ChanCap + IF v \in reading[m] THEN 0 ELSE 1
          /\ ChanCap \in Nat
      BY ClipNodeAssumption DEF TypeInv, WatchOK, RoomForNotice
    <3>2. CASE m = n /\ v = t
      <4>1. notices'[m][v] = u
        BY <2>4, <3>2 DEF TypeInv, WatchOK
      <4> QED BY <2>2, <2>3a, <3>1, <3>2, <4>1
    <3>3. CASE ~ (m = n /\ v = t)
      <4>1. notices'[m][v] = notices[m][v]
        BY <2>4, <3>3 DEF TypeInv, WatchOK
      <4> QED BY <3>1, <4>1
    <3> QED BY <3>2, <3>3
  <2> QED BY <2>1, <2>5, <2>6 DEF TypeInv, WatchOK
<1>4. LoopOK'
  <2>1. PICK s \in Seq(Marker) : s = echoes[n] /\ Len(s) <= RingSize
    BY DEF TypeInv, LoopOK
  <2>2. now \in Nat
    BY ClipNodeAssumption DEF TypeInv, NetOK
  <2>3. PICK u : u = EchoRest(s, key, now)
    OBVIOUS
  <2>4. u \in Seq(Marker) /\ Len(u) <= Len(s)
    BY <2>2, <2>3, ConsumeCounts
  <2>5. Len(u) \in Nat /\ Len(s) \in Nat
    BY <2>4
  <2>6. Len(u) <= RingSize
    BY <2>1, <2>4, <2>5, RingSizeAssumption
  <2>7. echoes' = [echoes EXCEPT ![n] = u] /\ loop' = loop
    BY <2>1, <2>3 DEF Notify
  <2> QED BY <2>4, <2>6, <2>7 DEF TypeInv, LoopOK
<1>5. CASE EchoExpected(echoes[n], key, now)
  <2>1. /\ UNCHANGED <<lastTS, transit, sent, now, copied, written>>
        /\ hushed' = [hushed EXCEPT ![n] = Append(@, [key |-> key, by |-> data.by])]
    BY <1>5 DEF Notify
  <2>2. PICK h \in Hush : h = [key |-> key, by |-> data.by]
    BY <1>1 DEF Hush, Notice
  <2>3. hushed' = [hushed EXCEPT ![n] = Append(hushed[n], h)]
    BY <2>1, <2>2
  <2>4. HistoryOK'
    BY <2>1, <2>3 DEF TypeInv, HistoryOK
  <2>5. NetOK'
    BY <2>1 DEF TypeInv, NetOK
  <2> QED BY <1>2, <1>3, <1>4, <2>4, <2>5 DEF TypeInv
<1>6. CASE ~ EchoExpected(echoes[n], key, now)
  <2> DEFINE msg == NewMessage(n, t, data.content)
  <2>1. /\ Send(n, msg) /\ UNCHANGED <<now, copied, written, hushed>>
    BY <1>6 DEF Notify
  <2>2. lastTS[n] \in 0 .. MaxTS /\ lastTS[n] < MaxTS /\ MaxTS \in Nat
    BY <2>1, ClipNodeAssumption DEF TypeInv, NetOK, Send
  <2>3. PICK m \in Messages : m = msg
    <3>1. lastTS[n] + 1 \in 1 .. MaxTS
      BY <2>2
    <3>2. data.content \in Contents
      BY <1>1 DEF Notice
    <3>3. msg \in Messages
      BY <3>1, <3>2, Zenon DEF Messages, NewMessage
    <3> QED BY <3>3
  <2>4. m.ts = lastTS[n] + 1 /\ m.ts \in 0 .. MaxTS
    BY <2>2, <2>3 DEF NewMessage
  <2>5. /\ lastTS' = [lastTS EXCEPT ![n] = m.ts]
        /\ transit' = transit \cup {<<l, m>> : l \in {k \in Links : k[1] = n}}
        /\ sent' = Append(sent, m)
    BY <2>1, <2>3 DEF Send
  <2>6. NetOK'
    BY <2>1, <2>4, <2>5 DEF TypeInv, NetOK
  <2>7. HistoryOK'
    BY <2>1, <2>5 DEF TypeInv, HistoryOK
  <2> QED BY <1>2, <1>3, <1>4, <2>6, <2>7 DEF TypeInv
<1> QED BY <1>5, <1>6

LEMMA IgnoreTypes ==
  ASSUME TypeInv, NEW l, NEW m, Ignore(l, m)
  PROVE  TypeInv'
<1>1. ClipOK' /\ LoopOK'
  BY ClipUnchanged, LoopUnchanged DEF TypeInv, Ignore, nodeVars
<1>2. WatchOK' /\ NetOK' /\ HistoryOK'
  BY DEF TypeInv, Ignore, Arrives, watchVars, nodeVars, history, WatchOK, RoomForNotice, NetOK, HistoryOK
<1> QED BY <1>1, <1>2 DEF TypeInv

\* The parts of a message in transit.
LEMMA InTransit ==
  ASSUME TypeInv, NEW l, NEW m, <<l, m>> \in transit
  PROVE  l \in Links /\ l[1] \in Nodes /\ l[2] \in Nodes /\ m \in Messages
  BY ClipNodeAssumption DEF TypeInv, NetOK

LEMMA ApplyTypes ==
  ASSUME TypeInv, NEW l, NEW m, Apply(l, m)
  PROVE  TypeInv'
<1> DEFINE n == l[2]
           stored == ReadsBack[n][m.content]
           value == [t \in Types |-> IF t = m.type THEN stored ELSE None]
<1>1. n \in Nodes /\ m \in Messages
  BY InTransit DEF Apply, Arrives
<1>2. stored \in Contents /\ <<m.type, stored>> \in Keys
  BY <1>1, ClipNodeAssumption DEF Messages, Keys
<1>3. value \in [Types -> Contents \cup {None}]
  BY <1>2
<1>4. ClipOK' /\ WatchOK'
  <2>1. SetClip(n, value, "remote") /\ UNCHANGED <<reading, notices>>
    BY DEF Apply
  <2> HIDE DEF n, value
  <2> QED BY <1>1, <1>3, <2>1, SetClipTypes, WatchUnchanged DEF TypeInv, WatchOK
<1>5. LoopOK'
  BY <1>1 DEF TypeInv, Apply, LoopOK
<1>6. NetOK' /\ HistoryOK'
  <2>1. PICK key \in Keys : written' = [written EXCEPT ![n] = @ \cup {key}]
    BY <1>2 DEF Apply
  <2>2. NetOK'
    BY DEF TypeInv, Apply, Arrives, NetOK
  <2>3. UNCHANGED <<copied, sent, hushed>>
    BY DEF Apply
  <2>4. HistoryOK'
    BY <1>1, <2>1, <2>3 DEF TypeInv, HistoryOK
  <2> QED BY <2>2, <2>4
<1> QED BY <1>4, <1>5, <1>6 DEF TypeInv

\* The marker that a read-back adds.
LEMMA NewMarker ==
  ASSUME TypeInv, NEW n \in Nodes, NEW echoID \in Contents, loop[n] # None
  PROVE  [key |-> <<loop[n].type, echoID>>, expires |-> now + TTL] \in Marker
<1>1. loop[n] \in Messages
  BY DEF TypeInv, LoopOK
<1>2. <<loop[n].type, echoID>> \in Keys
  BY <1>1 DEF Messages, Keys
<1>3. now \in 0 .. MaxTicks /\ TTL \in Nat \ {0} /\ MaxTicks \in Nat
  BY ClipNodeAssumption DEF TypeInv, NetOK
<1>4. now + TTL \in 1 .. MaxTicks + TTL
  BY <1>3
<1> QED BY <1>2, <1>4 DEF Marker

\* What the read-back of a message finds, or makes of finding nothing.
EchoID(n, ok) ==
  IF ok /\ clip[n].val[loop[n].type] # None THEN clip[n].val[loop[n].type]
                                           ELSE loop[n].content

LEMMA EchoIDType ==
  ASSUME TypeInv, NEW n \in Nodes, NEW ok \in BOOLEAN, loop[n] # None
  PROVE  EchoID(n, ok) \in Contents
<1>1. loop[n] \in Messages
  BY DEF TypeInv, LoopOK
<1>2. loop[n].type \in Types /\ loop[n].content \in Contents
  BY <1>1 DEF Messages
<1>3. clip[n].val[loop[n].type] \in Contents \cup {None}
  BY <1>2 DEF TypeInv, ClipOK
<1> QED BY <1>2, <1>3 DEF EchoID

LEMMA ReadBackMarker ==
  ASSUME TypeInv, NEW n \in Nodes, NEW ok \in BOOLEAN, ReadBack(n, ok)
  PROVE  /\ loop[n] # None /\ loop' = [loop EXCEPT ![n] = None]
         /\ [key |-> <<loop[n].type, EchoID(n, ok)>>, expires |-> now + TTL] \in Marker
         /\ echoes' = [echoes EXCEPT ![n] =
              EchoAdd(echoes[n], [key |-> <<loop[n].type, EchoID(n, ok)>>, expires |-> now + TTL])]
<1>1. loop[n] # None
  BY DEF ReadBack
<1>2. EchoID(n, ok) \in Contents
  BY <1>1, EchoIDType
<1> QED BY <1>1, <1>2, NewMarker DEF ReadBack, EchoID

LEMMA ReadBackTypes ==
  ASSUME TypeInv, NEW n \in Nodes, NEW ok \in BOOLEAN, ReadBack(n, ok)
  PROVE  TypeInv'
<1>1. ClipOK' /\ WatchOK' /\ NetOK' /\ HistoryOK'
  BY ClipUnchanged DEF TypeInv, ReadBack, watchVars, history, WatchOK, RoomForNotice, NetOK, HistoryOK
<1>2. PICK e \in Marker : echoes' = [echoes EXCEPT ![n] = EchoAdd(echoes[n], e)]
  BY ReadBackMarker
<1>3. loop' = [loop EXCEPT ![n] = None]
  BY ReadBackMarker
<1>4. PICK s \in Seq(Marker) : s = echoes[n] /\ Len(s) <= RingSize
  BY DEF TypeInv, LoopOK
<1>5. PICK u \in Seq(Marker) : u = EchoAdd(s, e) /\ Len(u) <= RingSize
  BY <1>4, AddEntries
<1>6. LoopOK'
  BY <1>2, <1>3, <1>4, <1>5 DEF TypeInv, LoopOK
<1> QED BY <1>1, <1>6 DEF TypeInv

LEMMA EnvironmentTypes ==
  ASSUME TypeInv, (\E p \in transit : Lose(p)) \/ Tick \/ UNCHANGED vars
  PROVE  TypeInv'
<1>1. UNCHANGED <<clip, watchVars, nodeVars, history>>
  BY DEF Lose, Tick, vars
<1>2. ClipOK' /\ LoopOK' /\ WatchOK' /\ HistoryOK'
  BY <1>1, ClipUnchanged, LoopUnchanged
     DEF TypeInv, watchVars, nodeVars, history, WatchOK, RoomForNotice, HistoryOK
<1>3. NetOK'
  <2>1. transit' \subseteq transit
    BY DEF Lose, Tick, vars
  <2>2. now' \in 0 .. MaxTicks
    BY ClipNodeAssumption DEF TypeInv, NetOK, Lose, Tick, vars
  <2> QED BY <1>1, <2>1, <2>2 DEF TypeInv, NetOK, nodeVars
<1> QED BY <1>2, <1>3 DEF TypeInv

LEMMA InitTypes == Init => TypeInv
<1> SUFFICES ASSUME Init PROVE TypeInv
  OBVIOUS
<1>1. ClipOK
  BY DEF Init, ClipOK, NobodysClip, Origins
<1>2. WatchOK
  <2>1. ChanCap \in Nat
    BY ClipNodeAssumption
  <2>2. << >> \in Seq(Notice) /\ Len(<< >>) = 0
    OBVIOUS
  <2>3. RoomForNotice
    BY <2>1, <2>2 DEF Init, RoomForNotice
  <2> QED BY <2>2, <2>3 DEF Init, WatchOK
<1>3. LoopOK
  <2>1. << >> \in Seq(Marker) /\ Len(<< >>) = 0
    OBVIOUS
  <2>2. RingSize \in Nat
    BY RingSizeAssumption
  <2> QED BY <2>1, <2>2 DEF Init, LoopOK
<1>4. NetOK
  BY ClipNodeAssumption DEF Init, NetOK
<1>5. HistoryOK
  BY DEF Init, HistoryOK
<1> QED BY <1>1, <1>2, <1>3, <1>4, <1>5 DEF TypeInv

LEMMA TypeStep == TypeInv /\ [Next]_vars => TypeInv'
<1> SUFFICES ASSUME TypeInv, [Next]_vars PROVE TypeInv'
  OBVIOUS
<1>1. CASE \E n \in Copiers, value \in UserValues : UserCopy(n, value)
  BY <1>1, UserCopyTypes
<1>2. CASE \E n \in Nodes, t \in Types : Watch(n, t)
  BY <1>2, PollTypes, ReadDataTypes DEF Watch
<1>3. CASE \E n \in Nodes : Loop(n)
  BY <1>3, NotifyTypes, IgnoreTypes, ApplyTypes, ReadBackTypes DEF Loop, Receive
<1>4. CASE (\E p \in transit : Lose(p)) \/ Tick \/ UNCHANGED vars
  BY <1>4, EnvironmentTypes
<1> QED BY <1>1, <1>2, <1>3, <1>4 DEF Next

\* Every variable keeps its type: no watcher ever has more than its channel and
\* one notice to wait with, and the marker list never exceeds its capacity.
THEOREM TypeCorrect == Safety => []TypeOK
<1>1. Safety => []TypeInv
  BY InitTypes, TypeStep, PTL DEF Safety
<1> QED BY <1>1, TypeInvSuffices, PTL

-----------------------------------------------------------------------------
(* What is suppressed *)

\* Where the read after a write may fail, what is stored reads as it was sent.
ReadsBackKnown == ReadMayFail => \A n \in Nodes, c \in Contents : ReadsBack[n][c] = c

\* The key under which a message is stored at a node.
Stored(n, m) == <<m.type, ReadsBack[n][m.content]>>

\* Until its read-back a remote write is what the clipboard holds.
StillThere ==
  \A n \in Nodes :
    loop[n] # None => clip[n].val[loop[n].type] = ReadsBack[n][loop[n].content]

MarkersWritten ==
  \A n \in Nodes :
    /\ loop[n] # None => Stored(n, loop[n]) \in written[n]
    /\ \A i \in DOMAIN echoes[n] : echoes[n][i].key \in written[n]

HushedWritten == \A n \in Nodes : \A i \in DOMAIN hushed[n] : hushed[n][i].key \in written[n]

WrittenInv == TypeInv /\ StillThere /\ MarkersWritten /\ HushedWritten

LEMMA InitWritten == Init => WrittenInv
<1> SUFFICES ASSUME Init PROVE WrittenInv
  OBVIOUS
<1>1. TypeInv
  BY InitTypes
<1>2. StillThere /\ MarkersWritten /\ HushedWritten
  BY DEF Init, StillThere, MarkersWritten, HushedWritten
<1> QED BY <1>1, <1>2 DEF WrittenInv

LEMMA StillThereStep ==
  ASSUME ~ Interference, TypeInv, StillThere, [Next]_vars
  PROVE  StillThere'
<1>1. CASE \E n \in Copiers, value \in UserValues : UserCopy(n, value)
  <2>1. PICK n \in Copiers, value \in UserValues : UserCopy(n, value)
    BY <1>1
  <2>2. loop[n] = None /\ loop' = loop
    BY <2>1 DEF UserCopy, nodeVars
  <2>3. \A k \in Nodes : k # n => clip'[k] = clip[k]
    BY <2>1 DEF UserCopy, SetClip, TypeInv, ClipOK
  <2> QED BY <2>2, <2>3 DEF StillThere
<1>2. CASE \E n \in Nodes : Receive(n)
  <2>1. PICK p \in transit : Ignore(p[1], p[2]) \/ Apply(p[1], p[2])
    BY <1>2 DEF Receive
  <2>2. CASE Ignore(p[1], p[2])
    BY <2>2 DEF Ignore, nodeVars, StillThere
  <2>3. CASE Apply(p[1], p[2])
    <3>1. PICK n, m : n = p[1][2] /\ m = p[2] /\ n \in Nodes /\ m \in Messages
      BY <2>3, InTransit DEF Apply, Arrives
    <3>2. /\ loop' = [loop EXCEPT ![n] = m]
          /\ clip' = [clip EXCEPT ![n] =
               [val |-> [t \in Types |-> IF t = m.type THEN ReadsBack[n][m.content] ELSE None],
                by |-> "remote"]]
      BY <2>3, <3>1 DEF Apply, SetClip
    <3>3. m.type \in Types
      BY <3>1 DEF Messages
    <3>4. clip'[n].val[m.type] = ReadsBack[n][m.content] /\ loop'[n] = m
      BY <3>1, <3>2, <3>3 DEF TypeInv, ClipOK, LoopOK
    <3>5. \A k \in Nodes : k # n => clip'[k] = clip[k] /\ loop'[k] = loop[k]
      BY <3>2 DEF TypeInv, ClipOK, LoopOK
    <3> QED BY <3>4, <3>5 DEF StillThere
  <2> QED BY <2>1, <2>2, <2>3
<1>3. CASE \E n \in Nodes, ok \in BOOLEAN : ReadBack(n, ok)
  BY <1>3 DEF ReadBack, StillThere, TypeInv, LoopOK
<1>4. CASE \/ \E n \in Nodes, t \in Types : Watch(n, t) \/ Notify(n, t)
           \/ (\E p \in transit : Lose(p)) \/ Tick \/ UNCHANGED vars
  <2>1. UNCHANGED <<clip, loop>>
    BY <1>4 DEF Watch, Poll, ReadData, Notify, Lose, Tick, nodeVars, vars
  <2> QED BY <2>1 DEF StillThere
<1> QED BY <1>1, <1>2, <1>3, <1>4 DEF Next, Loop

\* Nobody interfering, a read-back expects the very echo of what was written.
LEMMA EchoIDStored ==
  ASSUME ReadsBackKnown, TypeInv, StillThere,
         NEW n \in Nodes, NEW ok \in BOOLEAN, ReadBack(n, ok)
  PROVE  <<loop[n].type, EchoID(n, ok)>> = Stored(n, loop[n])
<1>1. loop[n] \in Messages /\ loop[n] # None /\ (ok \/ ReadMayFail)
  BY DEF ReadBack, TypeInv, LoopOK
<1>2. loop[n].content \in Contents
  BY <1>1 DEF Messages
<1>3. ReadsBack[n][loop[n].content] \in Contents
  BY <1>2, ClipNodeAssumption
<1>4. clip[n].val[loop[n].type] = ReadsBack[n][loop[n].content]
  BY <1>1 DEF StillThere
<1>5. clip[n].val[loop[n].type] # None
  BY <1>3, <1>4, ClipNodeAssumption
<1>6. CASE ok
  BY <1>4, <1>5, <1>6 DEF EchoID, Stored
<1>7. CASE ~ ok
  BY <1>1, <1>2, <1>7 DEF EchoID, Stored, ReadsBackKnown
<1> QED BY <1>6, <1>7

LEMMA NotifyWritten ==
  ASSUME WrittenInv, NEW n \in Nodes, NEW t \in Types, Notify(n, t)
  PROVE  MarkersWritten' /\ HushedWritten'
<1> DEFINE data == Head(notices[n][t])
           key  == <<t, data.content>>
<1>1. loop' = loop /\ written' = written
  BY DEF Notify
<1>2. PICK s \in Seq(Marker) : s = echoes[n]
  BY DEF WrittenInv, TypeInv, LoopOK
<1>3. PICK u : u = EchoRest(s, key, now)
  OBVIOUS
<1>4. \A k \in DOMAIN u : \E i \in DOMAIN s : u[k] = s[i]
  <2>1. now \in Nat
    BY ClipNodeAssumption DEF WrittenInv, TypeInv, NetOK
  <2>2. \A k \in DOMAIN EchoRest(s, key, now) :
          \E i \in DOMAIN s : EchoRest(s, key, now)[k] = s[i]
    BY <2>1, ConsumeKeeps
  <2> QED BY <1>3, <2>2
<1>5. echoes' = [echoes EXCEPT ![n] = u]
  BY <1>2, <1>3 DEF Notify
<1>6. MarkersWritten'
  <2>1. \A i \in DOMAIN s : s[i].key \in written[n]
    BY <1>2 DEF WrittenInv, MarkersWritten
  <2>2. \A k \in DOMAIN u : u[k].key \in written[n]
    BY <1>4, <2>1
  <2>3. echoes'[n] = u /\ \A k \in Nodes : k # n => echoes'[k] = echoes[k]
    BY <1>5 DEF WrittenInv, TypeInv, LoopOK
  <2> QED BY <1>1, <2>2, <2>3 DEF WrittenInv, MarkersWritten, Stored
<1>7. CASE EchoExpected(echoes[n], key, now)
  <2>1. PICK i \in DOMAIN echoes[n] : echoes[n][i].key = key
    BY <1>7 DEF EchoExpected, EchoMatches, LiveEchoes
  <2>2. key \in written[n]
    BY <2>1 DEF WrittenInv, MarkersWritten
  <2>3. PICK h : h = [key |-> key, by |-> data.by]
    OBVIOUS
  <2>4. h.key = key /\ hushed' = [hushed EXCEPT ![n] = Append(hushed[n], h)]
    BY <1>7, <2>3 DEF Notify
  <2>5. PICK q \in Seq(Hush) : q = hushed[n] /\ hushed'[n] = Append(q, h)
    BY <2>4 DEF WrittenInv, TypeInv, HistoryOK
  <2>6. /\ \A k \in DOMAIN q : q[k].key \in written[n]
        /\ \A k \in Nodes : k # n => hushed'[k] = hushed[k]
    BY <2>4, <2>5 DEF WrittenInv, HushedWritten, TypeInv, HistoryOK
  <2>7. \A k \in DOMAIN Append(q, h) : (k \in DOMAIN q /\ Append(q, h)[k] = q[k]) \/ Append(q, h)[k] = h
    OBVIOUS
  <2>8. \A k \in DOMAIN Append(q, h) : Append(q, h)[k].key \in written[n]
    BY <2>2, <2>4, <2>6, <2>7
  <2>9. HushedWritten'
    BY <1>1, <2>5, <2>6, <2>8 DEF WrittenInv, HushedWritten
  <2> QED BY <1>6, <2>9
<1>8. CASE ~ EchoExpected(echoes[n], key, now)
  <2>1. hushed' = hushed
    BY <1>8 DEF Notify
  <2> QED BY <1>1, <1>6, <2>1 DEF WrittenInv, HushedWritten
<1> QED BY <1>7, <1>8

LEMMA ApplyWritten ==
  ASSUME WrittenInv, NEW l, NEW m, Apply(l, m)
  PROVE  MarkersWritten' /\ HushedWritten'
<1>1. PICK n \in Nodes : n = l[2]
  BY InTransit DEF WrittenInv, Apply, Arrives
<1>2. /\ UNCHANGED <<echoes, hushed>>
      /\ loop' = [loop EXCEPT ![n] = m]
      /\ written' = [written EXCEPT ![n] = @ \cup {Stored(n, m)}]
  BY <1>1 DEF Apply, Stored
<1>3. Stored(n, m) \in written'[n] /\ loop'[n] = m
      /\ \A k \in Nodes : written[k] \subseteq written'[k] /\ (k # n => loop'[k] = loop[k])
  BY <1>2 DEF WrittenInv, TypeInv, LoopOK, HistoryOK
<1>4. MarkersWritten'
  BY <1>2, <1>3 DEF WrittenInv, MarkersWritten, Stored
<1>5. HushedWritten'
  BY <1>2, <1>3 DEF WrittenInv, HushedWritten
<1> QED BY <1>4, <1>5

LEMMA ReadBackWritten ==
  ASSUME ReadsBackKnown, WrittenInv, NEW n \in Nodes, NEW ok \in BOOLEAN, ReadBack(n, ok)
  PROVE  MarkersWritten' /\ HushedWritten'
<1>1. PICK e \in Marker : /\ e = [key |-> <<loop[n].type, EchoID(n, ok)>>, expires |-> now + TTL]
                          /\ echoes' = [echoes EXCEPT ![n] = EchoAdd(echoes[n], e)]
                          /\ loop' = [loop EXCEPT ![n] = None] /\ loop[n] # None
  BY ReadBackMarker DEF WrittenInv
<1>2. UNCHANGED <<written, hushed>>
  BY DEF ReadBack, history
<1>3. e.key \in written[n]
  BY <1>1, EchoIDStored DEF WrittenInv, MarkersWritten
<1>4. PICK s \in Seq(Marker) : s = echoes[n] /\ Len(s) <= RingSize
  BY DEF WrittenInv, TypeInv, LoopOK
<1>5. PICK u : u = EchoAdd(s, e)
  OBVIOUS
<1>6. \A k \in DOMAIN u : u[k] = e \/ \E i \in DOMAIN s : u[k] = s[i]
  BY <1>4, <1>5, AddEntries
<1>7. \A k \in DOMAIN u : u[k].key \in written[n]
  BY <1>3, <1>4, <1>6 DEF WrittenInv, MarkersWritten
<1>8. /\ echoes'[n] = u /\ loop'[n] = None
      /\ \A k \in Nodes : k # n => echoes'[k] = echoes[k] /\ loop'[k] = loop[k]
  BY <1>1, <1>4, <1>5 DEF WrittenInv, TypeInv, LoopOK
<1>9. MarkersWritten'
  BY <1>2, <1>7, <1>8 DEF WrittenInv, MarkersWritten, Stored
<1> QED BY <1>2, <1>9 DEF WrittenInv, HushedWritten

LEMMA WrittenStep ==
  ASSUME ~ Interference, ReadsBackKnown, WrittenInv, [Next]_vars
  PROVE  WrittenInv'
<1>1. TypeInv' /\ StillThere'
  BY TypeStep, StillThereStep DEF WrittenInv
<1> SUFFICES MarkersWritten' /\ HushedWritten'
  BY <1>1 DEF WrittenInv
<1>2. CASE \E n \in Nodes, t \in Types : Notify(n, t)
  BY <1>2, NotifyWritten
<1>3. CASE \E p \in transit : Apply(p[1], p[2])
  BY <1>3, ApplyWritten
<1>4. CASE \E n \in Nodes, ok \in BOOLEAN : ReadBack(n, ok)
  BY <1>4, ReadBackWritten
<1>5. CASE \/ \E n \in Copiers, value \in UserValues : UserCopy(n, value)
           \/ \E n \in Nodes, t \in Types : Watch(n, t)
           \/ \E p \in transit : Ignore(p[1], p[2]) \/ Lose(p)
           \/ Tick \/ UNCHANGED vars
  <2>1. UNCHANGED <<loop, echoes, written, hushed>>
    BY <1>5 DEF UserCopy, Watch, Poll, ReadData, Ignore, Lose, Tick, nodeVars, history, vars
  <2> QED BY <2>1 DEF WrittenInv, MarkersWritten, HushedWritten, Stored
<1> QED BY <1>2, <1>3, <1>4, <1>5 DEF Next, Loop, Receive

\* Suppression is content-specific: unless a user copies between a remote write
\* and its read-back, no copy is ever suppressed but one of a content that a
\* remote write left on this clipboard before.
THEOREM UnrelatedCopiesPass ==
  ASSUME ~ Interference, ReadsBackKnown
  PROVE  Safety => []UnrelatedNeverBlocked
<1>1. Safety => []WrittenInv
  <2>1. WrittenInv /\ [Next]_vars => WrittenInv'
    BY WrittenStep
  <2> QED BY <2>1, InitWritten, PTL DEF Safety
<1>2. WrittenInv => UnrelatedNeverBlocked
  BY DEF WrittenInv, HushedWritten, UnrelatedNeverBlocked
<1> QED BY <1>1, <1>2, PTL

-----------------------------------------------------------------------------
(* What is announced *)

\* When a handler adds a marker, the list drops none that is still live.
RoomForMarkers ==
  \A n \in Nodes : loop[n] # None /\ Len(echoes[n]) = RingSize => echoes[n][1].expires <= now

\* No watcher that reads has another change to notice.
Disjoint == \A n \in Nodes : changed[n] \cap reading[n] = {}

MessagesOf(n, key) == {m \in Messages : m.source = n /\ <<m.type, m.content>> = key}
CopiesOf(n, key)   == {c \in Copy : c.node = n /\ c.value[key[1]] = key[2]}
NoticesOf(key)     == {d \in Notice : d.content = key[2]}

\* A watcher is still to bring the clipboard's content under this key.
Unread(n, key) ==
  IF key[1] \in changed[n] \cup reading[n] /\ clip[n].val[key[1]] = key[2] THEN 1 ELSE 0

\* The running handler is still to add a marker of this key.
Awaited(n, key) == IF loop[n] # None /\ Stored(n, loop[n]) = key THEN 1 ELSE 0

AnnouncedCount(n, key) == Count(sent, MessagesOf(n, key))
CopiedCount(n, key)    == Count(copied, CopiesOf(n, key))
NoticeCount(n, key)    == Count(notices[n][key[1]], NoticesOf(key))
MarkerCount(n, key)    == Count(echoes[n], Live(key, now))

\* The numbers that the properties speak of, as counts.
LEMMA Numbers ==
  ASSUME TypeInv, NEW n \in Nodes, NEW key \in Keys
  PROVE  /\ Announced(n, key) = AnnouncedCount(n, key)
         /\ Copied(n, key) = CopiedCount(n, key)
         /\ Pending(n, key) = NoticeCount(n, key) + Unread(n, key)
         /\ Markers(n, key) = MarkerCount(n, key) + Awaited(n, key)
<1>1. Announced(n, key) = AnnouncedCount(n, key)
  <2>1. PICK s \in Seq(Messages) : s = sent
    BY DEF TypeInv, HistoryOK
  <2>2. {i \in DOMAIN s : s[i].source = n /\ <<s[i].type, s[i].content>> = key}
          = {i \in DOMAIN s : s[i] \in MessagesOf(n, key)}
    BY DEF MessagesOf
  <2> QED BY <2>1, <2>2 DEF Announced, AnnouncedCount, Count
<1>2. Copied(n, key) = CopiedCount(n, key)
  <2>1. PICK s \in Seq(Copy) : s = copied
    BY DEF TypeInv, HistoryOK
  <2>2. {i \in DOMAIN s : s[i].node = n /\ s[i].value[key[1]] = key[2]}
          = {i \in DOMAIN s : s[i] \in CopiesOf(n, key)}
    BY DEF CopiesOf
  <2> QED BY <2>1, <2>2 DEF Copied, CopiedCount, Count
<1>3. Pending(n, key) = NoticeCount(n, key) + Unread(n, key)
  <2>1. PICK s \in Seq(Notice) : s = notices[n][key[1]]
    BY DEF TypeInv, WatchOK, Keys
  <2>2. {i \in DOMAIN s : s[i].content = key[2]} = {i \in DOMAIN s : s[i] \in NoticesOf(key)}
    BY DEF NoticesOf
  <2> QED BY <2>1, <2>2 DEF Pending, NoticeCount, Unread, Count
<1>4. Markers(n, key) = MarkerCount(n, key) + Awaited(n, key)
  <2>1. PICK s \in Seq(Marker) : s = echoes[n]
    BY DEF TypeInv, LoopOK
  <2>2. {i \in DOMAIN s : s[i].key = key /\ s[i].expires > now}
          = {i \in DOMAIN s : s[i] \in Live(key, now)}
    BY DEF Live
  <2> QED BY <2>1, <2>2 DEF Markers, MarkerCount, Awaited, Stored, Count
<1> QED BY <1>1, <1>2, <1>3, <1>4

\* All of them are natural numbers.
LEMMA CountsNatural ==
  ASSUME TypeInv, NEW n \in Nodes, NEW key \in Keys
  PROVE  /\ AnnouncedCount(n, key) \in Nat /\ CopiedCount(n, key) \in Nat
         /\ NoticeCount(n, key) \in Nat /\ MarkerCount(n, key) \in Nat
         /\ Unread(n, key) \in {0, 1} /\ Awaited(n, key) \in {0, 1}
<1>1. AnnouncedCount(n, key) \in Nat
  <2>1. sent \in Seq(Messages)
    BY DEF TypeInv, HistoryOK
  <2> QED BY <2>1, CountType DEF AnnouncedCount
<1>2. CopiedCount(n, key) \in Nat
  <2>1. copied \in Seq(Copy)
    BY DEF TypeInv, HistoryOK
  <2> QED BY <2>1, CountType DEF CopiedCount
<1>3. NoticeCount(n, key) \in Nat
  <2>1. notices[n][key[1]] \in Seq(Notice)
    BY DEF TypeInv, WatchOK, Keys
  <2> QED BY <2>1, CountType DEF NoticeCount
<1>4. MarkerCount(n, key) \in Nat
  <2>1. echoes[n] \in Seq(Marker)
    BY DEF TypeInv, LoopOK
  <2> QED BY <2>1, CountType DEF MarkerCount
<1> QED BY <1>1, <1>2, <1>3, <1>4 DEF Unread, Awaited

\* Announcements never outnumber the copies, nor, with the notices to come, the
\* copies and the markers.
Covered ==
  \A n \in Nodes, key \in Keys :
    /\ AnnouncedCount(n, key) <= CopiedCount(n, key)
    /\ AnnouncedCount(n, key) + NoticeCount(n, key) + Unread(n, key)
         <= CopiedCount(n, key) + MarkerCount(n, key) + Awaited(n, key)

CoverInv == TypeInv /\ StillThere /\ Disjoint /\ Covered

LEMMA InitCovered == Init => CoverInv
<1> SUFFICES ASSUME Init PROVE CoverInv
  OBVIOUS
<1>1. TypeInv
  BY InitTypes
<1>2. StillThere /\ Disjoint
  BY DEF Init, StillThere, Disjoint
<1>3. ASSUME NEW n \in Nodes, NEW key \in Keys
      PROVE  AnnouncedCount(n, key) = 0 /\ NoticeCount(n, key) = 0 /\ Unread(n, key) = 0
  <2>2. sent = << >> /\ notices[n][key[1]] = << >>
    BY DEF Init, Keys
  <2>3. AnnouncedCount(n, key) = 0
    <3>1. Count(<< >>, MessagesOf(n, key)) = 0
      BY CountEmpty
    <3> QED BY <2>2, <3>1 DEF AnnouncedCount
  <2>4. NoticeCount(n, key) = 0
    <3>1. Count(<< >>, NoticesOf(key)) = 0
      BY CountEmpty
    <3> QED BY <2>2, <3>1 DEF NoticeCount
  <2>5. Unread(n, key) = 0
    BY DEF Init, Unread
  <2> QED BY <2>3, <2>4, <2>5
<1>4. Covered
  BY <1>1, <1>3, CountsNatural DEF Covered
<1> QED BY <1>1, <1>2, <1>4 DEF CoverInv

LEMMA DisjointStep ==
  ASSUME AtomicPoll, TypeInv, Disjoint, [Next]_vars
  PROVE  Disjoint'
<1>1. ASSUME NEW n \in Nodes, NEW value, NEW by, SetClip(n, value, by), reading' = reading
      PROVE  Disjoint'
  BY <1>1 DEF SetClip, Disjoint, TypeInv, WatchOK
<1>2. CASE \E n \in Copiers, value \in UserValues : UserCopy(n, value)
  BY <1>1, <1>2, ClipNodeAssumption DEF UserCopy
<1>3. CASE \E p \in transit : Apply(p[1], p[2])
  <2>1. PICK p \in transit : Apply(p[1], p[2])
    BY <1>3
  <2>2. PICK l, m : l[2] \in Nodes /\ Apply(l, m)
    <3>1. <<p[1], p[2]>> \in transit
      BY <2>1 DEF Apply, Arrives
    <3> QED BY <2>1, <3>1, InTransit
  <2> QED BY <1>1, <2>2 DEF Apply
<1>4. CASE \E n \in Nodes, t \in Types : Poll(n, t)
  BY <1>4 DEF Poll, Disjoint, TypeInv, WatchOK
<1>5. CASE \E n \in Nodes, t \in Types : ReadData(n, t)
  BY <1>5 DEF ReadData, Disjoint, TypeInv, WatchOK
<1>6. CASE \/ \E n \in Nodes, t \in Types : Notify(n, t)
           \/ \E n \in Nodes, ok \in BOOLEAN : ReadBack(n, ok)
           \/ \E p \in transit : Ignore(p[1], p[2]) \/ Lose(p)
           \/ Tick \/ UNCHANGED vars
  <2>1. UNCHANGED <<changed, reading>>
    BY <1>6 DEF Notify, ReadBack, Ignore, Lose, Tick, watchVars, vars
  <2> QED BY <2>1 DEF Disjoint
<1> QED BY <1>2, <1>3, <1>4, <1>5, <1>6 DEF Next, Watch, Loop, Receive

\* A step that changes none of the numbers.
LEMMA NothingCounts ==
  ASSUME CoverInv, UNCHANGED <<clip, notices, loop, echoes, now, copied, sent>>,
         \A n \in Nodes : changed'[n] \cup reading'[n] = changed[n] \cup reading[n]
  PROVE  Covered'
<1>1. ASSUME NEW n \in Nodes, NEW key \in Keys
      PROVE  /\ AnnouncedCount(n, key)' = AnnouncedCount(n, key)
             /\ CopiedCount(n, key)' = CopiedCount(n, key)
             /\ NoticeCount(n, key)' = NoticeCount(n, key)
             /\ MarkerCount(n, key)' = MarkerCount(n, key)
             /\ Unread(n, key)' = Unread(n, key)
             /\ Awaited(n, key)' = Awaited(n, key)
  BY DEF AnnouncedCount, CopiedCount, NoticeCount, MarkerCount, Unread, Awaited, Stored
<1> QED BY <1>1 DEF CoverInv, Covered

LEMMA UserCopyCovered ==
  ASSUME AtomicPoll, CoverInv, NEW n \in Copiers, NEW value \in UserValues, UserCopy(n, value)
  PROVE  Covered'
<1>1. n \in Nodes /\ value \in [Types -> Contents \cup {None}]
  BY ClipNodeAssumption
<1>2. /\ UNCHANGED <<reading, notices, loop, echoes, now, sent>>
      /\ clip' = [clip EXCEPT ![n] = [val |-> value, by |-> "user"]]
      /\ changed' = [changed EXCEPT ![n] = Types]
  BY DEF UserCopy, SetClip, nodeVars
<1>3. PICK c \in Copy : c.node = n /\ c.value = value /\ copied' = Append(copied, c)
  <2>1. PICK q : q = Quiet /\ q \in BOOLEAN
    BY Zenon DEF Quiet
  <2>2. [node |-> n, value |-> value, calm |-> q] \in Copy
    BY <1>1, <2>1 DEF Copy
  <2>3. copied' = Append(copied, [node |-> n, value |-> value, calm |-> q])
    BY <2>1 DEF UserCopy
  <2> QED BY <2>2, <2>3
<1> SUFFICES ASSUME NEW m \in Nodes, NEW key \in Keys
             PROVE  /\ AnnouncedCount(m, key)' <= CopiedCount(m, key)'
                    /\ AnnouncedCount(m, key)' + NoticeCount(m, key)' + Unread(m, key)'
                         <= CopiedCount(m, key)' + MarkerCount(m, key)' + Awaited(m, key)'
  BY DEF Covered
<1>4. /\ AnnouncedCount(m, key)' = AnnouncedCount(m, key)
      /\ NoticeCount(m, key)' = NoticeCount(m, key)
      /\ MarkerCount(m, key)' = MarkerCount(m, key)
      /\ Awaited(m, key)' = Awaited(m, key)
  BY <1>2 DEF AnnouncedCount, NoticeCount, MarkerCount, Awaited, Stored
<1>5. CopiedCount(m, key)' = CopiedCount(m, key)
        + IF m = n /\ value[key[1]] = key[2] THEN 1 ELSE 0
  <2>1. copied \in Seq(Copy)
    BY DEF CoverInv, TypeInv, HistoryOK
  <2>2. Count(Append(copied, c), CopiesOf(m, key))
          = Count(copied, CopiesOf(m, key)) + IF c \in CopiesOf(m, key) THEN 1 ELSE 0
    BY <1>3, <2>1, CountAppend
  <2>3. c \in CopiesOf(m, key) <=> m = n /\ value[key[1]] = key[2]
    BY <1>3 DEF CopiesOf
  <2> QED BY <1>3, <2>2, <2>3 DEF CopiedCount
<1>6. m # n => Unread(m, key)' = Unread(m, key)
  BY <1>2 DEF Unread, CoverInv, TypeInv, ClipOK, WatchOK
<1>7. m = n => Unread(m, key)' = IF value[key[1]] = key[2] THEN 1 ELSE 0
  <2>1. key[1] \in Types
    BY DEF Keys
  <2> QED BY <1>1, <1>2, <2>1 DEF Unread, CoverInv, TypeInv, ClipOK, WatchOK
<1>8. /\ AnnouncedCount(m, key) <= CopiedCount(m, key)
      /\ AnnouncedCount(m, key) + NoticeCount(m, key) + Unread(m, key)
           <= CopiedCount(m, key) + MarkerCount(m, key) + Awaited(m, key)
  BY DEF CoverInv, Covered
<1>9. /\ AnnouncedCount(m, key) \in Nat /\ CopiedCount(m, key) \in Nat
      /\ NoticeCount(m, key) \in Nat /\ MarkerCount(m, key) \in Nat
      /\ Unread(m, key) \in {0, 1} /\ Awaited(m, key) \in {0, 1}
  BY CountsNatural DEF CoverInv
<1> QED BY <1>4, <1>5, <1>6, <1>7, <1>8, <1>9

LEMMA ReadDataCovered ==
  ASSUME CoverInv, NEW n \in Nodes, NEW t \in Types, ReadData(n, t)
  PROVE  Covered'
<1> DEFINE content == clip[n].val[t]
<1>1. /\ UNCHANGED <<clip, changed, loop, echoes, now, copied, sent>>
      /\ reading' = [reading EXCEPT ![n] = @ \ {t}] /\ t \in reading[n]
  BY DEF ReadData, nodeVars, history
<1>2. t \notin changed[n]
  BY <1>1 DEF CoverInv, Disjoint
<1>3. ASSUME NEW m \in Nodes, NEW key \in Keys
      PROVE  NoticeCount(m, key)' + Unread(m, key)' = NoticeCount(m, key) + Unread(m, key)
  <2>1. CASE m = n /\ key[1] = t
    <3>1. PICK s \in Seq(Notice) : s = notices[n][t]
      BY DEF CoverInv, TypeInv, WatchOK
    <3>2. Unread(m, key)' = 0
      BY <1>1, <1>2, <2>1 DEF Unread, CoverInv, TypeInv, WatchOK
    <3>3. Unread(m, key) = IF content = key[2] THEN 1 ELSE 0
      BY <1>1, <2>1 DEF Unread
    <3>4. NoticeCount(m, key) = Count(s, NoticesOf(key)) /\ NoticeCount(m, key) \in Nat
      BY <2>1, <3>1, CountsNatural DEF NoticeCount, CoverInv
    <3>5. NoticeCount(m, key)' = Count(s, NoticesOf(key)) + IF content = key[2] THEN 1 ELSE 0
      <4>1. CASE content = None
        <5>1. notices' = notices /\ content # key[2]
          BY <4>1, ClipNodeAssumption DEF ReadData, Keys
        <5> QED BY <2>1, <3>1, <3>4, <5>1 DEF NoticeCount
      <4>2. CASE content # None
        <5>1. PICK e \in Notice : e = [content |-> content, by |-> clip[n].by]
          BY <4>2, ReadNotice DEF CoverInv
        <5>2. notices'[n][t] = Append(s, e)
          BY <3>1, <4>2, <5>1 DEF ReadData, CoverInv, TypeInv, WatchOK
        <5>3. Count(Append(s, e), NoticesOf(key))
                = Count(s, NoticesOf(key)) + IF e \in NoticesOf(key) THEN 1 ELSE 0
          BY CountAppend
        <5>4. e \in NoticesOf(key) <=> content = key[2]
          BY <5>1 DEF NoticesOf
        <5> QED BY <2>1, <5>2, <5>3, <5>4 DEF NoticeCount
      <4> QED BY <4>1, <4>2
    <3> QED BY <3>2, <3>3, <3>4, <3>5
  <2>2. CASE ~ (m = n /\ key[1] = t)
    <3>1. notices'[m][key[1]] = notices[m][key[1]]
      <4>1. notices' = notices \/ \E q : notices' = [notices EXCEPT ![n][t] = q]
        BY DEF ReadData
      <4>2. key[1] \in Types
        BY DEF Keys
      <4> QED BY <2>2, <4>1, <4>2 DEF CoverInv, TypeInv, WatchOK
    <3>2. key[1] \in reading'[m] <=> key[1] \in reading[m]
      BY <1>1, <2>2 DEF CoverInv, TypeInv, WatchOK
    <3> QED BY <1>1, <3>1, <3>2 DEF NoticeCount, Unread
  <2> QED BY <2>1, <2>2
<1>4. ASSUME NEW m \in Nodes, NEW key \in Keys
      PROVE  /\ AnnouncedCount(m, key)' = AnnouncedCount(m, key)
             /\ CopiedCount(m, key)' = CopiedCount(m, key)
             /\ MarkerCount(m, key)' = MarkerCount(m, key)
             /\ Awaited(m, key)' = Awaited(m, key)
  BY <1>1 DEF AnnouncedCount, CopiedCount, MarkerCount, Awaited, Stored
<1>5. ASSUME NEW m \in Nodes, NEW key \in Keys
      PROVE  NoticeCount(m, key)' \in Nat /\ Unread(m, key)' \in {0, 1}
  <2>1. notices'[m][key[1]] \in Seq(Notice)
    BY ReadDataTypes DEF CoverInv, TypeInv, WatchOK, Keys
  <2> QED BY <2>1, CountType DEF NoticeCount, Unread
<1> QED BY <1>3, <1>4, <1>5, CountsNatural DEF CoverInv, Covered

LEMMA NotifyCovered ==
  ASSUME CoverInv, NEW n \in Nodes, NEW t \in Types, Notify(n, t)
  PROVE  Covered'
<1>1. PICK s : s = notices[n][t] /\ s \in Seq(Notice) /\ s # << >>
  BY DEF Notify, CoverInv, TypeInv, WatchOK
<1>2. PICK data \in Notice : data = Head(s)
  BY <1>1
<1>3. PICK key \in Keys : key = <<t, data.content>>
  BY <1>2 DEF Keys, Notice
<1>4. PICK old \in Seq(Marker) : old = echoes[n]
  BY DEF CoverInv, TypeInv, LoopOK
<1>5. PICK expected \in BOOLEAN : expected = EchoExpected(old, key, now)
  BY DEF EchoExpected
<1>6. /\ UNCHANGED <<clip, changed, reading, loop, now, copied>> /\ loop[n] = None
      /\ notices' = [notices EXCEPT ![n][t] = Tail(s)]
      /\ echoes' = [echoes EXCEPT ![n] = EchoRest(old, key, now)]
      /\ expected => sent' = sent
      /\ ~ expected => \E m \in Messages : /\ m.source = n /\ <<m.type, m.content>> = key
                                           /\ sent' = Append(sent, m)
  <2>2. ~ expected => Send(n, NewMessage(n, t, data.content))
    BY <1>1, <1>2, <1>3, <1>4, <1>5 DEF Notify
  <2>3. expected => sent' = sent
    BY <1>1, <1>2, <1>3, <1>4, <1>5 DEF Notify
  <2>4. Send(n, NewMessage(n, t, data.content))
          => \E m \in Messages : /\ m.source = n /\ <<m.type, m.content>> = key
                                 /\ sent' = Append(sent, m)
    <3>1. SUFFICES ASSUME Send(n, NewMessage(n, t, data.content))
                   PROVE  \E m \in Messages : /\ m.source = n /\ <<m.type, m.content>> = key
                                              /\ sent' = Append(sent, m)
      OBVIOUS
    <3>2. lastTS[n] \in 0 .. MaxTS /\ lastTS[n] < MaxTS /\ MaxTS \in Nat
      BY <3>1, ClipNodeAssumption DEF CoverInv, TypeInv, NetOK, Send
    <3>3. lastTS[n] + 1 \in 1 .. MaxTS /\ data.content \in Contents
      BY <3>2 DEF Notice
    <3>4. PICK m \in Messages : m = NewMessage(n, t, data.content)
      <4>1. NewMessage(n, t, data.content) \in Messages
        BY <3>3, Zenon DEF Messages, NewMessage
      <4> QED BY <4>1
    <3>5. m.source = n /\ <<m.type, m.content>> = key
      BY <1>3, <3>4 DEF NewMessage
    <3> QED BY <3>1, <3>4, <3>5 DEF Send
  <2>5. /\ UNCHANGED <<clip, changed, reading, loop, now, copied>> /\ loop[n] = None
        /\ notices' = [notices EXCEPT ![n][t] = Tail(s)]
    BY <1>1 DEF Notify
  <2>6. echoes' = [echoes EXCEPT ![n] = EchoRest(old, key, now)]
    BY <1>1, <1>2, <1>3, <1>4 DEF Notify
  <2> QED BY <2>2, <2>3, <2>4, <2>5, <2>6
<1>7. now \in Nat
  BY ClipNodeAssumption DEF CoverInv, TypeInv, NetOK
<1>8. TypeInv'
  BY NotifyTypes DEF CoverInv
<1> SUFFICES ASSUME NEW m \in Nodes, NEW other \in Keys
             PROVE  /\ AnnouncedCount(m, other)' <= CopiedCount(m, other)'
                    /\ AnnouncedCount(m, other)' + NoticeCount(m, other)' + Unread(m, other)'
                         <= CopiedCount(m, other)' + MarkerCount(m, other)' + Awaited(m, other)'
  BY DEF Covered
<1>9. /\ CopiedCount(m, other)' = CopiedCount(m, other)
      /\ Unread(m, other)' = Unread(m, other)
      /\ Awaited(m, other)' = Awaited(m, other)
  BY <1>6 DEF CopiedCount, Unread, Awaited, Stored
<1>10. /\ AnnouncedCount(m, other) <= CopiedCount(m, other)
       /\ AnnouncedCount(m, other) + NoticeCount(m, other) + Unread(m, other)
            <= CopiedCount(m, other) + MarkerCount(m, other) + Awaited(m, other)
  BY DEF CoverInv, Covered
<1>11. /\ AnnouncedCount(m, other) \in Nat /\ CopiedCount(m, other) \in Nat
       /\ NoticeCount(m, other) \in Nat /\ MarkerCount(m, other) \in Nat
       /\ Unread(m, other) \in {0, 1} /\ Awaited(m, other) \in {0, 1}
  BY CountsNatural DEF CoverInv
<1>12. AnnouncedCount(m, other)' = AnnouncedCount(m, other)
         + IF m = n /\ other = key /\ ~ expected THEN 1 ELSE 0
  <2>1. CASE expected
    BY <1>6, <1>11, <2>1 DEF AnnouncedCount
  <2>2. CASE ~ expected
    <3>1. PICK msg \in Messages : /\ msg.source = n /\ <<msg.type, msg.content>> = key
                                  /\ sent' = Append(sent, msg)
      BY <1>6, <2>2
    <3>2. sent \in Seq(Messages)
      BY DEF CoverInv, TypeInv, HistoryOK
    <3>3. Count(Append(sent, msg), MessagesOf(m, other))
            = Count(sent, MessagesOf(m, other)) + IF msg \in MessagesOf(m, other) THEN 1 ELSE 0
      BY <3>2, CountAppend
    <3>4. msg \in MessagesOf(m, other) <=> m = n /\ other = key
      BY <3>1 DEF MessagesOf
    <3> QED BY <2>2, <3>1, <3>3, <3>4 DEF AnnouncedCount
  <2> QED BY <2>1, <2>2
<1>13. CASE m # n
  <2>1. notices'[m] = notices[m] /\ echoes'[m] = echoes[m]
    BY <1>6, <1>13 DEF CoverInv, TypeInv, WatchOK, LoopOK
  <2>2. NoticeCount(m, other)' = NoticeCount(m, other) /\ MarkerCount(m, other)' = MarkerCount(m, other)
    BY <1>6, <2>1 DEF NoticeCount, MarkerCount
  <2> QED BY <1>9, <1>10, <1>11, <1>12, <1>13, <2>2
<1>14. CASE m = n
  <2>1. NoticeCount(m, other) = NoticeCount(m, other)' + IF other = key THEN 1 ELSE 0
    <3>1. CASE other[1] = t
      <4>1. notices'[n][t] = Tail(s)
        BY <1>6 DEF CoverInv, TypeInv, WatchOK
      <4>2. Count(s, NoticesOf(other))
              = Count(Tail(s), NoticesOf(other)) + IF Head(s) \in NoticesOf(other) THEN 1 ELSE 0
        BY <1>1, CountTail
      <4>3. data \in NoticesOf(other) <=> other = key
        BY <1>3, <3>1 DEF NoticesOf, Keys
      <4> QED BY <1>1, <1>2, <1>14, <3>1, <4>1, <4>2, <4>3 DEF NoticeCount
    <3>2. CASE other[1] # t
      <4>1. notices'[n][other[1]] = notices[n][other[1]] /\ other # key
        BY <1>3, <1>6, <3>2 DEF CoverInv, TypeInv, WatchOK, Keys
      <4> QED BY <1>11, <1>14, <4>1 DEF NoticeCount
    <3> QED BY <3>1, <3>2
  <2>2. MarkerCount(m, other)' = MarkerCount(m, other) - IF other = key /\ expected THEN 1 ELSE 0
    <3>1. echoes'[n] = EchoRest(old, key, now)
      BY <1>6 DEF CoverInv, TypeInv, LoopOK
    <3>2. Count(EchoRest(old, key, now), Live(other, now))
            = Count(old, Live(other, now)) - IF other = key /\ expected THEN 1 ELSE 0
      BY <1>5, <1>7, ConsumeCounts
    <3> QED BY <1>4, <1>6, <1>14, <3>1, <3>2 DEF MarkerCount
  <2>3. other = key /\ ~ expected => MarkerCount(m, other) = 0 /\ Awaited(m, other) = 0
    <3>1. EchoExpected(old, key, now) <=> Count(old, Live(key, now)) > 0
      BY <1>7, ConsumeCounts
    <3>2. other = key /\ ~ expected => MarkerCount(m, other) = 0
      BY <1>4, <1>5, <1>11, <1>14, <3>1 DEF MarkerCount
    <3> QED BY <1>6, <1>14, <3>2 DEF Awaited
  <2>4. NoticeCount(m, other)' \in Nat
    <3>1. notices'[m][other[1]] \in Seq(Notice)
      BY <1>8 DEF TypeInv, WatchOK, Keys
    <3> QED BY <3>1, CountType DEF NoticeCount
  <2> QED BY <1>9, <1>10, <1>11, <1>12, <1>14, <2>1, <2>2, <2>3, <2>4, SMTT(20)
<1> QED BY <1>13, <1>14

LEMMA ApplyCovered ==
  ASSUME AtomicPoll, CoverInv, NEW l, NEW msg, Apply(l, msg)
  PROVE  Covered'
<1>1. PICK n \in Nodes : n = l[2]
  BY InTransit DEF CoverInv, Apply, Arrives
<1>2. msg \in Messages
  BY InTransit DEF CoverInv, Apply, Arrives
<1>3. /\ UNCHANGED <<reading, notices, echoes, now, copied, sent>>
      /\ loop[n] = None /\ loop' = [loop EXCEPT ![n] = msg]
      /\ changed' = [changed EXCEPT ![n] = Types]
      /\ clip' = [clip EXCEPT ![n] =
           [val |-> [t \in Types |-> IF t = msg.type THEN ReadsBack[n][msg.content] ELSE None],
            by |-> "remote"]]
  BY <1>1 DEF Apply, SetClip
<1> SUFFICES ASSUME NEW m \in Nodes, NEW key \in Keys
             PROVE  /\ AnnouncedCount(m, key)' <= CopiedCount(m, key)'
                    /\ AnnouncedCount(m, key)' + NoticeCount(m, key)' + Unread(m, key)'
                         <= CopiedCount(m, key)' + MarkerCount(m, key)' + Awaited(m, key)'
  BY DEF Covered
<1>4. /\ AnnouncedCount(m, key)' = AnnouncedCount(m, key)
      /\ CopiedCount(m, key)' = CopiedCount(m, key)
      /\ NoticeCount(m, key)' = NoticeCount(m, key)
      /\ MarkerCount(m, key)' = MarkerCount(m, key)
  BY <1>3 DEF AnnouncedCount, CopiedCount, NoticeCount, MarkerCount
<1>5. m # n => Unread(m, key)' = Unread(m, key) /\ Awaited(m, key)' = Awaited(m, key)
  BY <1>3 DEF Unread, Awaited, Stored, CoverInv, TypeInv, ClipOK, WatchOK, LoopOK
<1>6. m = n => Unread(m, key)' <= Awaited(m, key)'
  <2>1. SUFFICES ASSUME m = n PROVE Unread(n, key)' <= Awaited(n, key)'
    OBVIOUS
  <2>2. key[1] \in Types /\ key[2] \in Contents /\ key = <<key[1], key[2]>>
    BY DEF Keys
  <2>3. loop'[n] = msg /\ msg # None
    BY <1>2, <1>3, ClipNodeAssumption DEF CoverInv, TypeInv, LoopOK
  <2>4. clip'[n].val[key[1]] = IF key[1] = msg.type THEN ReadsBack[n][msg.content] ELSE None
    BY <1>3, <2>2 DEF CoverInv, TypeInv, ClipOK
  <2>5. clip'[n].val[key[1]] = key[2] => <<msg.type, ReadsBack[n][msg.content]>> = key
    BY <2>2, <2>4, ClipNodeAssumption
  <2>6. Unread(n, key)' = 1 \/ Unread(n, key)' = 0
    BY DEF Unread
  <2>7. Unread(n, key)' = 1 => clip'[n].val[key[1]] = key[2]
    BY DEF Unread
  <2>8. <<msg.type, ReadsBack[n][msg.content]>> = key => Awaited(n, key)' = 1
    BY <2>3 DEF Awaited, Stored
  <2>9. Awaited(n, key)' \in {0, 1}
    BY DEF Awaited
  <2> QED BY <2>5, <2>6, <2>7, <2>8, <2>9
<1>7. m = n => Awaited(m, key) = 0
  BY <1>3 DEF Awaited
<1>8. /\ AnnouncedCount(m, key) <= CopiedCount(m, key)
      /\ AnnouncedCount(m, key) + NoticeCount(m, key) + Unread(m, key)
           <= CopiedCount(m, key) + MarkerCount(m, key) + Awaited(m, key)
  BY DEF CoverInv, Covered
<1>9. /\ AnnouncedCount(m, key) \in Nat /\ CopiedCount(m, key) \in Nat
      /\ NoticeCount(m, key) \in Nat /\ MarkerCount(m, key) \in Nat
      /\ Unread(m, key) \in {0, 1} /\ Awaited(m, key) \in {0, 1}
      /\ Unread(m, key)' \in {0, 1} /\ Awaited(m, key)' \in {0, 1}
  BY CountsNatural DEF CoverInv, Unread, Awaited
<1> QED BY <1>4, <1>5, <1>6, <1>7, <1>8, <1>9

LEMMA ReadBackCovered ==
  ASSUME ReadsBackKnown, RoomForMarkers, CoverInv,
         NEW n \in Nodes, NEW ok \in BOOLEAN, ReadBack(n, ok)
  PROVE  Covered'
<1>1. PICK e \in Marker : /\ e = [key |-> <<loop[n].type, EchoID(n, ok)>>, expires |-> now + TTL]
                          /\ echoes' = [echoes EXCEPT ![n] = EchoAdd(echoes[n], e)]
                          /\ loop' = [loop EXCEPT ![n] = None] /\ loop[n] # None
  BY ReadBackMarker DEF CoverInv
<1>2. e.key = Stored(n, loop[n])
  BY <1>1, EchoIDStored DEF CoverInv
<1>3. UNCHANGED <<clip, changed, reading, notices, now, copied, sent>>
  BY DEF ReadBack, watchVars, history
<1>4. now \in Nat /\ e.expires > now
  <2>1. now \in Nat /\ TTL \in Nat \ {0}
    BY ClipNodeAssumption DEF CoverInv, TypeInv, NetOK
  <2> QED BY <1>1, <2>1
<1>5. PICK s \in Seq(Marker) : s = echoes[n]
  BY DEF CoverInv, TypeInv, LoopOK
<1>6. Len(s) = RingSize => s[1].expires <= now
  BY <1>1, <1>5 DEF RoomForMarkers
<1>7. ASSUME NEW m \in Nodes, NEW key \in Keys
      PROVE  MarkerCount(m, key)' + Awaited(m, key)' = MarkerCount(m, key) + Awaited(m, key)
  <2>1. CASE m = n
    <3>1. echoes'[n] = EchoAdd(s, e) /\ loop'[n] = None
      BY <1>1, <1>5 DEF CoverInv, TypeInv, LoopOK
    <3>2. Count(EchoAdd(s, e), Live(key, now))
            = Count(s, Live(key, now)) + IF e \in Live(key, now) THEN 1 ELSE 0
      BY <1>4, <1>6, AddCounts
    <3>3. e \in Live(key, now) <=> Stored(n, loop[n]) = key
      BY <1>2, <1>4 DEF Live
    <3>4. Awaited(m, key)' = 0 /\ Awaited(m, key) = IF Stored(n, loop[n]) = key THEN 1 ELSE 0
      BY <1>1, <2>1, <3>1 DEF Awaited
    <3>5. Count(s, Live(key, now)) \in Nat
      BY CountType
    <3> QED BY <1>3, <1>5, <2>1, <3>1, <3>2, <3>3, <3>4, <3>5 DEF MarkerCount
  <2>2. CASE m # n
    <3>1. echoes'[m] = echoes[m] /\ loop'[m] = loop[m]
      BY <1>1, <2>2 DEF CoverInv, TypeInv, LoopOK
    <3> QED BY <1>3, <3>1 DEF MarkerCount, Awaited, Stored
  <2> QED BY <2>1, <2>2
<1>8. ASSUME NEW m \in Nodes, NEW key \in Keys
      PROVE  /\ AnnouncedCount(m, key)' = AnnouncedCount(m, key)
             /\ CopiedCount(m, key)' = CopiedCount(m, key)
             /\ NoticeCount(m, key)' = NoticeCount(m, key)
             /\ Unread(m, key)' = Unread(m, key)
  BY <1>3 DEF AnnouncedCount, CopiedCount, NoticeCount, Unread
<1>9. ASSUME NEW m \in Nodes, NEW key \in Keys
      PROVE  MarkerCount(m, key)' \in Nat /\ Awaited(m, key)' \in {0, 1}
  <2>1. echoes'[m] \in Seq(Marker)
    BY ReadBackTypes DEF CoverInv, TypeInv, LoopOK
  <2> QED BY <2>1, CountType DEF MarkerCount, Awaited
<1>10. ASSUME NEW m \in Nodes, NEW key \in Keys
       PROVE  /\ AnnouncedCount(m, key)' <= CopiedCount(m, key)'
              /\ AnnouncedCount(m, key)' + NoticeCount(m, key)' + Unread(m, key)'
                   <= CopiedCount(m, key)' + MarkerCount(m, key)' + Awaited(m, key)'
  <2>1. /\ AnnouncedCount(m, key) \in Nat /\ CopiedCount(m, key) \in Nat
        /\ NoticeCount(m, key) \in Nat /\ MarkerCount(m, key) \in Nat
        /\ Unread(m, key) \in {0, 1} /\ Awaited(m, key) \in {0, 1}
    BY CountsNatural DEF CoverInv
  <2>2. /\ AnnouncedCount(m, key) <= CopiedCount(m, key)
        /\ AnnouncedCount(m, key) + NoticeCount(m, key) + Unread(m, key)
             <= CopiedCount(m, key) + MarkerCount(m, key) + Awaited(m, key)
    BY DEF CoverInv, Covered
  <2> QED BY <1>7, <1>8, <1>9, <2>1, <2>2, SMTT(20)
<1> QED BY <1>10 DEF Covered

\* Time only passes when nothing is pending, so that it can take no marker away
\* that is still needed.
LEMMA TickCovered ==
  ASSUME Timely, CoverInv, Tick
  PROVE  Covered'
<1> SUFFICES ASSUME NEW n \in Nodes, NEW key \in Keys
             PROVE  /\ AnnouncedCount(n, key)' <= CopiedCount(n, key)'
                    /\ AnnouncedCount(n, key)' + NoticeCount(n, key)' + Unread(n, key)'
                         <= CopiedCount(n, key)' + MarkerCount(n, key)' + Awaited(n, key)'
  BY DEF Covered
<1>1. UNCHANGED <<clip, changed, reading, notices, loop, echoes, copied, sent>> /\ Resting(n)
  BY DEF Tick, watchVars, nodeVars, history
<1>2. /\ AnnouncedCount(n, key)' = AnnouncedCount(n, key)
      /\ CopiedCount(n, key)' = CopiedCount(n, key)
      /\ NoticeCount(n, key)' = NoticeCount(n, key)
      /\ Unread(n, key)' = Unread(n, key)
      /\ Awaited(n, key)' = Awaited(n, key)
  BY <1>1 DEF AnnouncedCount, CopiedCount, NoticeCount, Unread, Awaited, Stored
<1>3. NoticeCount(n, key) = 0 /\ Unread(n, key) = 0
  <2>1. notices[n][key[1]] = << >> /\ changed[n] = {} /\ reading[n] = {}
    BY <1>1 DEF Resting, Keys
  <2> QED BY <2>1, CountEmpty DEF NoticeCount, Unread
<1>4. MarkerCount(n, key)' \in Nat
  <2>1. echoes'[n] \in Seq(Marker)
    BY <1>1 DEF CoverInv, TypeInv, LoopOK
  <2> QED BY <2>1, CountType DEF MarkerCount
<1>5. /\ AnnouncedCount(n, key) \in Nat /\ CopiedCount(n, key) \in Nat
      /\ Awaited(n, key) \in {0, 1} /\ AnnouncedCount(n, key) <= CopiedCount(n, key)
  BY CountsNatural DEF CoverInv, Covered
<1> QED BY <1>2, <1>3, <1>4, <1>5

LEMMA CoverStep ==
  ASSUME AtomicPoll, ~ Interference, Timely, ReadsBackKnown,
         RoomForMarkers, CoverInv, [Next]_vars
  PROVE  CoverInv'
<1>1. TypeInv' /\ StillThere' /\ Disjoint'
  BY TypeStep, StillThereStep, DisjointStep DEF CoverInv
<1> SUFFICES Covered'
  BY <1>1 DEF CoverInv
<1>2. CASE \E n \in Copiers, value \in UserValues : UserCopy(n, value)
  BY <1>2, UserCopyCovered
<1>3. CASE \E n \in Nodes, t \in Types : ReadData(n, t)
  BY <1>3, ReadDataCovered
<1>4. CASE \E n \in Nodes, t \in Types : Notify(n, t)
  BY <1>4, NotifyCovered
<1>5. CASE \E p \in transit : Apply(p[1], p[2])
  BY <1>5, ApplyCovered
<1>6. CASE \E n \in Nodes, ok \in BOOLEAN : ReadBack(n, ok)
  BY <1>6, ReadBackCovered
<1>7. CASE Tick
  BY <1>7, TickCovered
<1>8. CASE \/ \E n \in Nodes, t \in Types : Poll(n, t)
           \/ \E p \in transit : Ignore(p[1], p[2]) \/ Lose(p)
           \/ UNCHANGED vars
  <2>1. UNCHANGED <<clip, notices, loop, echoes, now, copied, sent>>
    BY <1>8 DEF Poll, Ignore, Lose, watchVars, nodeVars, history, vars
  <2>2. \A n \in Nodes : changed'[n] \cup reading'[n] = changed[n] \cup reading[n]
    <3>1. CASE \E n \in Nodes, t \in Types : Poll(n, t)
      BY <3>1 DEF Poll, CoverInv, TypeInv, WatchOK
    <3>2. CASE UNCHANGED <<changed, reading>>
      BY <3>2
    <3> QED BY <1>8, <3>1, <3>2 DEF Ignore, Lose, watchVars, vars
  <2> QED BY <2>1, <2>2, NothingCounts
<1> QED BY <1>2, <1>3, <1>4, <1>5, <1>6, <1>7, <1>8 DEF Next, Watch, Loop, Receive

LEMMA CoverSuffices == CoverInv => EchoesCovered /\ NoPhantomCopies
<1> SUFFICES ASSUME CoverInv, NEW n \in Nodes, NEW key \in Keys
             PROVE  /\ Announced(n, key) + Pending(n, key) <= Copied(n, key) + Markers(n, key)
                    /\ Announced(n, key) <= Copied(n, key)
  BY DEF EchoesCovered, NoPhantomCopies
<1>1. /\ Announced(n, key) = AnnouncedCount(n, key) /\ Copied(n, key) = CopiedCount(n, key)
      /\ Pending(n, key) = NoticeCount(n, key) + Unread(n, key)
      /\ Markers(n, key) = MarkerCount(n, key) + Awaited(n, key)
  BY Numbers DEF CoverInv
<1>2. /\ AnnouncedCount(n, key) \in Nat /\ CopiedCount(n, key) \in Nat
      /\ NoticeCount(n, key) \in Nat /\ MarkerCount(n, key) \in Nat
      /\ Unread(n, key) \in {0, 1} /\ Awaited(n, key) \in {0, 1}
  BY CountsNatural DEF CoverInv
<1>3. /\ AnnouncedCount(n, key) <= CopiedCount(n, key)
      /\ AnnouncedCount(n, key) + NoticeCount(n, key) + Unread(n, key)
           <= CopiedCount(n, key) + MarkerCount(n, key) + Awaited(n, key)
  BY DEF CoverInv, Covered
<1> QED BY <1>1, <1>2, <1>3

LEMMA CoverInvariant ==
  ASSUME AtomicPoll, ~ Interference, Timely, ReadsBackKnown
  PROVE  Safety /\ []RoomForMarkers => []CoverInv
<1>1. RoomForMarkers /\ CoverInv /\ [Next]_vars => CoverInv'
  BY CoverStep
<1> QED BY <1>1, InitCovered, PTL DEF Safety

\* The announcements of a content and the notices to come never outnumber the
\* user's copies and the markers, as long as the watchers and the event loop keep
\* up with the clock and the marker list drops no live marker.
THEOREM EchoesAreCovered ==
  ASSUME AtomicPoll, ~ Interference, Timely, ReadsBackKnown
  PROVE  Safety /\ []RoomForMarkers => []EchoesCovered
  BY CoverInvariant, CoverSuffices, PTL

\* Nothing comes back as a copy of this node's user: a node announces a content
\* at most as often as a user copied it there, for any number of nodes, links and
\* copies, and whatever the network loses or reorders.
THEOREM NoPhantoms ==
  ASSUME AtomicPoll, ~ Interference, Timely, ReadsBackKnown
  PROVE  Safety /\ []RoomForMarkers => []NoPhantomCopies
  BY CoverInvariant, CoverSuffices, PTL
-----------------------------------------------------------------------------
(* When the list has room: the user's copies bound the announcements, and the *)
(* announcements bound what a node expects                                    *)

LinksTo(n)  == {l \in Links : l[2] = n}
OnTheWay(n) == {p \in transit : p[1][2] = n}
Busy(n)     == IF loop[n] # None THEN 1 ELSE 0

\* What a node has received or will still receive never exceeds one message for
\* every announcement on every link that leads to it.
NeverMore ==
  \A n \in Nodes :
    Len(echoes[n]) + Busy(n) + Cardinality(OnTheWay(n)) <= Cardinality(LinksTo(n)) * Len(sent)

ArrivalInv == TypeInv /\ IsFiniteSet(transit) /\ NeverMore

\* One announcement more.
LEMMA OneMore == \A k, s \in Nat : k * (s + 1) = k * s + k /\ k * s \in Nat
<1>1. \A k, s \in Nat : k * (s + 1) = k * s + k
  OBVIOUS
<1>2. \A k, s \in Nat : k * s \in Nat
  OBVIOUS
<1> QED BY <1>1, <1>2

\* The terms are numbers.
LEMMA ArrivalNumbers ==
  ASSUME IsFiniteSet(Links), TypeInv, IsFiniteSet(transit), NEW n \in Nodes
  PROVE  /\ Len(echoes[n]) \in Nat /\ Busy(n) \in {0, 1} /\ Len(sent) \in Nat
         /\ IsFiniteSet(OnTheWay(n)) /\ Cardinality(OnTheWay(n)) \in Nat
         /\ IsFiniteSet(LinksTo(n)) /\ Cardinality(LinksTo(n)) \in Nat
<1>1. echoes[n] \in Seq(Marker) /\ sent \in Seq(Messages)
  BY DEF TypeInv, LoopOK, HistoryOK
<1>2. OnTheWay(n) \in SUBSET transit /\ LinksTo(n) \in SUBSET Links
  BY DEF OnTheWay, LinksTo
<1>3. IsFiniteSet(OnTheWay(n)) /\ IsFiniteSet(LinksTo(n))
  BY <1>2, FS_Subset
<1> QED BY <1>1, <1>3, FS_CardinalityType DEF Busy

\* A step that announces nothing and does not let the left side grow.
LEMMA NoMoreArrives ==
  ASSUME IsFiniteSet(Links), ArrivalInv, TypeInv', NEW n \in Nodes,
         sent' = sent, transit' \subseteq transit,
         Len(echoes'[n]) + Busy(n)' <= Len(echoes[n]) + Busy(n)
  PROVE  Len(echoes'[n]) + Busy(n)' + Cardinality(OnTheWay(n)')
           <= Cardinality(LinksTo(n)) * Len(sent')
<1>1. OnTheWay(n)' \in SUBSET OnTheWay(n)
  BY DEF OnTheWay
<1>2. IsFiniteSet(OnTheWay(n)) /\ Cardinality(OnTheWay(n)) \in Nat
      /\ Len(echoes[n]) \in Nat /\ Busy(n) \in {0, 1}
  BY ArrivalNumbers DEF ArrivalInv
<1>3. IsFiniteSet(OnTheWay(n)') /\ Cardinality(OnTheWay(n)') <= Cardinality(OnTheWay(n))
  BY <1>1, <1>2, FS_Subset
<1>4. Cardinality(OnTheWay(n)') \in Nat
  BY <1>3, FS_CardinalityType
<1>5. Len(echoes'[n]) \in Nat /\ Busy(n)' \in {0, 1}
  <2>1. echoes'[n] \in Seq(Marker)
    BY DEF TypeInv, LoopOK
  <2> QED BY <2>1 DEF Busy
<1>6. PICK k \in Int : k = Cardinality(LinksTo(n)) * Len(sent)
  <2>1. Cardinality(LinksTo(n)) \in Nat /\ Len(sent) \in Nat
    BY ArrivalNumbers DEF ArrivalInv
  <2> QED BY <2>1
<1>7. Len(echoes[n]) + Busy(n) + Cardinality(OnTheWay(n)) <= k
  BY <1>6 DEF ArrivalInv, NeverMore
<1>8. Len(echoes'[n]) + Busy(n)' + Cardinality(OnTheWay(n)') <= k
  <2>1. PICK a, c \in Nat, b \in Int :
          a = Len(echoes[n]) /\ b = Busy(n) /\ c = Cardinality(OnTheWay(n))
    BY <1>2
  <2>2. PICK aa, cc \in Nat, bb \in Int :
          aa = Len(echoes'[n]) /\ bb = Busy(n)' /\ cc = Cardinality(OnTheWay(n)')
    BY <1>4, <1>5
  <2>3. a + b + c <= k /\ cc <= c /\ aa + bb <= a + b
    BY <1>3, <1>7, <2>1, <2>2
  <2>4. k \in Int /\ a \in Nat /\ c \in Nat /\ b \in Int /\ aa \in Nat /\ cc \in Nat /\ bb \in Int
    BY <1>6, <2>1, <2>2
  <2>5. aa + bb + cc <= k
    BY <2>3, <2>4
  <2> QED BY <2>2, <2>5
<1> QED BY <1>6, <1>8

\* A notice takes at most one marker; an announcement puts one message on each link.
LEMMA NotifyArrives ==
  ASSUME IsFiniteSet(Links), ArrivalInv, TypeInv', NEW n \in Nodes, NEW t \in Types,
         Notify(n, t)
  PROVE  IsFiniteSet(transit') /\ NeverMore'
<1> DEFINE key == <<t, Head(notices[n][t]).content>>
<1>1. PICK u : u = EchoRest(echoes[n], key, now)
  OBVIOUS
<1>2. u \in Seq(Marker) /\ Len(u) <= Len(echoes[n])
  <2>1. now \in Nat /\ echoes[n] \in Seq(Marker)
    BY ClipNodeAssumption DEF ArrivalInv, TypeInv, NetOK, LoopOK
  <2> QED BY <1>1, <2>1, ConsumeCounts
<1>3. echoes' = [echoes EXCEPT ![n] = u] /\ loop' = loop
  BY <1>1 DEF Notify
<1>4. \A m \in Nodes : Len(echoes'[m]) <= Len(echoes[m]) /\ Busy(m)' = Busy(m)
  <2> SUFFICES ASSUME NEW m \in Nodes PROVE Len(echoes'[m]) <= Len(echoes[m]) /\ Busy(m)' = Busy(m)
    OBVIOUS
  <2>1. Len(echoes[m]) \in Nat
    BY ArrivalNumbers DEF ArrivalInv
  <2>2. echoes'[m] = IF m = n THEN u ELSE echoes[m]
    BY <1>3 DEF ArrivalInv, TypeInv, LoopOK
  <2> QED BY <1>2, <1>3, <2>1, <2>2 DEF Busy
<1>5. CASE UNCHANGED <<transit, sent>>
  <2>1. ASSUME NEW m \in Nodes
        PROVE  Len(echoes'[m]) + Busy(m)' + Cardinality(OnTheWay(m)')
                 <= Cardinality(LinksTo(m)) * Len(sent')
    <3>1. Len(echoes'[m]) + Busy(m)' <= Len(echoes[m]) + Busy(m)
      <4>1. Len(echoes'[m]) \in Nat /\ Len(echoes[m]) \in Nat /\ Busy(m) \in {0, 1}
        <5>1. echoes'[m] \in Seq(Marker)
          BY DEF TypeInv, LoopOK
        <5> QED BY <5>1, ArrivalNumbers DEF ArrivalInv
      <4> QED BY <1>4, <4>1
    <3> QED BY <1>5, <3>1, NoMoreArrives
  <2> QED BY <1>5, <2>1 DEF ArrivalInv, NeverMore, LinksTo
<1>6. CASE ~ UNCHANGED <<transit, sent>>
  <2> DEFINE msg == NewMessage(n, t, Head(notices[n][t]).content)
             new == {l \in Links : l[1] = n}
  <2>1. Send(n, msg)
    BY <1>6 DEF Notify
  <2>2. transit' = transit \cup {<<l, msg>> : l \in new} /\ sent' = Append(sent, msg)
    BY <2>1 DEF Send
  <2>3. PICK x : x = msg
    OBVIOUS
  <2>4. {<<l, msg>> : l \in new} = new \X {x}
    BY <2>3
  <2>5. IsFiniteSet(transit')
    <3>1. IsFiniteSet(new) /\ IsFiniteSet({x})
      BY FS_Subset, FS_Singleton
    <3>2. IsFiniteSet(new \X {x})
      BY <3>1, FS_Product
    <3> QED BY <2>2, <2>4, <3>2, FS_Union DEF ArrivalInv
  <2>6. Len(sent') = Len(sent) + 1
    <3>1. sent \in Seq(Messages)
      BY DEF ArrivalInv, TypeInv, HistoryOK
    <3> QED BY <2>2, <3>1
  <2>7. ASSUME NEW m \in Nodes
        PROVE  Len(echoes'[m]) + Busy(m)' + Cardinality(OnTheWay(m)')
                 <= Cardinality(LinksTo(m)) * Len(sent')
    <3>1. OnTheWay(m)' \in SUBSET (OnTheWay(m) \cup (LinksTo(m) \X {x}))
      BY <2>2, <2>4 DEF OnTheWay, LinksTo
    <3>2. PICK A, B : A = OnTheWay(m) /\ B = LinksTo(m) \X {x}
      OBVIOUS
    <3>3. IsFiniteSet(A) /\ Cardinality(A) \in Nat /\ IsFiniteSet(LinksTo(m))
          /\ Cardinality(LinksTo(m)) \in Nat /\ Len(sent) \in Nat
          /\ Len(echoes[m]) \in Nat /\ Busy(m) \in {0, 1}
      BY <3>2, ArrivalNumbers DEF ArrivalInv
    <3>4. IsFiniteSet(B) /\ Cardinality(B) = Cardinality(LinksTo(m))
      <4>1. IsFiniteSet({x}) /\ Cardinality({x}) = 1
        BY FS_Singleton
      <4>2. IsFiniteSet(B) /\ Cardinality(B) = Cardinality(LinksTo(m)) * Cardinality({x})
        BY <3>2, <3>3, <4>1, FS_Product
      <4> QED BY <3>3, <4>1, <4>2
    <3>5. IsFiniteSet(A \cup B) /\ Cardinality(A \cup B) <= Cardinality(A) + Cardinality(B)
      <4>1. IsFiniteSet(A \cup B)
            /\ Cardinality(A \cup B) = Cardinality(A) + Cardinality(B) - Cardinality(A \cap B)
        BY <3>3, <3>4, FS_Union
      <4>2. Cardinality(A \cap B) \in Nat
        BY <3>3, FS_Intersection, FS_CardinalityType
      <4> QED BY <3>3, <3>4, <4>1, <4>2
    <3>6. Cardinality(OnTheWay(m)') <= Cardinality(A \cup B)
          /\ Cardinality(OnTheWay(m)') \in Nat /\ Cardinality(A \cup B) \in Nat
      <4>1. OnTheWay(m)' \in SUBSET (A \cup B)
        BY <3>1, <3>2
      <4> QED BY <3>5, <4>1, FS_Subset, FS_CardinalityType
    <3>7. PICK k \in Nat, s \in Nat : k = Cardinality(LinksTo(m)) /\ s = Len(sent)
      BY <3>3
    <3>8. k * (s + 1) = k * s + k /\ k * s \in Nat
      BY <3>7, OneMore
    <3>9. Len(echoes[m]) + Busy(m) + Cardinality(A) <= k * s
      BY <3>2, <3>7 DEF ArrivalInv, NeverMore
    <3>10. Len(echoes'[m]) \in Nat
      <4>1. echoes'[m] \in Seq(Marker)
        BY DEF TypeInv, LoopOK
      <4> QED BY <4>1
    <3>11. Len(echoes'[m]) <= Len(echoes[m]) /\ Busy(m)' = Busy(m)
      BY <1>4
    <3>12. Len(echoes'[m]) + Busy(m)' + Cardinality(OnTheWay(m)') <= k * s + k
      <4>1. PICK z \in Nat : z = k * s
        BY <3>8
      <4>2. Len(echoes[m]) + Busy(m) + Cardinality(A) <= z
        BY <3>9, <4>1
      <4>3. Cardinality(OnTheWay(m)') <= Cardinality(A) + k
        BY <3>3, <3>4, <3>5, <3>6, <3>7
      <4>4. Len(echoes'[m]) + Busy(m)' + Cardinality(OnTheWay(m)') <= z + k
        <5>1. PICK a \in Nat, b \in Int, c \in Nat :
                a = Len(echoes[m]) /\ b = Busy(m) /\ c = Cardinality(A)
          BY <3>3
        <5>2. PICK aa \in Nat, cc \in Nat :
                aa = Len(echoes'[m]) /\ cc = Cardinality(OnTheWay(m)')
          BY <3>6, <3>10
        <5>3. aa <= a /\ Busy(m)' = b
          BY <3>11, <5>1, <5>2
        <5>4. a + b + c <= z /\ cc <= c + k
          BY <4>2, <4>3, <5>1, <5>2
        <5>5. z \in Nat /\ k \in Nat /\ b \in Int
          BY <3>7, <4>1, <5>1
        <5>6. aa + b + cc <= z + k
          BY <5>3, <5>4, <5>5
        <5> QED BY <5>2, <5>3, <5>6
      <4> QED BY <4>1, <4>4
    <3> QED BY <2>6, <3>7, <3>8, <3>12
  <2> QED BY <2>5, <2>7 DEF NeverMore, LinksTo
<1> QED BY <1>5, <1>6

\* A message that arrives leaves its link and keeps the handler busy.
LEMMA ApplyArrives ==
  ASSUME IsFiniteSet(Links), ArrivalInv, TypeInv', NEW l, NEW x, Apply(l, x)
  PROVE  IsFiniteSet(transit') /\ NeverMore'
<1>1. /\ <<l, x>> \in transit /\ transit' = transit \ {<<l, x>>}
      /\ UNCHANGED <<echoes, sent>> /\ loop[l[2]] = None
      /\ loop' = [loop EXCEPT ![l[2]] = x]
  BY DEF Apply, Arrives
<1>2. IsFiniteSet(transit')
  BY <1>1, FS_RemoveElement DEF ArrivalInv
<1>3. ASSUME NEW m \in Nodes
      PROVE  Len(echoes'[m]) + Busy(m)' + Cardinality(OnTheWay(m)')
               <= Cardinality(LinksTo(m)) * Len(sent')
  <2>1. Len(echoes[m]) \in Nat /\ IsFiniteSet(OnTheWay(m)) /\ Cardinality(OnTheWay(m)) \in Nat
        /\ Busy(m) \in {0, 1} /\ Cardinality(LinksTo(m)) \in Nat /\ Len(sent) \in Nat
    BY ArrivalNumbers DEF ArrivalInv
  <2>2. CASE m = l[2]
    <3>1. <<l, x>> \in OnTheWay(m) /\ OnTheWay(m)' = OnTheWay(m) \ {<<l, x>>}
      BY <1>1, <2>2 DEF OnTheWay
    <3>2. Cardinality(OnTheWay(m)') = Cardinality(OnTheWay(m)) - 1
      <4>1. PICK A : A = OnTheWay(m)
        OBVIOUS
      <4>2. IsFiniteSet(A) /\ <<l, x>> \in A /\ OnTheWay(m)' = A \ {<<l, x>>}
        BY <2>1, <3>1, <4>1
      <4>3. Cardinality(A \ {<<l, x>>}) = Cardinality(A) - 1
        BY <4>2, FS_RemoveElement
      <4> QED BY <4>1, <4>2, <4>3
    <3>3. Busy(m) = 0 /\ Busy(m)' \in {0, 1}
      BY <1>1, <2>2 DEF Busy
    <3>4. PICK k \in Int : k = Cardinality(LinksTo(m)) * Len(sent)
      BY <2>1
    <3>5. Len(echoes[m]) + Busy(m) + Cardinality(OnTheWay(m)) <= k
      BY <3>4 DEF ArrivalInv, NeverMore
    <3> QED BY <1>1, <2>1, <3>2, <3>3, <3>4, <3>5
  <2>3. CASE m # l[2]
    <3>1. Busy(m)' = Busy(m)
      <4>1. loop'[m] = loop[m]
        BY <1>1, <2>3 DEF ArrivalInv, TypeInv, LoopOK
      <4> QED BY <4>1 DEF Busy
    <3>2. Len(echoes'[m]) + Busy(m)' <= Len(echoes[m]) + Busy(m)
      BY <1>1, <2>1, <3>1
    <3> QED BY <1>1, <3>2, NoMoreArrives
  <2> QED BY <2>2, <2>3
<1> QED BY <1>2, <1>3 DEF NeverMore, LinksTo

\* The read-back turns the busy handler into a marker.
LEMMA ReadBackArrives ==
  ASSUME IsFiniteSet(Links), ArrivalInv, TypeInv', NEW n \in Nodes, NEW ok \in BOOLEAN,
         ReadBack(n, ok)
  PROVE  IsFiniteSet(transit') /\ NeverMore'
<1>1. UNCHANGED <<transit, sent>>
  BY DEF ReadBack, history
<1>2. PICK e \in Marker : echoes' = [echoes EXCEPT ![n] = EchoAdd(echoes[n], e)]
  BY ReadBackMarker DEF ArrivalInv
<1>3. loop[n] # None /\ loop' = [loop EXCEPT ![n] = None]
  BY ReadBackMarker DEF ArrivalInv
<1>4. PICK s \in Seq(Marker) : s = echoes[n]
  BY DEF ArrivalInv, TypeInv, LoopOK
<1>5. PICK u : u = EchoAdd(s, e)
  OBVIOUS
<1>6. Len(u) <= Len(s) + 1 /\ Len(u) \in Nat
  <2>1. Len(s) \in Nat /\ RingSize \in Nat \ {0}
    BY <1>4, RingSizeAssumption
  <2>2. CASE Len(s) = RingSize
    <3>1. s # << >>
      BY <2>1, <2>2
    <3>2. PICK v : v = Tail(s)
      OBVIOUS
    <3>3. v \in Seq(Marker) /\ Len(v) = Len(s) - 1
      BY <3>1, <3>2
    <3>4. Len(Append(v, e)) = Len(v) + 1
      BY <3>3
    <3> QED BY <1>5, <2>1, <2>2, <3>2, <3>3, <3>4 DEF EchoAdd
  <2>3. CASE Len(s) # RingSize
    <3>1. Len(Append(s, e)) = Len(s) + 1
      OBVIOUS
    <3> QED BY <1>5, <2>1, <2>3, <3>1 DEF EchoAdd
  <2> QED BY <2>2, <2>3
<1>7. ASSUME NEW m \in Nodes
      PROVE  Len(echoes'[m]) + Busy(m)' <= Len(echoes[m]) + Busy(m)
  <2>1. Len(echoes[m]) \in Nat /\ Busy(m) \in {0, 1}
    BY ArrivalNumbers DEF ArrivalInv
  <2>2. CASE m = n
    <3>1. echoes'[m] = u /\ Busy(m) = 1 /\ Busy(m)' = 0
      BY <1>2, <1>3, <1>4, <1>5, <2>2 DEF ArrivalInv, TypeInv, LoopOK, Busy
    <3> QED BY <1>4, <1>6, <2>1, <2>2, <3>1
  <2>3. CASE m # n
    <3>1. echoes'[m] = echoes[m] /\ loop'[m] = loop[m]
      BY <1>2, <1>3, <2>3 DEF ArrivalInv, TypeInv, LoopOK
    <3>2. Busy(m)' = Busy(m)
      BY <3>1 DEF Busy
    <3> QED BY <2>1, <3>1, <3>2
  <2> QED BY <2>2, <2>3
<1>8. \A m \in Nodes : Len(echoes'[m]) + Busy(m)' + Cardinality(OnTheWay(m)')
                         <= Cardinality(LinksTo(m)) * Len(sent')
  BY <1>1, <1>7, NoMoreArrives
<1> QED BY <1>1, <1>8 DEF ArrivalInv, NeverMore, LinksTo

LEMMA ArrivalStep ==
  ASSUME IsFiniteSet(Links), ArrivalInv, [Next]_vars
  PROVE  ArrivalInv'
<1>1. TypeInv'
  BY TypeStep DEF ArrivalInv
<1> SUFFICES IsFiniteSet(transit') /\ NeverMore'
  BY <1>1 DEF ArrivalInv
<1>2. CASE \E n \in Nodes, t \in Types : Notify(n, t)
  BY <1>1, <1>2, NotifyArrives
<1>3. CASE \E p \in transit : Apply(p[1], p[2])
  BY <1>1, <1>3, ApplyArrives
<1>4. CASE \E n \in Nodes, ok \in BOOLEAN : ReadBack(n, ok)
  BY <1>1, <1>4, ReadBackArrives
<1>5. CASE \/ \E n \in Copiers, value \in UserValues : UserCopy(n, value)
           \/ \E n \in Nodes, t \in Types : Watch(n, t)
           \/ \E p \in transit : Ignore(p[1], p[2]) \/ Lose(p)
           \/ Tick \/ UNCHANGED vars
  <2>1. UNCHANGED <<loop, echoes, sent>> /\ transit' \in SUBSET transit
    BY <1>5 DEF UserCopy, Watch, Poll, ReadData, Ignore, Arrives, Lose, Tick,
                watchVars, nodeVars, history, vars
  <2>2. IsFiniteSet(transit')
    BY <2>1, FS_Subset DEF ArrivalInv
  <2>3. \A n \in Nodes : Len(echoes'[n]) + Busy(n)' <= Len(echoes[n]) + Busy(n)
    <3> SUFFICES ASSUME NEW n \in Nodes
                 PROVE  Len(echoes'[n]) + Busy(n)' <= Len(echoes[n]) + Busy(n)
      OBVIOUS
    <3>1. Len(echoes[n]) \in Nat /\ Busy(n) \in {0, 1}
      BY ArrivalNumbers DEF ArrivalInv
    <3>2. Busy(n)' = Busy(n)
      BY <2>1 DEF Busy
    <3> QED BY <2>1, <3>1, <3>2
  <2>4. \A n \in Nodes : Len(echoes'[n]) + Busy(n)' + Cardinality(OnTheWay(n)')
                           <= Cardinality(LinksTo(n)) * Len(sent')
    BY <1>1, <2>1, <2>3, NoMoreArrives
  <2> QED BY <2>2, <2>4 DEF NeverMore, LinksTo
<1> QED BY <1>2, <1>3, <1>4, <1>5 DEF Next, Loop, Receive

LEMMA InitArrival == ASSUME IsFiniteSet(Links), Init PROVE ArrivalInv
<1>1. TypeInv
  BY InitTypes
<1>2. IsFiniteSet(transit)
  BY FS_EmptySet DEF Init
<1>3. ASSUME NEW n \in Nodes
      PROVE  Len(echoes[n]) + Busy(n) + Cardinality(OnTheWay(n)) <= Cardinality(LinksTo(n)) * Len(sent)
  <2>1. Len(echoes[n]) = 0 /\ Busy(n) = 0 /\ Len(sent) = 0
    BY DEF Init, Busy
  <2>2. OnTheWay(n) = {}
    BY DEF Init, OnTheWay
  <2>3. Cardinality(LinksTo(n)) \in Nat
    BY <1>1, <1>2, ArrivalNumbers
  <2> QED BY <2>1, <2>2, <2>3, FS_EmptySet
<1> QED BY <1>1, <1>2, <1>3 DEF ArrivalInv, NeverMore

\* The contents that users copied, by copy and type.
CopiedValues == {c \in (DOMAIN copied) \X Types : copied[c[1]].value[c[2]] # None}

\* So little is copied that a list has a place for all that can arrive.
FewCopies ==
  \A n \in Nodes : Cardinality(LinksTo(n)) * Cardinality(CopiedValues) <= RingSize

\* A smaller set fits into a larger one.
LEMMA FitsInto ==
  ASSUME NEW S, NEW T, IsFiniteSet(S), IsFiniteSet(T), Cardinality(S) <= Cardinality(T)
  PROVE  \E f \in [S -> T] : \A a, b \in S : f[a] = f[b] => a = b
<1>1. PICK k, l \in Nat : k = Cardinality(S) /\ l = Cardinality(T)
  BY FS_CardinalityType
<1>2. ExistsBijection(1 .. k, S) /\ ExistsBijection(1 .. l, T)
  BY <1>1, FS_CardinalityType
<1>3. ExistsBijection(S, 1 .. k)
  BY <1>2, Fun_ExistsBijSymmetric
<1>4. PICK g : g \in Bijection(S, 1 .. k)
  BY <1>3, Fun_ExistsBij
<1>5. PICK h : h \in Bijection(1 .. l, T)
  BY <1>2, Fun_ExistsBij
<1>6. g \in [S -> 1 .. k] /\ \A a, b \in S : g[a] = g[b] => a = b
  BY <1>4, Fun_BijectionProperties, Fun_InjectionProperties
<1>7. h \in [1 .. l -> T] /\ \A a, b \in 1 .. l : h[a] = h[b] => a = b
  BY <1>5, Fun_BijectionProperties, Fun_InjectionProperties
<1>8. \A a \in S : g[a] \in 1 .. l
  BY <1>1, <1>6
<1>9. PICK f : f = [a \in S |-> h[g[a]]]
  OBVIOUS
<1>10. f \in [S -> T]
  BY <1>7, <1>8, <1>9
<1>11. \A a, b \in S : f[a] = f[b] => a = b
  BY <1>6, <1>7, <1>8, <1>9
<1> QED BY <1>10, <1>11

\* The announcements of a node and key, and the copies they may stand for.
EventsOf(n, key) ==
  {i \in DOMAIN sent : sent[i].source = n /\ <<sent[i].type, sent[i].content>> = key}
SourcesOf(n, key) ==
  {i \in DOMAIN copied : copied[i].node = n /\ copied[i].value[key[1]] = key[2]}

IsMatching(f, n, key) ==
  /\ f \in [EventsOf(n, key) -> SourcesOf(n, key)]
  /\ \A i, j \in EventsOf(n, key) : f[i] = f[j] => i = j

Matching(n, key) == CHOOSE f : IsMatching(f, n, key)

LEMMA MatchingExists ==
  ASSUME CoverInv, NEW n \in Nodes, NEW key \in Keys
  PROVE  IsMatching(Matching(n, key), n, key)
<1>1. Announced(n, key) <= Copied(n, key)
  BY CoverSuffices DEF NoPhantomCopies
<1>2. sent \in Seq(Messages) /\ copied \in Seq(Copy)
  BY DEF CoverInv, TypeInv, HistoryOK
<1>3. PICK S, T : S = EventsOf(n, key) /\ T = SourcesOf(n, key)
  OBVIOUS
<1>4. S \in SUBSET (DOMAIN sent) /\ T \in SUBSET (DOMAIN copied)
  BY <1>3 DEF EventsOf, SourcesOf
<1>5. IsFiniteSet(S) /\ IsFiniteSet(T)
  BY <1>2, <1>4, DomainsFinite
<1>6. Cardinality(S) <= Cardinality(T)
  BY <1>1, <1>3 DEF Announced, Copied, EventsOf, SourcesOf
<1>7. \E f \in [S -> T] : \A a, b \in S : f[a] = f[b] => a = b
  BY <1>5, <1>6, FitsInto
<1>8. \E f : IsMatching(f, n, key)
  BY <1>3, <1>7 DEF IsMatching
<1> QED BY <1>8 DEF Matching

\* Every announcement has a copied content of its own.
LEMMA EventsWereCopied ==
  ASSUME IsFiniteSet(Types), CoverInv
  PROVE  /\ Len(sent) \in Nat /\ Cardinality(CopiedValues) \in Nat
         /\ Len(sent) <= Cardinality(CopiedValues)
<1>1. sent \in Seq(Messages) /\ copied \in Seq(Copy)
  BY DEF CoverInv, TypeInv, HistoryOK
<1>2. IsFiniteSet(CopiedValues) /\ Cardinality(CopiedValues) \in Nat
  <2>1. IsFiniteSet(DOMAIN copied)
    BY <1>1, DomainsFinite
  <2>2. IsFiniteSet((DOMAIN copied) \X Types)
    BY <2>1, FS_Product
  <2>3. CopiedValues \in SUBSET ((DOMAIN copied) \X Types)
    BY DEF CopiedValues
  <2> QED BY <2>2, <2>3, FS_Subset, FS_CardinalityType
<1> DEFINE key(i) == <<sent[i].type, sent[i].content>>
           own(i) == Matching(sent[i].source, key(i))[i]
<1>3. ASSUME NEW i \in DOMAIN sent
      PROVE  /\ sent[i].source \in Nodes /\ key(i) \in Keys /\ sent[i].content \in Contents
             /\ i \in EventsOf(sent[i].source, key(i))
             /\ own(i) \in SourcesOf(sent[i].source, key(i))
  <2>1. sent[i] \in Messages
    BY <1>1
  <2>2. sent[i].source \in Nodes /\ key(i) \in Keys /\ sent[i].content \in Contents
    BY <2>1 DEF Messages, Keys
  <2>3. i \in EventsOf(sent[i].source, key(i))
    BY DEF EventsOf
  <2>4. PICK n \in Nodes, k \in Keys : n = sent[i].source /\ k = key(i)
    BY <2>2
  <2>5. IsMatching(Matching(n, k), n, k)
    BY MatchingExists
  <2>6. Matching(n, k)[i] \in SourcesOf(n, k)
    BY <2>3, <2>4, <2>5 DEF IsMatching
  <2> QED BY <2>2, <2>3, <2>4, <2>6
<1>4. \A i \in DOMAIN sent : <<own(i), sent[i].type>> \in CopiedValues
  <2> SUFFICES ASSUME NEW i \in DOMAIN sent PROVE <<own(i), sent[i].type>> \in CopiedValues
    OBVIOUS
  <2>1. own(i) \in DOMAIN copied /\ copied[own(i)].value[sent[i].type] = sent[i].content
    BY <1>3 DEF SourcesOf
  <2>2. sent[i].content # None /\ sent[i].type \in Types
    BY <1>3, ClipNodeAssumption DEF Keys
  <2> HIDE DEF own
  <2> QED BY <2>1, <2>2 DEF CopiedValues
<1>5. ASSUME NEW i \in DOMAIN sent, NEW j \in DOMAIN sent,
             own(i) = own(j), sent[i].type = sent[j].type
      PROVE  i = j
  <2>1. /\ copied[own(i)].node = sent[i].source /\ copied[own(j)].node = sent[j].source
        /\ copied[own(i)].value[sent[i].type] = sent[i].content
        /\ copied[own(j)].value[sent[j].type] = sent[j].content
    BY <1>3 DEF SourcesOf
  <2>2. sent[i].source = sent[j].source /\ key(i) = key(j)
    <3> HIDE DEF own
    <3> QED BY <1>5, <2>1
  <2>3. PICK n \in Nodes, k \in Keys : n = sent[i].source /\ k = key(i)
    BY <1>3
  <2>4. IsMatching(Matching(n, k), n, k) /\ i \in EventsOf(n, k) /\ j \in EventsOf(n, k)
    BY <1>3, <2>2, <2>3, MatchingExists
  <2>5. Matching(n, k)[i] = Matching(n, k)[j]
    BY <1>5, <2>2, <2>3
  <2> QED BY <2>4, <2>5 DEF IsMatching
<1>6. PICK F : F = [i \in DOMAIN sent |-> <<own(i), sent[i].type>>]
  OBVIOUS
<1>7. F \in Injection(DOMAIN sent, CopiedValues)
  <2>1. F \in [DOMAIN sent -> CopiedValues]
    BY <1>4, <1>6
  <2>2. \A i, j \in DOMAIN sent : F[i] = F[j] => i = j
    <3> HIDE DEF own
    <3> QED BY <1>5, <1>6
  <2> QED BY <2>1, <2>2, Fun_IsInj
<1>8. Cardinality(DOMAIN sent) <= Cardinality(CopiedValues)
  BY <1>2, <1>7, FS_Injection
<1>9. Len(sent) \in Nat /\ Cardinality(DOMAIN sent) = Len(sent)
  <2>1. PICK n \in Nat : n = Len(sent) /\ DOMAIN sent = 1 .. n
    BY <1>1
  <2>2. Cardinality(1 .. n) = IF 1 > n THEN 0 ELSE n - 1 + 1
    BY FS_Interval
  <2> QED BY <2>1, <2>2
<1> QED BY <1>2, <1>8, <1>9

LEMMA TimesMonotonic == \A k, a, b \in Nat : a <= b => k * a <= k * b
<1> SUFFICES ASSUME NEW k \in Nat, NEW a \in Nat, NEW b \in Nat, a <= b
             PROVE  k * a <= k * b
  OBVIOUS
<1>1. PICK d \in Nat : b = a + d
  <2>1. b - a \in Nat /\ b = a + (b - a)
    OBVIOUS
  <2> QED BY <2>1
<1>2. k * (a + d) = k * a + k * d
  OBVIOUS
<1>3. k * a \in Nat /\ k * d \in Nat
  BY OneMore
<1>4. k * a <= k * a + k * d
  BY <1>3
<1> QED BY <1>1, <1>2, <1>4

\* With so few copies a list that is full never has a handler that wants to add to it.
LEMMA FewCopiesLeaveRoom ==
  ASSUME IsFiniteSet(Links), IsFiniteSet(Types), ArrivalInv, CoverInv, FewCopies
  PROVE  RoomForMarkers
<1> SUFFICES ASSUME NEW n \in Nodes, loop[n] # None, Len(echoes[n]) = RingSize PROVE FALSE
  BY DEF RoomForMarkers
<1>1. Busy(n) = 1 /\ RingSize \in Nat
  BY RingSizeAssumption DEF Busy
<1>2. PICK o \in Nat : o = Cardinality(OnTheWay(n))
  BY ArrivalNumbers DEF ArrivalInv
<1>3. PICK k, s, c \in Nat : /\ k = Cardinality(LinksTo(n)) /\ s = Len(sent)
                             /\ c = Cardinality(CopiedValues) /\ s <= c
  BY ArrivalNumbers, EventsWereCopied DEF ArrivalInv
<1>4. k * s <= k * c /\ k * s \in Nat /\ k * c \in Nat
  BY <1>3, TimesMonotonic, OneMore
<1>5. PICK x, y \in Nat : x = k * s /\ y = k * c /\ x <= y
  BY <1>4
<1>6. RingSize + 1 + o <= x /\ y <= RingSize
  BY <1>1, <1>2, <1>3, <1>5 DEF ArrivalInv, NeverMore, FewCopies
<1>7. x \in Nat /\ y \in Nat /\ o \in Nat /\ x <= y
  BY <1>2, <1>5
<1> QED BY <1>1, <1>6, <1>7

\* The same without an assumption about the list of markers: as long as the
\* contents that users copied, times the links to any one node, are at most
\* RingSize (32 in the program), no list ever drops a live marker, however long
\* everything takes and whatever is lost or overtaken, and nothing is announced
\* that no user copied.
THEOREM NoPhantomsOfFewCopies ==
  ASSUME AtomicPoll, ~ Interference, Timely, ReadsBackKnown,
         IsFiniteSet(Links), IsFiniteSet(Types)
  PROVE  Safety /\ []FewCopies => []NoPhantomCopies
<1>1. FewCopies /\ ArrivalInv /\ CoverInv /\ [Next]_vars => ArrivalInv' /\ CoverInv'
  BY ArrivalStep, CoverStep, FewCopiesLeaveRoom
<1>2. Init => ArrivalInv /\ CoverInv
  BY InitArrival, InitCovered
<1>3. CoverInv => NoPhantomCopies
  BY CoverSuffices
<1> QED BY <1>1, <1>2, <1>3, PTL DEF Safety
=============================================================================
