----------------------- MODULE DependencyGraphProofs -----------------------
(***************************************************************************)
(* Theorems about DependencyGraph, for any names, any lists of files and   *)
(* any calls. The walks are counted through: how often a name occurs in a  *)
(* list, and how many edges of a map lead to it.                           *)
(***************************************************************************)
EXTENDS DependencyGraph, TLAPS, SequenceTheorems, FiniteSetTheorems, WellFoundedInduction

\* A set of numbers has a least one.
LEMMA LeastNumber ==
  ASSUME NEW T, T \subseteq Nat, T # {}
  PROVE  \E x \in T : \A y \in T : x <= y
<1> DEFINE Smaller == OpToRel(<, Nat)
<1>1. IsWellFoundedOn(Smaller, Nat)
  BY NatLessThanWellFounded, Zenon
<1>2. \A i, j \in Nat : i < j => <<i, j>> \in Smaller
  BY DEF OpToRel
<1> HIDE DEF Smaller
<1>3. PICK x \in T : \A y \in T : ~ (<<y, x>> \in Smaller)
  BY <1>1, WFMin, Zenon
<1>4. \A y \in T : ~ (y < x)
  BY <1>2, <1>3
<1> QED BY <1>3, <1>4

LEMMA NumbersByInduction ==
  ASSUME NEW S, 0 \in S, \A n \in Nat : n \in S => n + 1 \in S
  PROVE  \A n \in Nat : n \in S
<1> SUFFICES ASSUME NEW b \in Nat, b \notin S PROVE FALSE
  OBVIOUS
<1>1. PICK x \in Nat \ S : \A y \in Nat \ S : x <= y
  BY LeastNumber
<1>2. x - 1 \in Nat /\ (x - 1) + 1 = x /\ ~(x <= x - 1)
  BY <1>1
<1> QED BY <1>1, <1>2
---------------------------------------------------------------------------
(* How often a name occurs in a list.                                      *)

LEMMA PlacesType ==
  ASSUME NEW T, NEW list \in Seq(T), NEW n
  PROVE  /\ Places(list, n) \subseteq 1 .. Len(list) /\ IsFiniteSet(Places(list, n))
         /\ Occurrences(list, n) \in Nat /\ Occurrences(list, n) <= Len(list)
         /\ Occurrences(list, n) = 0 <=> n \notin Range(list)
<1>1. Len(list) \in Nat /\ DOMAIN list = 1 .. Len(list)
  OBVIOUS
<1>2. Places(list, n) \in SUBSET (1 .. Len(list))
  BY <1>1 DEF Places
<1>3. IsFiniteSet(1 .. Len(list)) /\ Cardinality(1 .. Len(list)) = Len(list)
  BY <1>1, FS_Interval
<1>4. IsFiniteSet(Places(list, n)) /\ Cardinality(Places(list, n)) <= Len(list)
  BY <1>2, <1>3, FS_Subset
<1>5. Cardinality(Places(list, n)) \in Nat
  BY <1>4, FS_CardinalityType
<1>6. Cardinality(Places(list, n)) = 0 <=> Places(list, n) = {}
  BY <1>4, FS_EmptySet
<1>7. Places(list, n) = {} <=> n \notin Range(list)
  BY DEF Places, Range
<1> QED BY <1>2, <1>4, <1>5, <1>6, <1>7 DEF Occurrences

LEMMA NoPlaces == \A n : Places(<<>>, n) = {} /\ Occurrences(<<>>, n) = 0
<1>1. \A n : Places(<<>>, n) = {}
  BY DEF Places
<1>2. Cardinality({}) = 0
  BY FS_EmptySet
<1> QED BY <1>1, <1>2 DEF Occurrences

LEMMA AppendRange ==
  ASSUME NEW T, NEW list \in Seq(T), NEW x \in T
  PROVE  Range(Append(list, x)) = Range(list) \union {x}
<1> DEFINE new == Append(list, x)
           N == Len(list)
<1>1. /\ N \in Nat /\ DOMAIN list = 1 .. N /\ DOMAIN new = 1 .. N + 1
      /\ \A i \in 1 .. N : new[i] = list[i]
      /\ new[N + 1] = x
  BY AppendProperties
<1> HIDE DEF new, N
<1>2. 1 .. N + 1 = (1 .. N) \union {N + 1}
  BY <1>1
<1>3. Range(new) = Range(list) \union {x}
  BY <1>1, <1>2 DEF Range
<1> QED BY <1>3 DEF new

LEMMA AppendPlaces ==
  ASSUME NEW T, NEW list \in Seq(T), NEW x \in T, NEW n
  PROVE  Places(Append(list, x), n) = Places(list, n) \union (IF x = n THEN {Len(list) + 1} ELSE {})
<1> DEFINE new == Append(list, x)
           N == Len(list)
<1>1. /\ N \in Nat /\ DOMAIN list = 1 .. N /\ DOMAIN new = 1 .. N + 1
      /\ \A i \in 1 .. N : new[i] = list[i]
      /\ new[N + 1] = x
  BY AppendProperties
<1> HIDE DEF new, N
<1>2. 1 .. N + 1 = (1 .. N) \union {N + 1} /\ N + 1 \notin 1 .. N
  BY <1>1
<1>3. Places(new, n) = Places(list, n) \union (IF x = n THEN {N + 1} ELSE {})
  BY <1>1, <1>2 DEF Places
<1> QED BY <1>3 DEF new, N

LEMMA AppendOccurrences ==
  ASSUME NEW T, NEW list \in Seq(T), NEW x \in T, NEW n
  PROVE  /\ Occurrences(list, n) \in Nat
         /\ Occurrences(Append(list, x), n) = Occurrences(list, n) + (IF x = n THEN 1 ELSE 0)
<1>1. IsFiniteSet(Places(list, n)) /\ Cardinality(Places(list, n)) \in Nat /\ Len(list) + 1 \notin Places(list, n)
  BY PlacesType DEF Occurrences
<1>2. Cardinality(Places(list, n) \union {Len(list) + 1}) = Cardinality(Places(list, n)) + 1
  BY <1>1, FS_AddElement
<1>3. Places(Append(list, x), n) = Places(list, n) \union (IF x = n THEN {Len(list) + 1} ELSE {})
  BY AppendPlaces
<1>4. CASE x = n
  <2>1. Places(Append(list, x), n) = Places(list, n) \union {Len(list) + 1}
    BY <1>3, <1>4
  <2> QED BY <1>1, <1>2, <1>4, <2>1 DEF Occurrences
<1>5. CASE x # n
  <2>1. Places(Append(list, x), n) = Places(list, n)
    BY <1>3, <1>5
  <2> QED BY <1>1, <1>5, <2>1 DEF Occurrences
<1> QED BY <1>4, <1>5

\* A set of numbers moved up by one is as large.
LEMMA MovedUp ==
  ASSUME NEW S, S \subseteq Nat, IsFiniteSet(S)
  PROVE  IsFiniteSet({i + 1 : i \in S}) /\ Cardinality({i + 1 : i \in S}) = Cardinality(S)
<1> DEFINE T == {i + 1 : i \in S}
           f == [i \in S |-> i + 1]
<1>1. f \in [S -> T] /\ \A i, j \in S : f[i] = f[j] => i = j
  OBVIOUS
<1>2. \A t \in T : \E i \in S : f[i] = t
  OBVIOUS
<1>3. f \in Bijection(S, T)
  <2> HIDE DEF f, T
  <2>1. DOMAIN f = S
    BY <1>1
  <2> QED BY <1>1, <1>2, <2>1 DEF Bijection, Injection, Surjection, IsInjective
<1> HIDE DEF f, T
<1>4. ExistsBijection(S, T)
  BY <1>3 DEF ExistsBijection
<1>5. IsFiniteSet(T) /\ Cardinality(T) = Cardinality(S)
  BY <1>4, FS_Bijection
<1> QED BY <1>5 DEF T

LEMMA TailOccurrences ==
  ASSUME NEW T, NEW list \in Seq(T), list # <<>>, NEW n
  PROVE  Occurrences(list, n) = Occurrences(Tail(list), n) + (IF Head(list) = n THEN 1 ELSE 0)
<1> DEFINE t == Tail(list)
           N == Len(t)
           Up == {i + 1 : i \in Places(t, n)}
<1>1. /\ t \in Seq(T) /\ N \in Nat /\ DOMAIN t = 1 .. N /\ DOMAIN list = 1 .. N + 1
      /\ \A i \in 1 .. N : t[i] = list[i + 1]
      /\ Head(list) = list[1]
  BY HeadTailProperties
<1> HIDE DEF t, N
<1>2. Places(t, n) \subseteq Nat /\ IsFiniteSet(Places(t, n)) /\ Cardinality(Places(t, n)) \in Nat
  BY <1>1, PlacesType DEF Occurrences
<1>3. IsFiniteSet(Up) /\ Cardinality(Up) = Cardinality(Places(t, n))
  BY <1>2, MovedUp
<1>4. \A i : i \in Places(t, n) <=> i \in 1 .. N /\ list[i + 1] = n
  BY <1>1 DEF Places
<1>5. Up = {i \in 2 .. N + 1 : list[i] = n}
  <2>1. ASSUME NEW i \in 2 .. N + 1, list[i] = n PROVE i \in Up
    <3>1. i - 1 \in 1 .. N /\ (i - 1) + 1 = i
      BY <1>1
    <3>2. i - 1 \in Places(t, n)
      BY <1>4, <2>1, <3>1
    <3> QED BY <3>1, <3>2
  <2>2. ASSUME NEW i \in Up PROVE i \in 2 .. N + 1 /\ list[i] = n
    <3>1. PICK j \in Places(t, n) : i = j + 1
      OBVIOUS
    <3> QED BY <1>1, <1>4, <3>1
  <2> HIDE DEF Up
  <2> QED BY <2>1, <2>2
<1> HIDE DEF Up
<1>6. 1 .. N + 1 = (2 .. N + 1) \union {1} /\ 1 \notin 2 .. N + 1
  BY <1>1
<1>7. Places(list, n) = Up \union (IF list[1] = n THEN {1} ELSE {}) /\ 1 \notin Up
  BY <1>1, <1>5, <1>6 DEF Places
<1>8. Cardinality(Up \union {1}) = Cardinality(Up) + 1
  BY <1>3, <1>7, FS_AddElement
<1>9. Cardinality(Places(list, n)) = Cardinality(Up) + (IF list[1] = n THEN 1 ELSE 0)
  <2>1. CASE list[1] = n
    BY <1>7, <1>8, <2>1
  <2>2. CASE list[1] # n
    <3>1. Places(list, n) = Up
      BY <1>7, <2>2
    <3> QED BY <1>2, <1>3, <2>2, <3>1
  <2> QED BY <2>1, <2>2
<1> QED BY <1>1, <1>3, <1>9 DEF Occurrences, t
---------------------------------------------------------------------------
(* Sublists.                                                               *)

\* A set of numbers begins with k of them, for every k up to its size.
LEMMA Beginnings ==
  ASSUME NEW S, S \subseteq Nat, IsFiniteSet(S)
  PROVE  \A k \in Nat : k <= Cardinality(S) =>
           \E L \in SUBSET S : Cardinality(L) = k /\ \A x \in L : \A y \in S \ L : x < y
<1> DEFINE C == Cardinality(S)
           Begins(k, L) == L \in SUBSET S /\ Cardinality(L) = k /\ \A x \in L : \A y \in S \ L : x < y
           K == {k \in Nat : k <= C => \E L : Begins(k, L)}
<1>1. C \in Nat
  BY FS_CardinalityType
<1> HIDE DEF C
<1>2. 0 \in K
  <2>1. Begins(0, {})
    BY FS_EmptySet
  <2> HIDE DEF Begins
  <2> QED BY <2>1
<1>3. ASSUME NEW k \in Nat, k \in K PROVE k + 1 \in K
  <2> SUFFICES ASSUME k + 1 <= C PROVE \E L : Begins(k + 1, L)
    OBVIOUS
  <2>1. PICK L : Begins(k, L)
    BY <1>1, <1>3
  <2>2. IsFiniteSet(L) /\ L \subseteq S /\ Cardinality(L) = k
    BY <2>1, FS_Subset
  <2>3. S \ L # {}
    <3>1. L # S
      BY <1>1, <2>2 DEF C
    <3> QED BY <2>2, <3>1
  <2>4. PICK m \in S \ L : \A y \in S \ L : m <= y
    BY <2>3, LeastNumber
  <2>5. Cardinality(L \union {m}) = k + 1
    BY <2>2, <2>4, FS_AddElement
  <2>6. ASSUME NEW x \in L \union {m}, NEW y \in S \ (L \union {m}) PROVE x < y
    <3>1. CASE x \in L
      BY <2>1, <3>1
    <3>2. CASE x = m
      <4>1. m <= y /\ m # y /\ m \in Nat /\ y \in Nat
        BY <2>4
      <4> QED BY <3>2, <4>1
    <3> QED BY <3>1, <3>2
  <2>7. L \union {m} \in SUBSET S
    BY <2>2, <2>4
  <2>8. Begins(k + 1, L \union {m})
    BY ONLY <2>5, <2>6, <2>7
  <2> QED BY <2>8
<1> HIDE DEF K
<1>4. \A k \in Nat : k \in K
  BY <1>2, <1>3, NumbersByInduction
<1> QED BY <1>4 DEF K, C

LEMMA NthFacts ==
  ASSUME NEW S, S \subseteq Nat, IsFiniteSet(S), NEW k \in 1 .. Cardinality(S)
  PROVE  Nth(S, k) \in S /\ Cardinality({j \in S : j <= Nth(S, k)}) = k
<1>1. Cardinality(S) \in Nat
  BY FS_CardinalityType
<1>2. k - 1 \in Nat /\ k - 1 <= Cardinality(S) /\ k - 1 # Cardinality(S) /\ (k - 1) + 1 = k
  BY <1>1
<1>3. PICK L \in SUBSET S : Cardinality(L) = k - 1 /\ \A x \in L : \A y \in S \ L : x < y
  <2>1. \A h \in Nat : h <= Cardinality(S) =>
          \E L \in SUBSET S : Cardinality(L) = h /\ \A x \in L : \A y \in S \ L : x < y
    BY Beginnings
  <2> QED BY ONLY <1>2, <2>1
<1>4. IsFiniteSet(L)
  BY FS_Subset
<1>5. S \ L # {}
  <2>1. L # S
    BY <1>2, <1>3
  <2> QED BY <1>3, <2>1
<1>6. PICK m \in S \ L : \A y \in S \ L : m <= y
  BY <1>5, LeastNumber
<1>7. {j \in S : j <= m} = L \union {m}
  <2>1. \A j \in L : j <= m /\ j \in S
    BY <1>3, <1>6
  <2>2. \A j \in S : j <= m => j \in L \/ j = m
    BY <1>6
  <2> QED BY <1>6, <2>1, <2>2
<1>8. Cardinality(L \union {m}) = k
  BY <1>2, <1>3, <1>4, <1>6, FS_AddElement
<1>9. \E i \in S : Cardinality({j \in S : j <= i}) = k
  BY <1>6, <1>7, <1>8
<1> QED BY <1>9, Zenon DEF Nth

\* Every number of the set has its place.
LEMMA NthReaches ==
  ASSUME NEW S, S \subseteq Nat, IsFiniteSet(S), NEW i \in S
  PROVE  \E k \in 1 .. Cardinality(S) : Nth(S, k) = i
<1> DEFINE Up(x) == {j \in S : j <= x}
           k == Cardinality(Up(i))
<1>1. \A x \in S : Up(x) \in SUBSET S
  OBVIOUS
<1>2. \A x \in S : IsFiniteSet(Up(x)) /\ Cardinality(Up(x)) \in Nat /\ Cardinality(Up(x)) <= Cardinality(S)
  BY <1>1, FS_Subset, FS_CardinalityType
<1>3. i \in Up(i)
  OBVIOUS
<1>4. Cardinality(Up(i)) # 0
  BY <1>2, <1>3, FS_EmptySet
<1>5. k \in 1 .. Cardinality(S)
  <2>1. Cardinality(S) \in Nat
    BY FS_CardinalityType
  <2> QED BY <1>2, <1>4, <2>1
<1>6. Nth(S, k) \in S /\ Cardinality(Up(Nth(S, k))) = k
  BY <1>5, NthFacts
<1>7. ASSUME NEW x \in S, NEW y \in S, x < y PROVE Cardinality(Up(x)) # Cardinality(Up(y))
  <2>0. x \in Nat /\ y \in Nat /\ \A j \in S : j \in Nat
    OBVIOUS
  <2>1. Up(x) \in SUBSET Up(y) /\ y \in Up(y) /\ y \notin Up(x)
    <3>1. \A j \in S : j <= x => j <= y
      BY <1>7, <2>0
    <3>2. y \in Up(y)
      BY <2>0
    <3>3. y \notin Up(x)
      BY <1>7, <2>0
    <3> QED BY <3>1, <3>2, <3>3
  <2> HIDE DEF Up
  <2>2. Up(x) # Up(y)
    BY <2>1
  <2> QED BY <1>2, <2>1, <2>2, FS_Subset
<1>8. Nth(S, k) = i
  <2> DEFINE x == Nth(S, k)
  <2>1. x \in S /\ Cardinality(Up(x)) = Cardinality(Up(i))
    BY <1>6
  <2> HIDE DEF x, k, Up
  <2>2. ~(x < i) /\ ~(i < x)
    BY <1>7, <2>1
  <2>3. x = i
    BY <2>1, <2>2
  <2> QED BY <2>3 DEF x
<1> QED BY <1>5, <1>8

LEMMA PickedFacts ==
  ASSUME NEW T, NEW list \in Seq(T), NEW places, places \subseteq DOMAIN list
  PROVE  /\ Picked(list, places) \in Seq(T)
         /\ Len(Picked(list, places)) = Cardinality(places) /\ Cardinality(places) <= Len(list)
         /\ Range(Picked(list, places)) = {list[i] : i \in places}
<1> DEFINE C == Cardinality(places)
           p == Picked(list, places)
<1>1. Len(list) \in Nat /\ DOMAIN list = 1 .. Len(list) /\ places \in SUBSET (1 .. Len(list))
  OBVIOUS
<1>2. IsFiniteSet(1 .. Len(list)) /\ Cardinality(1 .. Len(list)) = Len(list)
  <2>1. Len(list) \in Nat
    BY <1>1
  <2> QED BY ONLY <2>1, FS_Interval
<1>3. IsFiniteSet(places) /\ C <= Len(list)
  BY <1>1, <1>2, FS_Subset
<1>4. C \in Nat
  BY <1>3, FS_CardinalityType
<1>5. places \subseteq Nat
  BY <1>1
<1>6. \A k \in 1 .. C : Nth(places, k) \in places
  BY <1>3, <1>5, NthFacts
<1>7. \A i \in places : \E k \in 1 .. C : Nth(places, k) = i
  BY <1>3, <1>5, NthReaches
<1>8. p = [k \in 1 .. C |-> list[Nth(places, k)]]
  BY DEF Picked
<1>9. \A i \in places : list[i] \in T
  BY <1>1, ElementOfSeq
<1> HIDE DEF p, C
<1>10. p \in Seq(T) /\ Len(p) = C /\ DOMAIN p = 1 .. C
  <2>1. \A k \in 1 .. C : list[Nth(places, k)] \in T
    BY <1>6, <1>9
  <2> QED BY <1>4, <1>8, <2>1
<1>11. Range(p) = {list[i] : i \in places}
  <2>1. \A k \in 1 .. C : p[k] = list[Nth(places, k)]
    BY <1>8
  <2>2. \A k \in 1 .. C : p[k] \in {list[i] : i \in places}
    BY <1>6, <2>1
  <2>3. ASSUME NEW i \in places PROVE list[i] \in Range(p)
    <3>1. PICK k \in 1 .. C : Nth(places, k) = i
      BY <1>7
    <3> QED BY <1>10, <2>1, <3>1 DEF Range
  <2> QED BY <1>10, <2>2, <2>3 DEF Range
<1> QED BY <1>3, <1>10, <1>11 DEF p, C
---------------------------------------------------------------------------
(* The entries of a map that name a module.                                *)

LEMMA EntryFacts ==
  ASSUME NEW lists, NEW ms, NEW n
  PROVE  \A x : x \in Entries(lists, ms, n) <=> \E m \in ms : \E i \in Places(lists[m], n) : x = <<m, i>>
BY DEF Entries

LEMMA EntriesFinite ==
  ASSUME NEW ms, IsFiniteSet(ms), NEW lists, NEW n, \A m \in ms : IsFiniteSet(Places(lists[m], n))
  PROVE  IsFiniteSet(Entries(lists, ms, n)) /\ Cardinality(Entries(lists, ms, n)) \in Nat
<1> DEFINE Of(m) == {<<m, i>> : i \in Places(lists[m], n)}
           All == {Of(m) : m \in ms}
           f == [m \in ms |-> Of(m)]
<1>1. ASSUME NEW m \in ms PROVE IsFiniteSet(Of(m))
  <2> DEFINE P == Places(lists[m], n)
             g == [i \in P |-> <<m, i>>]
  <2>1. g \in Surjection(P, Of(m))
    BY DEF Surjection
  <2>2. IsFiniteSet(P)
    OBVIOUS
  <2> HIDE DEF g, P, Of
  <2> QED BY <2>1, <2>2, FS_Surjection
<1>2. f \in Surjection(ms, All)
  BY DEF Surjection
<1>3. IsFiniteSet(All)
  <2> HIDE DEF f, All
  <2> QED BY <1>2, FS_Surjection
<1>4. \A E \in All : IsFiniteSet(E)
  <2> HIDE DEF Of
  <2> QED BY <1>1
<1>5. Entries(lists, ms, n) = UNION All
  BY DEF Entries
<1> HIDE DEF All
<1>6. IsFiniteSet(Entries(lists, ms, n))
  BY <1>3, <1>4, <1>5, FS_UNION
<1> QED BY <1>6, FS_CardinalityType

\* Taking a module out takes the entries of its list out.
LEMMA EntriesSplit ==
  ASSUME NEW ms, IsFiniteSet(ms), NEW lists, NEW n, \A m \in ms : IsFiniteSet(Places(lists[m], n)),
         NEW h \in ms
  PROVE  Cardinality(Entries(lists, ms, n))
           = Cardinality(Entries(lists, ms \ {h}, n)) + Occurrences(lists[h], n)
<1> DEFINE P == Places(lists[h], n)
           Of == {<<h, i>> : i \in P}
           Rest == Entries(lists, ms \ {h}, n)
           g == [i \in P |-> <<h, i>>]
<1>1. IsFiniteSet(ms \ {h})
  BY FS_RemoveElement
<1>2. IsFiniteSet(Rest) /\ Cardinality(Rest) \in Nat
  BY <1>1, EntriesFinite
<1>3. IsFiniteSet(P) /\ Cardinality(P) \in Nat
  BY FS_CardinalityType
<1>4. g \in Bijection(P, Of)
  BY DEF Bijection, Injection, Surjection, IsInjective
<1>5. IsFiniteSet(Of) /\ Cardinality(Of) = Cardinality(P)
  <2> HIDE DEF g, P, Of
  <2>1. ExistsBijection(P, Of)
    BY <1>4 DEF ExistsBijection
  <2> QED BY <1>3, <2>1, FS_Bijection
<1>6. Entries(lists, ms, n) = Rest \union Of
  BY EntryFacts
<1>7. Rest \intersect Of = {}
  BY EntryFacts
<1> HIDE DEF P, Of, Rest
<1>8. Cardinality(Rest \union Of) = Cardinality(Rest) + Cardinality(Of) - Cardinality(Rest \intersect Of)
  BY <1>2, <1>5, FS_Union
<1>9. Cardinality(Rest \intersect Of) = 0
  BY <1>7, FS_EmptySet
<1> QED BY <1>2, <1>3, <1>5, <1>6, <1>8, <1>9 DEF P, Rest, Occurrences

\* Only the lists of these modules count.
LEMMA EntriesSame ==
  ASSUME NEW lists, NEW others, NEW ms, \A m \in ms : lists[m] = others[m], NEW n
  PROVE  Entries(lists, ms, n) = Entries(others, ms, n)
<1>1. \A m \in ms : Places(lists[m], n) = Places(others[m], n)
  OBVIOUS
<1>2. ASSUME NEW x PROVE x \in Entries(lists, ms, n) <=> x \in Entries(others, ms, n)
  <2>1. x \in Entries(lists, ms, n) <=> \E m \in ms : \E i \in Places(lists[m], n) : x = <<m, i>>
    BY EntryFacts
  <2>2. x \in Entries(others, ms, n) <=> \E m \in ms : \E i \in Places(others[m], n) : x = <<m, i>>
    BY EntryFacts
  <2> QED BY <1>1, <2>1, <2>2
<1> QED BY <1>2

LEMMA EntriesFewer ==
  ASSUME NEW ms, IsFiniteSet(ms), NEW lists, NEW n, \A m \in ms : IsFiniteSet(Places(lists[m], n)),
         NEW less, NEW some, \A m \in some : (lists[m] = less[m] /\ m \in ms) \/ less[m] = <<>>
  PROVE  Cardinality(Entries(less, some, n)) <= Cardinality(Entries(lists, ms, n))
<1>1. Entries(less, some, n) \in SUBSET Entries(lists, ms, n)
  BY EntryFacts, NoPlaces
<1>2. IsFiniteSet(Entries(lists, ms, n))
  BY EntriesFinite
<1> QED BY <1>1, <1>2, FS_Subset

\* One more entry in the list of one module.
LEMMA EntriesAppended ==
  ASSUME NEW ms, IsFiniteSet(ms), NEW lists, NEW n, \A m \in ms : IsFiniteSet(Places(lists[m], n)),
         NEW h \in ms, NEW T, lists[h] \in Seq(T), NEW x \in T,
         NEW new, new[h] = Append(lists[h], x), \A m \in ms \ {h} : new[m] = lists[m]
  PROVE  Cardinality(Entries(new, ms, n)) = Cardinality(Entries(lists, ms, n)) + (IF x = n THEN 1 ELSE 0)
<1>1. Append(lists[h], x) \in Seq(T)
  BY AppendProperties
<1>2. \A m \in ms : IsFiniteSet(Places(new[m], n))
  BY <1>1, PlacesType
<1>3. Cardinality(Entries(lists, ms, n)) = Cardinality(Entries(lists, ms \ {h}, n)) + Occurrences(lists[h], n)
  BY EntriesSplit
<1>4. Cardinality(Entries(new, ms, n)) = Cardinality(Entries(new, ms \ {h}, n)) + Occurrences(new[h], n)
  BY ONLY <1>2, EntriesSplit, IsFiniteSet(ms)
<1>5. Entries(lists, ms \ {h}, n) = Entries(new, ms \ {h}, n)
  BY EntriesSame
<1>6. IsFiniteSet(ms \ {h}) /\ \A m \in ms \ {h} : m \in ms
  BY FS_RemoveElement
<1>7. Cardinality(Entries(lists, ms \ {h}, n)) \in Nat
  BY <1>6, EntriesFinite
<1>8. Occurrences(lists[h], n) \in Nat /\ Occurrences(new[h], n) = Occurrences(lists[h], n) + (IF x = n THEN 1 ELSE 0)
  BY AppendOccurrences
<1> QED BY <1>3, <1>5, <1>7, <1>8, <1>4
---------------------------------------------------------------------------
(* The graph.                                                              *)

LEMMA FileListFacts ==
  ASSUME NEW files \in FileLists \union {<<>>}
  PROVE  files \in Seq([name : Name, kernel : BOOLEAN]) /\ Len(files) \in Nat /\ Len(files) + MaxAdds < UsizeMax
<1>1. files \in Seq([name : Name, kernel : BOOLEAN])
  BY GraphAssumption, EmptySeq
<1>2. Len(files) \in Nat
  BY <1>1, LenProperties
<1> QED BY <1>1, <1>2, GraphAssumption

\* No list is as long as the largest usize, and no name occurs as often in the lists.
LEMMA Degrees ==
  ASSUME TypeOK, GraphInv, NEW n \in Name
  PROVE  /\ \A m \in modules : IsFiniteSet(Places(adjacency[m], n))
         /\ InDegree(n) \in Nat /\ InDegree(n) < UsizeMax /\ UsizeMax \in Nat
         /\ Cardinality(Entries(adjacency, modules, n)) \in Nat
         /\ Cardinality(Entries(adjacency, modules, n)) < UsizeMax
<1>1. modules \subseteq Name /\ adds \in 0 .. MaxAdds /\ MaxAdds \in Nat /\ UsizeMax \in Nat
  BY GraphAssumption DEF TypeOK
<1>2. \A m \in modules : adjacency[m] \in Seq(modules)
  BY <1>1 DEF GraphInv
<1>3. \A m \in modules : IsFiniteSet(Places(adjacency[m], n))
  BY <1>2, PlacesType
<1>4. IsFiniteSet(modules) /\ reverse_adjacency[n] \in Seq(modules)
  BY DEF GraphInv
<1>5. InDegree(n) \in Nat
  BY <1>4, LenProperties DEF InDegree
<1>6. Cardinality(Entries(adjacency, modules, n)) \in Nat
  BY <1>3, <1>4, EntriesFinite
<1>7. PICK files \in FileLists \union {<<>>} : Few(Len(files) + adds)
  BY DEF GraphInv
<1>8. Len(files) \in Nat /\ Len(files) + MaxAdds < UsizeMax
  BY FileListFacts
<1>9. InDegree(n) <= Len(files) + adds /\ Cardinality(Entries(adjacency, modules, n)) <= Len(files) + adds
  BY <1>7 DEF Few
<1> QED BY <1>1, <1>3, <1>5, <1>6, <1>8, <1>9

LEMMA GraphStarts == ASSUME Init PROVE GraphInv
<1>1. IsFiniteSet(modules) /\ modules = {}
  BY FS_EmptySet DEF Init
<1>2. \A n \in Name : adjacency[n] = <<>> /\ reverse_adjacency[n] = <<>>
  BY DEF Init, NoEdges
<1>3. adjacency \in [Name -> Seq(modules)] /\ reverse_adjacency \in [Name -> Seq(modules)]
  BY EmptySeq DEF Init, NoEdges
<1>4. \A n \in Name : Range(reverse_adjacency[n]) = {}
  BY <1>2 DEF Range
<1>5. asked = {}
  BY DEF Init
<1>6. Few(Len(<<>>) + adds)
  <2>1. Len(<<>>) + adds = 0 /\ \A n \in Name : InDegree(n) = 0
    BY <1>2 DEF Init, InDegree
  <2>2. \A n : Entries(adjacency, modules, n) = {}
    BY <1>1, EntryFacts
  <2> QED BY <2>1, <2>2, FS_EmptySet DEF Few
<1>7. \A m, n \in Name : <<m, n>> \in asked <=> m \in Range(reverse_adjacency[n]) /\ n \in Range(adjacency[m])
  BY <1>4, <1>5
<1> QED BY <1>1, <1>3, <1>6, <1>7 DEF GraphInv

LEMMA GraphKept == ASSUME GraphInv, UNCHANGED graph PROVE GraphInv'
<1>1. /\ modules' = modules /\ adjacency' = adjacency /\ reverse_adjacency' = reverse_adjacency
      /\ asked' = asked /\ adds' = adds
  BY DEF graph
<1>2. \A n : InDegree(n)' = InDegree(n)
  BY <1>1 DEF InDegree
<1>3. \A list : Few(list)' <=> Few(list)
  BY <1>1, <1>2, Zenon DEF Few
<1> QED BY <1>1, <1>3, Zenon DEF GraphInv

LEMMA GraphByAddModule ==
  ASSUME TypeOK, GraphInv, NEW n \in Name, AddModule(n)
  PROVE  GraphInv'
<1>1. modules' = modules \union {n} /\ adds' = adds /\ asked' = {e \in asked : n \notin {e[1], e[2]}}
  BY DEF AddModule
<1>2. IsFiniteSet(modules) /\ modules \subseteq Name
  BY DEF GraphInv, TypeOK
<1>3. IsFiniteSet(modules')
  BY <1>1, <1>2, FS_AddElement
<1>4. /\ adjacency \in [Name -> Seq(modules)] /\ adjacency' = [adjacency EXCEPT ![n] = <<>>]
      /\ reverse_adjacency \in [Name -> Seq(modules)]
      /\ reverse_adjacency' = [reverse_adjacency EXCEPT ![n] = <<>>]
  BY DEF GraphInv, AddModule
<1>5. \A m \in Name : /\ adjacency'[m] = IF m = n THEN <<>> ELSE adjacency[m]
                      /\ reverse_adjacency'[m] = IF m = n THEN <<>> ELSE reverse_adjacency[m]
  BY <1>4
<1>6. \A list \in Seq(modules) : list \in Seq(modules')
  BY <1>1, SeqMonotonic
<1>7. <<>> \in Seq(modules')
  BY EmptySeq
<1>8. adjacency' \in [Name -> Seq(modules')] /\ reverse_adjacency' \in [Name -> Seq(modules')]
  BY <1>4, <1>5, <1>6, <1>7
<1>9. Range(<<>>) = {}
  BY DEF Range
<1>10. ASSUME NEW a \in Name, NEW b \in Name
       PROVE  <<a, b>> \in asked' <=> a \in Range(reverse_adjacency'[b]) /\ b \in Range(adjacency'[a])
  <2>1. <<a, b>> \in asked <=> a \in Range(reverse_adjacency[b]) /\ b \in Range(adjacency[a])
    BY DEF GraphInv
  <2>2. <<a, b>> \in asked' <=> <<a, b>> \in asked /\ n # a /\ n # b
    BY <1>1
  <2> QED BY <1>5, <1>9, <2>1, <2>2
<1>11. PICK files \in FileLists \union {<<>>} : Few(Len(files) + adds)
  BY DEF GraphInv
<1>12. Len(files) \in Nat /\ adds \in Nat
  BY FileListFacts DEF TypeOK
<1>13. ASSUME NEW b \in Name
       PROVE  InDegree(b)' <= Len(files) + adds /\ Cardinality(Entries(adjacency', modules', b)) <= Len(files) + adds
  <2>1. InDegree(b) <= Len(files) + adds /\ Cardinality(Entries(adjacency, modules, b)) <= Len(files) + adds
    BY <1>11 DEF Few
  <2>2. InDegree(b)' <= Len(files) + adds
    <3>1. Len(<<>>) = 0
      OBVIOUS
    <3> QED BY <1>5, <1>12, <2>1, <3>1 DEF InDegree
  <2>3. \A m \in modules : IsFiniteSet(Places(adjacency[m], b))
    BY Degrees
  <2>4. Cardinality(Entries(adjacency', modules', b)) <= Cardinality(Entries(adjacency, modules, b))
    <3>1. \A m \in modules' : (adjacency[m] = adjacency'[m] /\ m \in modules) \/ adjacency'[m] = <<>>
      BY <1>1, <1>2, <1>5
    <3> QED BY <1>2, <2>3, <3>1, EntriesFewer
  <2>5. Cardinality(Entries(adjacency, modules, b)) \in Nat
    BY <1>2, <2>3, EntriesFinite
  <2>6. Cardinality(Entries(adjacency', modules', b)) \in Nat
    <3>1. \A m \in modules' : adjacency'[m] \in Seq(modules')
      BY <1>1, <1>2, <1>8
    <3>2. \A m \in modules' : IsFiniteSet(Places(adjacency'[m], b))
      BY <3>1, PlacesType
    <3> QED BY <1>3, <3>2, EntriesFinite
  <2> QED BY <1>12, <2>1, <2>2, <2>4, <2>5, <2>6
<1>14. Few(Len(files) + adds)'
  BY <1>1, <1>13 DEF Few
<1> QED BY <1>3, <1>8, <1>10, <1>14 DEF GraphInv

LEMMA GraphByAddDependency ==
  ASSUME TypeOK, GraphInv, NEW from \in Name, NEW to \in Name, AddDependency(from, to)
  PROVE  GraphInv'
<1>1. /\ modules' = modules /\ from \in modules /\ to \in modules /\ adds' = adds + 1
      /\ asked' = asked \union {<<from, to>>}
  BY DEF AddDependency
<1>2. IsFiniteSet(modules) /\ modules \subseteq Name
  BY DEF GraphInv, TypeOK
<1>3. /\ adjacency \in [Name -> Seq(modules)] /\ reverse_adjacency \in [Name -> Seq(modules)]
      /\ adjacency' = [adjacency EXCEPT ![from] = Append(@, to)]
      /\ reverse_adjacency' = [reverse_adjacency EXCEPT ![to] = Append(@, from)]
  BY DEF GraphInv, AddDependency
<1>4. /\ \A m \in Name : adjacency'[m] = IF m = from THEN Append(adjacency[m], to) ELSE adjacency[m]
      /\ \A m \in Name : reverse_adjacency'[m]
                           = IF m = to THEN Append(reverse_adjacency[m], from) ELSE reverse_adjacency[m]
  BY <1>3
<1>5. adjacency' \in [Name -> Seq(modules')] /\ reverse_adjacency' \in [Name -> Seq(modules')]
  BY <1>1, <1>3, AppendProperties
<1>6. /\ adjacency[from] \in Seq(modules) /\ reverse_adjacency[to] \in Seq(modules)
      /\ Range(Append(adjacency[from], to)) = Range(adjacency[from]) \union {to}
      /\ Range(Append(reverse_adjacency[to], from)) = Range(reverse_adjacency[to]) \union {from}
  <2>1. adjacency[from] \in Seq(modules) /\ reverse_adjacency[to] \in Seq(modules)
    BY <1>3
  <2>2. \A list \in Seq(modules) : \A x \in modules : Range(Append(list, x)) = Range(list) \union {x}
    BY AppendRange
  <2> QED BY <1>1, <2>1, <2>2
<1>7. ASSUME NEW a \in Name, NEW b \in Name
      PROVE  <<a, b>> \in asked' <=> a \in Range(reverse_adjacency'[b]) /\ b \in Range(adjacency'[a])
  <2>1. <<a, b>> \in asked <=> a \in Range(reverse_adjacency[b]) /\ b \in Range(adjacency[a])
    BY DEF GraphInv
  <2>2. <<a, b>> \in asked' <=> <<a, b>> \in asked \/ (a = from /\ b = to)
    BY <1>1
  <2>3. b \in Range(adjacency'[a]) <=> b \in Range(adjacency[a]) \/ (a = from /\ b = to)
    BY <1>4, <1>6
  <2>4. a \in Range(reverse_adjacency'[b]) <=> a \in Range(reverse_adjacency[b]) \/ (a = from /\ b = to)
    BY <1>4, <1>6
  <2> QED BY <2>1, <2>2, <2>3, <2>4
<1>8. PICK files \in FileLists \union {<<>>} : Few(Len(files) + adds)
  BY DEF GraphInv
<1>9. Len(files) \in Nat /\ adds \in Nat
  BY FileListFacts DEF TypeOK
<1>10. ASSUME NEW b \in Name
       PROVE  InDegree(b)' <= Len(files) + adds' /\ Cardinality(Entries(adjacency', modules', b)) <= Len(files) + adds'
  <2>1. InDegree(b) <= Len(files) + adds /\ Cardinality(Entries(adjacency, modules, b)) <= Len(files) + adds
    BY <1>8 DEF Few
  <2>2. InDegree(b) \in Nat /\ InDegree(b)' \in Nat /\ InDegree(b)' <= InDegree(b) + 1
    <3>1. reverse_adjacency[b] \in Seq(modules)
      BY <1>3
    <3>2. /\ Len(reverse_adjacency[b]) \in Nat
          /\ Len(Append(reverse_adjacency[b], from)) = Len(reverse_adjacency[b]) + 1
      BY <1>1, <3>1, AppendProperties, LenProperties
    <3>3. InDegree(b) = Len(reverse_adjacency[b]) /\ InDegree(b)' = Len(reverse_adjacency'[b])
      BY DEF InDegree
    <3>4. reverse_adjacency'[b] = Append(reverse_adjacency[b], from) \/ reverse_adjacency'[b] = reverse_adjacency[b]
      BY <1>4
    <3> QED BY <3>2, <3>3, <3>4
  <2>3. /\ \A m \in modules : IsFiniteSet(Places(adjacency[m], b))
        /\ Cardinality(Entries(adjacency, modules, b)) \in Nat
    BY Degrees
  <2>4. adjacency'[from] = Append(adjacency[from], to) /\ \A m \in modules \ {from} : adjacency'[m] = adjacency[m]
    BY <1>1, <1>2, <1>4
  <2>5. Cardinality(Entries(adjacency', modules, b))
          = Cardinality(Entries(adjacency, modules, b)) + (IF to = b THEN 1 ELSE 0)
    BY <1>1, <1>2, <1>6, <2>3, <2>4, EntriesAppended
  <2> QED BY <1>1, <1>9, <2>1, <2>2, <2>3, <2>5
<1>11. Few(Len(files) + adds)'
  BY <1>1, <1>10 DEF Few
<1>12. IsFiniteSet(modules')
  BY <1>1, <1>2
<1> QED BY <1>5, <1>7, <1>11, <1>12 DEF GraphInv

LEMMA GraphByBuildGraph ==
  ASSUME TypeOK, NEW files \in FileLists, BuildGraph(files)
  PROVE  GraphInv' /\ modules' \subseteq Name /\ asked' \subseteq Name \X Name
<1> DEFINE names == [i \in DOMAIN files |-> files[i].name]
           users == Users(files)
           From(m) == users \intersect Listings(files, m)
           N == Len(files)
<1>1. /\ modules' = Range(names) /\ asked' = {<<names[i], Kernel>> : i \in users} /\ adds' = adds
      /\ adjacency' = [n \in Name |-> [i \in 1 .. Cardinality(From(n)) |-> Kernel]]
      /\ reverse_adjacency' = [NoEdges EXCEPT ![Kernel] = Picked(names, users)]
  BY DEF BuildGraph
<1>2. files \in Seq([name : Name, kernel : BOOLEAN]) /\ N \in Nat /\ DOMAIN files = 1 .. N
  BY FileListFacts, LenProperties
<1>3. users \subseteq 1 .. N /\ (users # {} => Listings(files, Kernel) # {})
  BY <1>2 DEF Users
<1>4. \A m : \A i : i \in Listings(files, m) <=> i \in 1 .. N /\ names[i] = m
  BY <1>2 DEF Listings
<1>5. \A i \in 1 .. N : files[i] \in [name : Name, kernel : BOOLEAN]
  BY <1>2, ElementOfSeq
<1>6. \A i \in 1 .. N : names[i] \in Name /\ names[i] \in Range(names)
  BY <1>2, <1>5 DEF Range
<1>7. names \in Seq(Range(names)) /\ Len(names) = N /\ DOMAIN names = 1 .. N
  BY <1>2, <1>6
<1>8. Kernel \in Name
  BY GraphAssumption
<1> HIDE DEF users, N, names
<1>9. Range(names) \subseteq Name
  BY <1>6, <1>7 DEF Range
<1>10. users # {} => Kernel \in Range(names)
  BY <1>3, <1>4, <1>6
<1>11. IsFiniteSet(users) /\ Cardinality(users) \in Nat /\ Cardinality(users) <= N
  <2>1. IsFiniteSet(1 .. N) /\ Cardinality(1 .. N) = N
    <3>1. N \in Nat
      BY <1>2
    <3> QED BY ONLY <3>1, FS_Interval
  <2>2. users \in SUBSET (1 .. N)
    BY <1>3
  <2>3. IsFiniteSet(users) /\ Cardinality(users) <= N
    BY <2>1, <2>2, FS_Subset
  <2> QED BY <2>3, FS_CardinalityType
<1>12. IsFiniteSet(Range(names))
  <2>1. names \in Surjection(1 .. N, Range(names))
    <3>1. names \in [1 .. N -> Range(names)]
      BY <1>6, <1>7
    <3> QED BY <1>7, <3>1 DEF Surjection, Range
  <2>2. IsFiniteSet(1 .. N)
    <3>1. N \in Nat
      BY <1>2
    <3> QED BY ONLY <3>1, FS_Interval
  <2> QED BY <2>1, <2>2, FS_Surjection
<1>13. ASSUME NEW m
       PROVE  /\ From(m) \subseteq Nat /\ IsFiniteSet(From(m)) /\ Cardinality(From(m)) \in Nat
              /\ Cardinality(From(m)) = 0 <=> From(m) = {}
  <2>1. From(m) \in SUBSET users
    OBVIOUS
  <2>2. IsFiniteSet(From(m))
    BY <1>11, <2>1, FS_Subset
  <2>3. users \subseteq Nat
    BY <1>2, <1>3
  <2> HIDE DEF From
  <2> QED BY <2>1, <2>2, <2>3, FS_CardinalityType, FS_EmptySet
<1>14. /\ Picked(names, users) \in Seq(Range(names)) /\ Len(Picked(names, users)) = Cardinality(users)
       /\ Range(Picked(names, users)) = {names[i] : i \in users}
  BY <1>3, <1>7, PickedFacts
<1>15. \A n \in Name : reverse_adjacency'[n] = IF n = Kernel THEN Picked(names, users) ELSE <<>>
  BY <1>1, <1>8 DEF NoEdges
<1>16. reverse_adjacency' \in [Name -> Seq(modules')]
  <2>1. <<>> \in Seq(Range(names))
    BY EmptySeq
  <2>2. DOMAIN reverse_adjacency' = Name /\ reverse_adjacency' = [n \in Name |-> reverse_adjacency'[n]]
    BY <1>1 DEF NoEdges
  <2> QED BY <1>1, <1>14, <1>15, <2>1, <2>2
<1>17. ASSUME NEW n \in Name
       PROVE  /\ adjacency'[n] = [i \in 1 .. Cardinality(From(n)) |-> Kernel]
              /\ adjacency'[n] \in Seq(Range(names))
              /\ Len(adjacency'[n]) = Cardinality(From(n))
              /\ DOMAIN adjacency'[n] = 1 .. Cardinality(From(n))
  <2>1. adjacency'[n] = [i \in 1 .. Cardinality(From(n)) |-> Kernel]
    BY <1>1
  <2>2. Cardinality(From(n)) \in Nat /\ (Cardinality(From(n)) # 0 => Kernel \in Range(names))
    BY <1>10, <1>13
  <2> HIDE DEF From
  <2>3. \A i \in 1 .. Cardinality(From(n)) : Kernel \in Range(names)
    BY <2>2
  <2> QED BY <2>1, <2>2, <2>3
<1>18. adjacency' \in [Name -> Seq(modules')]
  <2>1. DOMAIN adjacency' = Name /\ adjacency' = [n \in Name |-> adjacency'[n]]
    BY <1>1
  <2> QED BY <1>1, <1>17, <2>1
<1>19. ASSUME NEW a \in Name, NEW b \in Name
       PROVE  <<a, b>> \in asked' <=> a \in Range(reverse_adjacency'[b]) /\ b \in Range(adjacency'[a])
  <2>1. <<a, b>> \in asked' <=> b = Kernel /\ \E i \in users : names[i] = a
    BY <1>1
  <2>2. a \in Range(reverse_adjacency'[b]) <=> b = Kernel /\ \E i \in users : names[i] = a
    <3>1. Range(<<>>) = {}
      BY DEF Range
    <3> QED BY <1>14, <1>15, <3>1
  <2>3. ASSUME b = Kernel, \E i \in users : names[i] = a PROVE b \in Range(adjacency'[a])
    <3>1. From(a) # {}
      BY <1>3, <1>4, <2>3
    <3>2. 1 \in 1 .. Cardinality(From(a))
      <4> HIDE DEF From
      <4>1. Cardinality(From(a)) \in Nat /\ Cardinality(From(a)) # 0
        BY <1>13, <3>1
      <4> QED BY <4>1
    <3>3. adjacency'[a][1] = Kernel /\ 1 \in DOMAIN adjacency'[a]
      BY <1>17, <3>2
    <3> QED BY <2>3, <3>3 DEF Range
  <2> QED BY <2>1, <2>2, <2>3
<1>20. ASSUME NEW b \in Name
       PROVE  InDegree(b)' <= N + adds' /\ Cardinality(Entries(adjacency', modules', b)) <= N + adds'
  <2> DEFINE E == Entries(adjacency', modules', b)
             f == [x \in E |-> Nth(From(x[1]), x[2])]
  <2>1. \A x \in E : \E m \in Name : \E i \in 1 .. Cardinality(From(m)) : x = <<m, i>>
    <3>1. ASSUME NEW m \in modules', NEW i \in Places(adjacency'[m], b)
          PROVE  m \in Name /\ i \in 1 .. Cardinality(From(m))
      BY <1>1, <1>9, <1>17 DEF Places
    <3>2. \A x \in E : \E m \in modules' : \E i \in Places(adjacency'[m], b) : x = <<m, i>>
      BY EntryFacts
    <3> HIDE DEF E
    <3> QED BY <3>1, <3>2
  <2> HIDE DEF E
  <2>2. \A m \in Name : \A i \in 1 .. Cardinality(From(m)) :
           Nth(From(m), i) \in From(m) /\ Cardinality({j \in From(m) : j <= Nth(From(m), i)}) = i
    <3> HIDE DEF From
    <3> QED BY <1>13, NthFacts
  <2>3. ASSUME NEW x \in E PROVE f[x] \in users
    <3>1. PICK m \in Name : \E i \in 1 .. Cardinality(From(m)) : x = <<m, i>>
      BY <2>1
    <3>2. PICK i \in 1 .. Cardinality(From(m)) : x = <<m, i>>
      BY <3>1
    <3>3. f[x] = Nth(From(m), i)
      BY <3>2
    <3>4. Nth(From(m), i) \in From(m)
      BY <2>2
    <3> QED BY <3>3, <3>4
  <2>4. ASSUME NEW x \in E, NEW y \in E, f[x] = f[y] PROVE x = y
    <3>1. PICK m \in Name : \E i \in 1 .. Cardinality(From(m)) : x = <<m, i>>
      BY <2>1
    <3>2. PICK i \in 1 .. Cardinality(From(m)) : x = <<m, i>>
      BY <3>1
    <3>3. PICK k \in Name : \E j \in 1 .. Cardinality(From(k)) : y = <<k, j>>
      BY <2>1
    <3>4. PICK j \in 1 .. Cardinality(From(k)) : y = <<k, j>>
      BY <3>3
    <3>5. Nth(From(m), i) = Nth(From(k), j)
      BY <2>4, <3>2, <3>4
    <3>6. Nth(From(m), i) \in From(m) /\ Nth(From(k), j) \in From(k)
      BY <2>2
    <3>7. m = k
      BY <1>4, <3>5, <3>6
    <3>8. i = j
      BY <2>2, <3>5, <3>7
    <3> QED BY <3>2, <3>4, <3>7, <3>8
  <2>5. f \in Injection(E, users)
    BY <2>3, <2>4 DEF Injection, IsInjective
  <2> HIDE DEF f, From
  <2>6. IsFiniteSet(E) /\ Cardinality(E) <= Cardinality(users)
    BY <1>11, <2>5, FS_Injection
  <2>7. Cardinality(E) \in Nat
    BY <2>6, FS_CardinalityType
  <2>8. InDegree(b)' <= N
    <3>1. InDegree(b)' = Len(reverse_adjacency'[b])
      BY DEF InDegree
    <3>2. Len(<<>>) = 0
      OBVIOUS
    <3> QED BY <1>2, <1>11, <1>14, <1>15, <3>1, <3>2
  <2>9. adds' \in Nat /\ InDegree(b)' \in Nat
    <3>1. adds' \in Nat
      BY <1>1 DEF TypeOK
    <3>2. reverse_adjacency'[b] \in Seq(modules')
      BY <1>16
    <3> QED BY <3>1, <3>2, LenProperties DEF InDegree
  <2> QED BY <1>2, <1>11, <2>6, <2>7, <2>8, <2>9 DEF E
<1>21. Few(Len(files) + adds)'
  <2>1. \A b \in Name : InDegree(b)' <= Len(files) + adds' /\ Cardinality(Entries(adjacency', modules', b)) <= Len(files) + adds'
    BY <1>20 DEF N
  <2> QED BY <2>1 DEF Few
<1>22. files \in FileLists \union {<<>>}
  OBVIOUS
<1>23. GraphInv'
  BY <1>1, <1>12, <1>16, <1>18, <1>19, <1>21, <1>22 DEF GraphInv
<1>24. asked' \subseteq Name \X Name
  BY <1>1, <1>3, <1>6, <1>8
<1> QED BY <1>1, <1>9, <1>23, <1>24
---------------------------------------------------------------------------
(* Types.                                                                  *)

Scalars ==
  /\ checked \in BOOLEAN /\ modules \subseteq Name /\ adds \in 0 .. MaxAdds /\ readds \in 0 .. MaxReAdds
  /\ asked \subseteq Name \X Name /\ declared \subseteq Name \X Name
  /\ phase \in Ends \union Walks \union {"idle", "order", "panic"} /\ root \in Name

LEMMA TypesTogether == ASSUME Scalars, GraphInv, RestInv PROVE TypeOK
<1>1. \A n \in Name : adjacency[n] \in Seq(modules) /\ reverse_adjacency[n] \in Seq(modules)
  BY DEF GraphInv
<1>2. queue \in Seq(modules) /\ result \in Seq(modules) /\ dependents \in Seq(modules) /\ stack \in Seq(Name)
  BY DEF RestInv
<1>3. /\ Range(queue) \subseteq modules /\ Range(result) \subseteq modules
      /\ Range(dependents) \subseteq modules /\ Range(stack) \subseteq Name
  BY <1>2, RangeOfSeq
<1>4. \A n \in Name : Range(adjacency[n]) \union Range(reverse_adjacency[n]) \subseteq modules
  BY <1>1, RangeOfSeq
<1>5. in_degree \in [Name -> 0 .. UsizeMax] /\ visited \subseteq Name
  BY DEF RestInv
<1> QED BY <1>3, <1>4, <1>5 DEF Scalars, TypeOK

LEMMA TypesStart == ASSUME Init PROVE Scalars /\ RestInv
<1>1. Scalars
  BY GraphAssumption DEF Init, Scalars
<1>2. \A S : <<>> \in Seq(S)
  BY EmptySeq
<1>3. NoDegrees \in [Name -> 0 .. UsizeMax]
  BY GraphAssumption DEF NoDegrees
<1> QED BY <1>1, <1>2, <1>3 DEF Init, RestInv

LEMMA TypesKept ==
  ASSUME TypeOK, Scalars, GraphInv, RestInv, [Next]_vars
  PROVE  Scalars' /\ GraphInv' /\ RestInv'
<1> USE DEF Ends, Walks, Idle
<1>1. ASSUME NEW n \in Name, AddModule(n) PROVE Scalars' /\ GraphInv' /\ RestInv'
  <2>1. Scalars'
    <3>1. readds' \in 0 .. MaxReAdds
      BY <1>1, GraphAssumption DEF AddModule, Scalars
    <3>2. /\ modules' = modules \union {n} /\ asked' \subseteq asked
          /\ UNCHANGED <<checked, adds, declared, phase, root>>
      BY <1>1 DEF AddModule, dfs
    <3> QED BY <3>1, <3>2 DEF Scalars
  <2>2. GraphInv'
    BY <1>1, GraphByAddModule
  <2>3. /\ modules \subseteq modules' /\ phase = "idle" /\ phase' = "idle"
        /\ UNCHANGED <<in_degree, queue, result, dependents, visited, stack>>
    BY <1>1 DEF AddModule, kahn, dfs
  <2>4. \A list \in Seq(modules) : list \in Seq(modules')
    BY <2>3, SeqMonotonic
  <2>5. RestInv'
    BY <2>3, <2>4 DEF RestInv
  <2> QED BY <2>1, <2>2, <2>5
<1>2. ASSUME NEW from \in Name, NEW to \in Name, AddDependency(from, to) PROVE Scalars' /\ GraphInv' /\ RestInv'
  <2>1. Scalars'
    BY <1>2, GraphAssumption DEF AddDependency, Scalars, dfs
  <2>2. GraphInv'
    BY <1>2, GraphByAddDependency
  <2>3. UNCHANGED <<modules, phase, in_degree, queue, result, dependents, visited, stack>>
    BY <1>2 DEF AddDependency, kahn, dfs
  <2>4. RestInv'
    BY <2>3 DEF RestInv
  <2> QED BY <2>1, <2>2, <2>4
<1>3. ASSUME NEW files \in FileLists, BuildGraph(files) PROVE Scalars' /\ GraphInv' /\ RestInv'
  <2>1. GraphInv' /\ modules' \subseteq Name /\ asked' \subseteq Name \X Name
    BY <1>3, GraphByBuildGraph
  <2>2. /\ modules = {} /\ phase = "idle" /\ phase' = "idle" /\ declared' = asked'
        /\ UNCHANGED <<checked, adds, readds, root, in_degree, queue, result, dependents, visited, stack>>
    BY <1>3 DEF BuildGraph, kahn, dfs
  <2>3. Scalars'
    BY <2>1, <2>2 DEF Scalars
  <2>4. \A list \in Seq(modules) : list \in Seq(modules')
    BY <2>2, SeqMonotonic
  <2>5. RestInv'
    BY <2>2, <2>4 DEF RestInv
  <2> QED BY <2>1, <2>3, <2>5
<1>4. ASSUME UNCHANGED graph, root' \in Name, phase' \in Ends \union Walks \union {"idle", "order", "panic"}
      PROVE  Scalars' /\ GraphInv'
  <2>1. GraphInv'
    BY <1>4, GraphKept
  <2> QED BY <1>4, <2>1 DEF graph, Scalars
<1>5. CASE StartOrder
  <2>1. UNCHANGED graph /\ UNCHANGED <<result, dependents, root, visited, stack>> /\ phase = "idle" /\ phase' = "order"
    BY <1>5 DEF StartOrder, dfs
  <2>2. \A n \in Name : InDegree0(n) \in 0 .. UsizeMax
    BY Degrees DEF InDegree, InDegree0
  <2>3. in_degree' \in [Name -> 0 .. UsizeMax]
    BY <1>5, <2>2 DEF StartOrder
  <2>4. queue' \in Seq(modules)
    <3> DEFINE Z == {n \in modules : InDegree0(n) = 0}
    <3>1. queue' \in [1 .. Cardinality(Z) -> Z]
      BY <1>5 DEF StartOrder, SetToSeqs
    <3>2. Z \in SUBSET modules
      OBVIOUS
    <3>3. IsFiniteSet(modules)
      BY DEF GraphInv
    <3> HIDE DEF Z
    <3>4. Cardinality(Z) \in Nat
      BY <3>2, <3>3, FS_Subset, FS_CardinalityType
    <3>5. queue' \in Seq(Z)
      BY <3>1, <3>4
    <3> QED BY <3>2, <3>5, SeqMonotonic
  <2>5. Scalars' /\ GraphInv'
    BY <1>4, <2>1 DEF Scalars
  <2>6. modules' = modules
    BY <2>1 DEF graph
  <2>7. RestInv'
    BY <2>1, <2>3, <2>4, <2>6 DEF RestInv
  <2> QED BY <2>5, <2>7
<1>6. CASE Pop
  <2>1. /\ UNCHANGED graph /\ UNCHANGED <<in_degree, root, visited, stack, phase>> /\ phase = "order" /\ queue # <<>>
        /\ result' = Append(result, Head(queue)) /\ queue' = Tail(queue) /\ dependents' = adjacency[Head(queue)]
    BY <1>6 DEF Pop, dfs
  <2>2. queue \in Seq(modules) /\ result \in Seq(modules) /\ modules \subseteq Name
    BY DEF RestInv, Scalars
  <2>3. Head(queue) \in modules /\ Tail(queue) \in Seq(modules)
    BY <2>1, <2>2, HeadTailProperties
  <2>4. Append(result, Head(queue)) \in Seq(modules)
    BY <2>2, <2>3, AppendProperties
  <2>5. adjacency[Head(queue)] \in Seq(modules)
    BY <2>2, <2>3 DEF GraphInv
  <2>6. Scalars' /\ GraphInv'
    BY <1>4, <2>1 DEF Scalars
  <2>7. modules' = modules
    BY <2>1 DEF graph
  <2>8. RestInv'
    BY <2>1, <2>3, <2>4, <2>5, <2>7 DEF RestInv
  <2> QED BY <2>6, <2>8
<1>7. CASE Decrement
  <2> DEFINE n == Head(dependents)
  <2>1. /\ UNCHANGED graph /\ UNCHANGED <<result, root, visited, stack>> /\ phase = "order" /\ dependents # <<>>
        /\ phase' \in {"order", "panic"}
    BY <1>7 DEF Decrement, dfs
  <2>2. queue \in Seq(modules) /\ dependents \in Seq(modules) /\ modules \subseteq Name
    BY DEF RestInv, Scalars
  <2>3. n \in modules /\ Tail(dependents) \in Seq(modules)
    BY <2>1, <2>2, HeadTailProperties
  <2>4. Append(queue, n) \in Seq(modules)
    BY <2>2, <2>3, AppendProperties
  <2>5. in_degree \in [Name -> 0 .. UsizeMax] /\ UsizeMax \in Nat /\ n \in Name
    BY <2>2, <2>3, GraphAssumption DEF RestInv
  <2>6. /\ queue' \in {queue, Append(queue, n)} /\ dependents' \in {dependents, Tail(dependents)}
        /\ \/ in_degree[n] > 0 /\ in_degree' = [in_degree EXCEPT ![n] = @ - 1]
           \/ in_degree' = [in_degree EXCEPT ![n] = UsizeMax]
           \/ in_degree' = in_degree
    BY <1>7 DEF Decrement
  <2>7. in_degree' \in [Name -> 0 .. UsizeMax]
    BY <2>5, <2>6
  <2>8. Scalars' /\ GraphInv'
    BY <1>4, <2>1 DEF Scalars
  <2>9. modules' = modules
    BY <2>1 DEF graph
  <2>10. queue' \in Seq(modules') /\ dependents' \in Seq(modules')
    BY <2>2, <2>3, <2>4, <2>6, <2>9
  <2>11. RestInv'
    BY <2>1, <2>7, <2>9, <2>10 DEF RestInv
  <2> QED BY <2>8, <2>11
<1>8. CASE EndOrder
  <2>1. /\ UNCHANGED graph /\ UNCHANGED <<in_degree, queue, result, dependents, root, visited, stack>>
        /\ phase = "order" /\ phase' \in {"ordered", "cyclic"}
    BY <1>8 DEF EndOrder, kahn, dfs
  <2>2. Scalars' /\ GraphInv'
    BY <1>4, <2>1 DEF Scalars
  <2>3. RestInv'
    BY <2>1 DEF RestInv, graph
  <2> QED BY <2>2, <2>3
<1>9. ASSUME NEW n \in Name, NEW walk \in Walks, StartClosure(n, walk) PROVE Scalars' /\ GraphInv' /\ RestInv'
  <2>1. /\ UNCHANGED graph /\ UNCHANGED <<in_degree, queue, result, dependents, visited>>
        /\ phase = "idle" /\ phase' \in Walks /\ root' = n /\ stack' = <<n>>
    BY <1>9 DEF StartClosure, kahn
  <2>2. Scalars' /\ GraphInv'
    BY <1>4, <2>1
  <2>3. stack' \in Seq(Name)
    BY <2>1
  <2>4. RestInv'
    BY <2>1, <2>3 DEF RestInv, graph
  <2> QED BY <2>2, <2>4
<1>10. CASE Visit
  <2> DEFINE n == Last(stack)
             P == Picked(EdgesFrom(n), {i \in DOMAIN EdgesFrom(n) : EdgesFrom(n)[i] \notin visited \union {n}})
  <2>1. /\ UNCHANGED graph /\ UNCHANGED <<in_degree, queue, result, dependents, root, phase>>
        /\ phase \in Walks /\ stack # <<>>
        /\ visited' \in {visited, visited \union {n}} /\ stack' \in {Front(stack), Front(stack) \o P}
    BY <1>10 DEF Visit, kahn
  <2>2. stack \in Seq(Name) /\ visited \subseteq Name /\ modules \subseteq Name
    BY DEF RestInv, Scalars
  <2>3. n \in Name /\ Front(stack) \in Seq(Name)
    BY <2>1, <2>2 DEF Last, Front
  <2>4. EdgesFrom(n) \in Seq(Name)
    <3>1. EdgesFrom(n) \in Seq(modules)
      BY <2>3 DEF EdgesFrom, GraphInv
    <3> QED BY <2>2, <3>1, SeqMonotonic
  <2>5. P \in Seq(Name)
    <3> DEFINE S == {i \in DOMAIN EdgesFrom(n) : EdgesFrom(n)[i] \notin visited \union {n}}
    <3>1. S \subseteq DOMAIN EdgesFrom(n)
      OBVIOUS
    <3> HIDE DEF S, n
    <3>2. Picked(EdgesFrom(n), S) \in Seq(Name)
      BY <2>4, <3>1, PickedFacts
    <3> QED BY <3>2 DEF S
  <2> HIDE DEF P
  <2>6. Front(stack) \o P \in Seq(Name)
    BY <2>3, <2>5, ConcatProperties
  <2>7. Scalars' /\ GraphInv'
    BY <1>4, <2>1 DEF Scalars
  <2>8. visited' \subseteq Name /\ stack' \in Seq(Name)
    BY <2>1, <2>2, <2>3, <2>6
  <2> HIDE DEF n
  <2>9. RestInv'
    BY <2>1, <2>8 DEF RestInv, graph
  <2> QED BY <2>7, <2>9
<1>11. CASE EndClosure
  <2>1. /\ UNCHANGED graph /\ UNCHANGED <<in_degree, queue, result, dependents, root, stack>>
        /\ phase \in Walks /\ phase' \in {"dependencies", "dependents"} /\ visited' = visited \ {root}
    BY <1>11 DEF EndClosure, kahn
  <2>2. Scalars' /\ GraphInv'
    BY <1>4, <2>1 DEF Scalars
  <2>3. RestInv'
    BY <2>1 DEF RestInv, graph
  <2> QED BY <2>2, <2>3
<1>12. CASE Return
  <2>1. /\ UNCHANGED graph /\ root' = Kernel /\ phase' = "idle"
        /\ in_degree' = NoDegrees /\ queue' = <<>> /\ result' = <<>> /\ dependents' = <<>>
        /\ visited' = {} /\ stack' = <<>>
    BY <1>12 DEF Return
  <2>2. Scalars' /\ GraphInv'
    BY <1>4, <2>1, GraphAssumption
  <2>3. \A S : <<>> \in Seq(S)
    BY EmptySeq
  <2>4. NoDegrees \in [Name -> 0 .. UsizeMax]
    BY GraphAssumption DEF NoDegrees
  <2>5. RestInv'
    BY <2>1, <2>3, <2>4 DEF RestInv
  <2> QED BY <2>2, <2>5
<1>13. CASE UNCHANGED vars
  <2>1. UNCHANGED graph /\ UNCHANGED <<in_degree, queue, result, dependents, root, visited, stack, phase>>
    BY <1>13 DEF vars, kahn, dfs
  <2>2. Scalars' /\ GraphInv'
    BY <1>4, <2>1 DEF Scalars
  <2>3. RestInv'
    BY <2>1 DEF RestInv, graph
  <2> QED BY <2>2, <2>3
<1> QED BY <1>1, <1>2, <1>3, <1>5, <1>6, <1>7, <1>8, <1>9, <1>10, <1>11, <1>12, <1>13 DEF Next, Walk
---------------------------------------------------------------------------
(* Where edges lead.                                                       *)

LEMMA ReachedInside ==
  ASSUME NEW edges, NEW n, NEW S \in SUBSET modules, n \in S, Closed(edges, S)
  PROVE  Reached(edges, n) \subseteq S
BY DEF Reached

LEMMA ReachedClosed ==
  ASSUME NEW edges, \A e \in edges : e[2] \in modules, NEW n \in modules
  PROVE  /\ n \in Reached(edges, n) /\ Reached(edges, n) \subseteq modules
         /\ Closed(edges, Reached(edges, n))
<1>1. n \in Reached(edges, n) /\ Reached(edges, n) \subseteq modules
  BY DEF Reached
<1>2. ASSUME NEW e \in edges, e[1] \in Reached(edges, n) PROVE e[2] \in Reached(edges, n)
  <2>1. ASSUME NEW S \in SUBSET modules, n \in S, Closed(edges, S) PROVE e[2] \in S
    <3>1. e[1] \in S
      BY <1>2, <2>1 DEF Reached
    <3> QED BY <2>1, <3>1 DEF Closed
  <2> QED BY <2>1 DEF Reached
<1> QED BY <1>1, <1>2 DEF Closed

LEMMA ReachedOn ==
  ASSUME NEW edges, \A e \in edges : e[2] \in modules, NEW n \in modules, NEW m \in Reached(edges, n)
  PROVE  Reached(edges, m) \subseteq Reached(edges, n)
<1>1. Reached(edges, n) \in SUBSET modules /\ Closed(edges, Reached(edges, n))
  BY ReachedClosed
<1> QED BY <1>1, ReachedInside

\* Going back from one to the next for ever, one comes round.
LEMMA CycleFromPredecessors ==
  ASSUME NEW edges, \A e \in edges : e[2] \in modules, IsFiniteSet(modules),
         NEW U \in SUBSET modules, U # {}, \A n \in U : \E m \in U : <<m, n>> \in edges
  PROVE  HasCycle(edges)
<1> DEFINE A(n) == {m \in U : n \in Reached(edges, m)}
           Sizes == {Cardinality(A(n)) : n \in U}
<1>1. \A n \in U : A(n) \in SUBSET modules
  OBVIOUS
<1>2. \A n \in U : IsFiniteSet(A(n)) /\ Cardinality(A(n)) \in Nat
  <2> HIDE DEF A
  <2> QED BY <1>1, FS_Subset, FS_CardinalityType
<1>3. Sizes \subseteq Nat /\ Sizes # {}
  BY <1>2
<1>4. PICK s \in Sizes : \A t \in Sizes : s <= t
  <2> HIDE DEF Sizes
  <2> QED BY <1>3, LeastNumber
<1>5. PICK n \in U : \A k \in U : Cardinality(A(n)) <= Cardinality(A(k))
  BY <1>4
<1>6. PICK m \in U : <<m, n>> \in edges
  OBVIOUS
<1>7. CASE m \in Reached(edges, n)
  BY <1>6, <1>7 DEF HasCycle
<1>8. CASE m \notin Reached(edges, n)
  <2>1. n \notin A(m)
    BY <1>8
  <2>2. n \in A(n)
    BY ReachedClosed
  <2>3. ASSUME NEW x \in A(m) PROVE x \in A(n)
    <3>1. x \in U /\ x \in modules /\ m \in Reached(edges, x)
      OBVIOUS
    <3>2. Closed(edges, Reached(edges, x))
      BY <3>1, ReachedClosed
    <3>3. n \in Reached(edges, x)
      <4>1. \A e \in edges : e[1] \in Reached(edges, x) => e[2] \in Reached(edges, x)
        BY <3>2 DEF Closed
      <4> QED BY <1>6, <3>1, <4>1
    <3> QED BY <3>1, <3>3
  <2> HIDE DEF A
  <2>4. A(m) \in SUBSET A(n) /\ A(m) # A(n)
    BY <2>1, <2>2, <2>3
  <2>5. Cardinality(A(m)) <= Cardinality(A(n)) /\ Cardinality(A(m)) # Cardinality(A(n))
    BY <1>2, <2>4, FS_Subset
  <2> QED BY <1>2, <1>5, <2>5
<1> QED BY <1>7, <1>8
---------------------------------------------------------------------------
(* The closures.                                                           *)

\* The edges asked for are those the two maps hold.
LEMMA AskedEdges ==
  ASSUME GraphInv, modules \subseteq Name, asked \subseteq Name \X Name
  PROVE  /\ \A e \in asked : e[1] \in modules /\ e[2] \in modules /\ e = <<e[1], e[2]>>
         /\ \A m, n \in Name : <<m, n>> \in asked <=> m \in Range(reverse_adjacency[n]) /\ n \in Range(adjacency[m])
         /\ Mirror => \A m, n \in Name : m \in Range(reverse_adjacency[n]) <=> n \in Range(adjacency[m])
<1>1. \A m, n \in Name : <<m, n>> \in asked <=> m \in Range(reverse_adjacency[n]) /\ n \in Range(adjacency[m])
  BY DEF GraphInv
<1>2. \A n \in Name : adjacency[n] \in Seq(modules) /\ reverse_adjacency[n] \in Seq(modules)
  BY DEF GraphInv
<1>3. \A n \in Name : Range(adjacency[n]) \subseteq modules /\ Range(reverse_adjacency[n]) \subseteq modules
  BY <1>2, RangeOfSeq
<1>4. ASSUME NEW e \in asked PROVE e[1] \in modules /\ e[2] \in modules /\ e = <<e[1], e[2]>>
  <2>1. e \in Name \X Name
    OBVIOUS
  <2>2. e = <<e[1], e[2]>> /\ e[1] \in Name /\ e[2] \in Name
    BY <2>1
  <2> QED BY <1>1, <1>3, <2>2
<1>5. ASSUME Mirror, NEW m \in Name, NEW n \in Name
      PROVE  m \in Range(reverse_adjacency[n]) <=> n \in Range(adjacency[m])
  <2>1. Occurrences(adjacency[m], n) = Occurrences(reverse_adjacency[n], m)
    BY <1>5 DEF Mirror
  <2>2. Occurrences(adjacency[m], n) = 0 <=> n \notin Range(adjacency[m])
    BY <1>2, PlacesType
  <2>3. Occurrences(reverse_adjacency[n], m) = 0 <=> m \notin Range(reverse_adjacency[n])
    BY <1>2, PlacesType
  <2> QED BY <2>1, <2>2, <2>3
<1> QED BY <1>1, <1>4, <1>5

LEMMA Frame ==
  ASSUME UNCHANGED graph
  PROVE  /\ modules' = modules /\ asked' = asked /\ adjacency' = adjacency /\ reverse_adjacency' = reverse_adjacency
         /\ Mirror' <=> Mirror
         /\ \A edges, n : Reached(edges, n)' = Reached(edges, n)
         /\ \A n : InDegree(n)' = InDegree(n)
<1>1. modules' = modules /\ asked' = asked /\ adjacency' = adjacency /\ reverse_adjacency' = reverse_adjacency
  BY DEF graph
<1>2. Mirror' <=> Mirror
  BY <1>1, Zenon DEF Mirror
<1>3. \A edges, n : Reached(edges, n)' = Reached(edges, n)
  BY <1>1, Zenon DEF Reached
<1>4. \A n : InDegree(n)' = InDegree(n)
  BY <1>1, Zenon DEF InDegree
<1> QED BY <1>1, <1>2, <1>3, <1>4

\* An edge from what is sought leads to what is sought.
LEMMA SoughtClosed ==
  ASSUME Scalars, GraphInv, Mirror, root \in modules, phase \in Walks, NEW n \in Sought
  PROVE  n \in modules /\ Range(EdgesFrom(n)) \subseteq Sought
<1>1. /\ \A e \in asked : e[1] \in modules /\ e[2] \in modules
      /\ \A a, b \in Name : <<a, b>> \in asked <=> a \in Range(reverse_adjacency[b]) /\ b \in Range(adjacency[a])
      /\ \A a, b \in Name : a \in Range(reverse_adjacency[b]) <=> b \in Range(adjacency[a])
  BY AskedEdges DEF Scalars
<1>2. modules \subseteq Name
  BY DEF Scalars
<1>3. Reached(asked, root) \subseteq modules /\ Closed(asked, Reached(asked, root))
  BY <1>1, ReachedClosed
<1>4. n \in modules
  BY <1>3 DEF Sought
<1>5. adjacency[n] \in Seq(modules) /\ reverse_adjacency[n] \in Seq(modules)
  BY <1>2, <1>4 DEF GraphInv
<1>6. CASE phase = "to_dependents"
  <2>1. EdgesFrom(n) = adjacency[n] /\ Sought = Reached(asked, root)
    BY <1>6 DEF EdgesFrom, Sought
  <2>2. ASSUME NEW m \in Range(adjacency[n]) PROVE m \in Reached(asked, root)
    <3>1. m \in modules
      BY <1>5, RangeOfSeq
    <3>2. <<n, m>> \in asked
      BY <1>1, <1>2, <1>4, <3>1
    <3>3. \A e \in asked : e[1] \in Reached(asked, root) => e[2] \in Reached(asked, root)
      BY <1>3 DEF Closed
    <3> QED BY <2>1, <3>2, <3>3
  <2> QED BY <1>4, <2>1, <2>2
<1>7. CASE phase = "to_dependencies"
  <2>1. EdgesFrom(n) = reverse_adjacency[n] /\ Sought = {m \in modules : root \in Reached(asked, m)}
    BY <1>7 DEF EdgesFrom, Sought
  <2>2. ASSUME NEW m \in Range(reverse_adjacency[n]) PROVE m \in modules /\ root \in Reached(asked, m)
    <3>1. m \in modules
      BY <1>5, RangeOfSeq
    <3>2. <<m, n>> \in asked
      BY <1>1, <1>2, <1>4, <3>1
    <3>3. m \in Reached(asked, m) /\ Closed(asked, Reached(asked, m))
      BY <1>1, <3>1, ReachedClosed
    <3>4. \A e \in asked : e[1] \in Reached(asked, m) => e[2] \in Reached(asked, m)
      BY <3>3 DEF Closed
    <3>5. n \in Reached(asked, m)
      BY <3>2, <3>3, <3>4
    <3>6. Reached(asked, n) \subseteq Reached(asked, m)
      BY <1>1, <3>1, <3>5, ReachedOn
    <3> QED BY <2>1, <3>1, <3>6
  <2> QED BY <1>4, <2>1, <2>2
<1> QED BY <1>6, <1>7 DEF Walks

\* The last entry of a list and the others are its entries.
LEMMA FrontLast ==
  ASSUME NEW T, NEW list \in Seq(T), list # <<>>
  PROVE  Front(list) \in Seq(T) /\ Last(list) \in T /\ Range(list) = Range(Front(list)) \union {Last(list)}
<1> DEFINE N == Len(list)
           f == Front(list)
<1>1. N \in Nat /\ N # 0 /\ DOMAIN list = 1 .. N /\ 1 .. N = (1 .. N - 1) \union {N}
  <2>1. N \in Nat /\ N # 0 /\ DOMAIN list = 1 .. N
    BY EmptySeq, LenProperties
  <2> QED BY <2>1
<1>2. f \in Seq(T) /\ DOMAIN f = 1 .. N - 1 /\ \A i \in 1 .. N - 1 : f[i] = list[i]
  BY <1>1 DEF Front
<1>3. list[N] \in T
  BY <1>1, ElementOfSeq
<1> HIDE DEF f, N
<1>4. Range(list) = Range(f) \union {list[N]}
  BY <1>1, <1>2 DEF Range
<1> QED BY <1>2, <1>3, <1>4 DEF f, N, Last

LEMMA WalkKept ==
  ASSUME Scalars, GraphInv, RestInv, WalkInv, [Next]_vars
  PROVE  WalkInv'
<1>1. CASE phase' \notin Walks
  BY <1>1 DEF WalkInv
<1>2. ASSUME NEW n \in Name, NEW walk \in Walks, StartClosure(n, walk) PROVE WalkInv'
  <2>1. UNCHANGED graph /\ root' = n /\ stack' = <<n>> /\ visited' = visited /\ phase = "idle" /\ phase' \in Walks
    BY <1>2 DEF StartClosure, Idle
  <2>2. visited' = {}
    BY <2>1 DEF RestInv, Walks
  <2>3. Range(stack') = {n}
    BY <2>1 DEF Range
  <2>4. ASSUME n \in modules PROVE n \in Sought'
    <3>1. \A e \in asked : e[2] \in modules
      BY AskedEdges DEF Scalars
    <3>2. n \in Reached(asked, n)
      BY <2>4, <3>1, ReachedClosed
    <3>3. n \in Reached(asked, n)' /\ n \in modules' /\ asked' = asked
      BY <2>1, <2>4, <3>2, Frame
    <3> QED BY <2>1, <3>3 DEF Sought
  <2>5. modules' = modules
    BY <2>1, Frame
  <2> QED BY <2>1, <2>2, <2>3, <2>4, <2>5 DEF WalkInv
<1>3. ASSUME Visit PROVE WalkInv'
  <2> DEFINE n == Last(stack)
             L == EdgesFrom(n)
             S == {i \in DOMAIN L : L[i] \notin visited \union {n}}
             P == Picked(L, S)
             All == visited \union Range(stack)
  <2>1. /\ UNCHANGED graph /\ UNCHANGED <<phase, root>> /\ phase \in Walks /\ stack # <<>>
        /\ \/ n \in visited /\ stack' = Front(stack) /\ visited' = visited
           \/ visited' = visited \union {n} /\ stack' = Front(stack) \o P
    BY <1>3 DEF Visit
  <2>2. stack \in Seq(Name) /\ visited \subseteq Name /\ modules \subseteq Name
    BY DEF RestInv, Scalars
  <2>3. n \in Name /\ Front(stack) \in Seq(Name) /\ Range(stack) = Range(Front(stack)) \union {n}
    BY <2>1, <2>2, FrontLast
  <2>4. L \in Seq(Name)
    <3>1. L \in Seq(modules)
      BY <2>3 DEF EdgesFrom, GraphInv
    <3> QED BY <2>2, <3>1, SeqMonotonic
  <2>5. P \in Seq(Name) /\ Range(P) = {L[i] : i \in S}
    <3>1. S \subseteq DOMAIN L
      OBVIOUS
    <3> HIDE DEF S, L, n
    <3> QED BY <2>4, <3>1, PickedFacts
  <2>6. Range(L) \subseteq visited \union {n} \union Range(P) /\ Range(P) \subseteq Range(L)
    BY <2>5 DEF Range
  <2> HIDE DEF P, S, L, n
  <2>7. Range(Front(stack) \o P) = Range(Front(stack)) \union Range(P)
    BY <2>3, <2>5, RangeConcatenation
  <2>8. /\ visited' \subseteq visited \union {n}
        /\ All \subseteq visited' \union Range(stack') /\ visited' \union Range(stack') \subseteq All \union Range(L)
        /\ (n \in visited' /\ n \notin visited => Range(L) \subseteq visited' \union Range(stack'))
    BY <2>1, <2>3, <2>6, <2>7
  <2>9. /\ root \in All /\ \A k \in visited : Range(EdgesFrom(k)) \subseteq All
        /\ (Mirror /\ root \in modules => All \subseteq Sought)
    BY <2>1 DEF WalkInv
  <2>10. \A k : EdgesFrom(k)' = EdgesFrom(k)
    BY <2>1, Frame DEF EdgesFrom
  <2>11. modules' = modules /\ (Mirror' <=> Mirror) /\ Sought' = Sought
    BY <2>1, Frame DEF Sought
  <2>12. root' \in visited' \union Range(stack')
    BY <2>1, <2>8, <2>9
  <2>13. ASSUME NEW k \in visited' PROVE Range(EdgesFrom(k)') \subseteq visited' \union Range(stack')
    <3>1. CASE k \in visited
      BY <2>8, <2>9, <2>10, <3>1
    <3>2. CASE k \notin visited
      <4>1. k = n
        BY <2>8, <3>2
      <4> QED BY <2>8, <2>10, <3>2, <4>1 DEF L
    <3> QED BY <3>1, <3>2
  <2>14. ASSUME Mirror', root' \in modules' PROVE visited' \union Range(stack') \subseteq Sought'
    <3>1. Mirror /\ root \in modules /\ All \subseteq Sought
      BY <2>1, <2>9, <2>11, <2>14
    <3>2. n \in Sought
      BY <2>3, <3>1
    <3>3. Range(L) \subseteq Sought
      BY <2>1, <3>1, <3>2, SoughtClosed DEF L
    <3> QED BY <2>8, <2>11, <3>1, <3>3
  <2> QED BY <2>12, <2>13, <2>14 DEF WalkInv
<1>4. CASE UNCHANGED vars
  <2>1. UNCHANGED graph /\ UNCHANGED <<phase, root, visited, stack>>
    BY <1>4 DEF vars, dfs
  <2>2. \A k : EdgesFrom(k)' = EdgesFrom(k)
    BY <2>1, Frame DEF EdgesFrom
  <2>3. modules' = modules /\ (Mirror' <=> Mirror) /\ Sought' = Sought
    BY <2>1, Frame DEF Sought
  <2> QED BY <2>1, <2>2, <2>3 DEF WalkInv
<1>5. CASE \E n \in Name : AddModule(n)
  <2>1. phase' = "idle"
    BY <1>5 DEF AddModule, Idle
  <2> QED BY <1>1, <2>1 DEF Walks
<1>6. CASE \E from, to \in Name : AddDependency(from, to)
  <2>1. phase' = "idle"
    BY <1>6 DEF AddDependency, Idle
  <2> QED BY <1>1, <2>1 DEF Walks
<1>7. CASE \E files \in FileLists : BuildGraph(files)
  <2>1. phase' = "idle"
    BY <1>7 DEF BuildGraph, Idle
  <2> QED BY <1>1, <2>1 DEF Walks
<1>8. CASE StartOrder \/ Pop \/ Decrement \/ EndOrder \/ EndClosure \/ Return
  <2>1. phase' \notin {"to_dependencies", "to_dependents"}
    BY <1>8 DEF StartOrder, Pop, Decrement, EndOrder, EndClosure, Return
  <2> QED BY <1>1, <2>1 DEF Walks
<1> QED BY <1>2, <1>3, <1>4, <1>5, <1>6, <1>7, <1>8 DEF Next, Walk

LEMMA ClosuresKept ==
  ASSUME Scalars, GraphInv, WalkInv, ClosuresExact, [Next]_vars
  PROVE  ClosuresExact'
<1>1. CASE phase' \notin {"dependencies", "dependents"}
  BY <1>1 DEF ClosuresExact
<1>2. CASE UNCHANGED vars
  <2>1. UNCHANGED graph /\ UNCHANGED <<phase, root, visited>>
    BY <1>2 DEF vars, dfs
  <2>2. modules' = modules /\ asked' = asked /\ (Mirror' <=> Mirror) /\ \A n : Reached(asked, n)' = Reached(asked, n)
    BY <2>1, Frame
  <2>3. /\ {m \in modules : root \in Reached(asked, m)}' = {m \in modules : root \in Reached(asked, m)}
        /\ Reached(asked, root)' = Reached(asked, root)
    BY <2>1, <2>2
  <2> QED BY <2>1, <2>2, <2>3 DEF ClosuresExact
<1>3. CASE EndClosure
  <2>1. /\ UNCHANGED graph /\ root' = root /\ visited' = visited \ {root} /\ phase \in Walks /\ stack = <<>>
        /\ phase' = IF phase = "to_dependencies" THEN "dependencies" ELSE "dependents"
    BY <1>3 DEF EndClosure
  <2>2. modules' = modules /\ asked' = asked /\ (Mirror' <=> Mirror) /\ \A n : Reached(asked, n)' = Reached(asked, n)
    BY <2>1, Frame
  <2>3. SUFFICES ASSUME Mirror, root \in modules PROVE visited = Sought
    <3>1. CASE phase = "to_dependencies"
      <4>1. phase' = "dependencies"
        BY <2>1, <3>1
      <4>2. Sought = {m \in modules : root \in Reached(asked, m)}
        BY <3>1 DEF Sought
      <4>3. {m \in modules : root \in Reached(asked, m)}' = {m \in modules : root \in Reached(asked, m)}
        BY <2>1, <2>2
      <4> QED BY <2>1, <2>2, <2>3, <4>1, <4>2, <4>3 DEF ClosuresExact
    <3>2. CASE phase = "to_dependents"
      <4>1. phase' = "dependents"
        BY <2>1, <3>2
      <4>2. Sought = Reached(asked, root)
        BY <3>2 DEF Sought
      <4>3. Reached(asked, root)' = Reached(asked, root)
        BY <2>1, <2>2
      <4> QED BY <2>1, <2>2, <2>3, <4>1, <4>2, <4>3 DEF ClosuresExact
    <3> QED BY <2>1, <3>1, <3>2 DEF Walks
  <2>4. Range(stack) = {}
    BY <2>1 DEF Range
  <2>5. root \in visited /\ visited \subseteq Sought /\ \A n \in visited : Range(EdgesFrom(n)) \subseteq visited
    BY <2>1, <2>3, <2>4 DEF WalkInv
  <2>6. /\ \A e \in asked : e[1] \in modules /\ e[2] \in modules /\ e = <<e[1], e[2]>>
        /\ \A a, b \in Name : <<a, b>> \in asked => a \in Range(reverse_adjacency[b]) /\ b \in Range(adjacency[a])
        /\ modules \subseteq Name
    BY AskedEdges DEF Scalars
  <2>7. \A e \in asked : e[1] \in Range(reverse_adjacency[e[2]]) /\ e[2] \in Range(adjacency[e[1]])
    BY <2>6
  <2>8. visited \subseteq modules
    BY <2>3, <2>5, <2>6, SoughtClosed, <2>1
  <2>9. CASE phase = "to_dependents"
    <3>1. \A n : EdgesFrom(n) = adjacency[n]
      BY <2>9 DEF EdgesFrom
    <3>2. Closed(asked, visited)
      BY <2>5, <2>7, <3>1 DEF Closed
    <3>3. Reached(asked, root) \subseteq visited
      BY <2>5, <2>8, <3>2, ReachedInside
    <3> QED BY <2>5, <2>9, <3>3 DEF Sought
  <2>10. CASE phase = "to_dependencies"
    <3>1. \A n : EdgesFrom(n) = reverse_adjacency[n]
      BY <2>10 DEF EdgesFrom
    <3>2. Closed(asked, modules \ visited)
      BY <2>5, <2>6, <2>7, <3>1 DEF Closed
    <3>3. ASSUME NEW m \in modules, root \in Reached(asked, m), m \notin visited PROVE FALSE
      <4>1. Reached(asked, m) \subseteq modules \ visited
        BY <3>2, <3>3, ReachedInside
      <4> QED BY <2>5, <3>3, <4>1
    <3> QED BY <2>5, <2>10, <3>3 DEF Sought
  <2> QED BY <2>1, <2>9, <2>10 DEF Walks
<1>4. CASE \E n \in Name : AddModule(n)
  BY <1>1, <1>4 DEF AddModule, Idle
<1>5. CASE \E from, to \in Name : AddDependency(from, to)
  BY <1>1, <1>5 DEF AddDependency, Idle
<1>6. CASE \E files \in FileLists : BuildGraph(files)
  <2>1. phase' = "idle"
    BY <1>6 DEF BuildGraph, Idle
  <2> QED BY <1>1, <2>1
<1>7. CASE StartOrder \/ Pop \/ Decrement \/ EndOrder \/ Visit \/ Return
  BY <1>1, <1>7 DEF StartOrder, Pop, Decrement, EndOrder, Visit, Return, Walks
<1>8. CASE \E n \in Name, walk \in Walks : StartClosure(n, walk)
  BY <1>1, <1>8 DEF StartClosure, Walks
<1> QED BY <1>2, <1>3, <1>4, <1>5, <1>6, <1>7, <1>8 DEF Next, Walk

---------------------------------------------------------------------------
(* The order: how often a name is counted down, and what that says.        *)

LEMMA Counts ==
  ASSUME TypeOK, GraphInv, RestInv, NEW n \in modules
  PROVE  /\ Left(n) \in Nat /\ Done(n) \in Int /\ Done(n) < UsizeMax
         /\ Done(n) = Cardinality(Entries(adjacency, modules, n)) - Left(n)
         /\ IsFiniteSet(modules \ Range(result))
         /\ Cardinality(Entries(adjacency, modules, n)) \in Nat
<1>1. n \in Name /\ IsFiniteSet(modules)
  BY DEF TypeOK, GraphInv
<1>2. /\ \A m \in modules : IsFiniteSet(Places(adjacency[m], n))
      /\ Cardinality(Entries(adjacency, modules, n)) \in Nat
      /\ Cardinality(Entries(adjacency, modules, n)) < UsizeMax /\ UsizeMax \in Nat
  BY <1>1, Degrees
<1>3. IsFiniteSet(modules \ Range(result))
  BY <1>1, FS_Difference
<1>4. \A m \in modules \ Range(result) : IsFiniteSet(Places(adjacency[m], n))
  BY <1>2
<1>5. Cardinality(Entries(adjacency, modules \ Range(result), n)) \in Nat
  BY <1>3, <1>4, EntriesFinite
<1>6. dependents \in Seq(modules)
  BY DEF RestInv
<1>7. Occurrences(dependents, n) \in Nat
  BY <1>6, PlacesType
<1>8. Left(n) \in Nat
  BY <1>5, <1>7 DEF Left
<1>9. Done(n) = Cardinality(Entries(adjacency, modules, n)) - Left(n)
  BY DEF Done
<1> QED BY <1>2, <1>3, <1>8, <1>9

\* A list that holds each of these exactly once.
LEMMA Listing ==
  ASSUME NEW Z, IsFiniteSet(Z), NEW list \in SetToSeqs(Z)
  PROVE  list \in Seq(Z) /\ Range(list) = Z /\ IsInjective(list)
<1> DEFINE C == Cardinality(Z)
           D == 1 .. C
<1>1. list \in [D -> Z] /\ \A i, j \in D : i # j => list[i] # list[j]
  BY DEF SetToSeqs
<1>2. C \in Nat
  BY FS_CardinalityType
<1>3. IsFiniteSet(D) /\ Cardinality(D) = C
  BY ONLY <1>2, FS_Interval
<1>4. IsInjective(list)
  BY <1>1 DEF IsInjective
<1> HIDE DEF D
<1>5. list \in Injection(D, Z)
  BY <1>1, <1>4 DEF Injection
<1>6. list \in Surjection(D, Z)
  BY <1>3, <1>5, FS_Injection
<1>7. Range(list) = Z
  BY <1>1, <1>6 DEF Surjection, Range
<1>8. list \in Seq(Z)
  BY <1>1, <1>2 DEF D
<1> QED BY <1>4, <1>7, <1>8

LEMMA QueueByStart ==
  ASSUME Scalars, TypeOK, GraphInv, RestInv, StartOrder
  PROVE  QueueInv'
<1>1. /\ UNCHANGED graph /\ in_degree' = [n \in Name |-> InDegree(n)]
      /\ queue' \in SetToSeqs({n \in modules : InDegree(n) = 0})
      /\ result' = <<>> /\ dependents' = <<>>
  BY DEF StartOrder, RestInv, Idle, InDegree, InDegree0
<1>2. modules \subseteq Name /\ IsFiniteSet(modules)
  BY DEF Scalars, GraphInv
<1>3. /\ queue' \in Seq({n \in modules : InDegree(n) = 0}) /\ Range(queue') = {n \in modules : InDegree(n) = 0}
      /\ IsInjective(queue')
  <2> DEFINE Z == {n \in modules : InDegree(n) = 0}
  <2>1. Z \in SUBSET modules
    OBVIOUS
  <2> HIDE DEF Z
  <2>2. IsFiniteSet(Z)
    BY <1>2, <2>1, FS_Subset
  <2>3. queue' \in Seq(Z) /\ Range(queue') = Z /\ IsInjective(queue')
    BY <1>1, <2>2, Listing DEF Z
  <2> QED BY <2>3 DEF Z
<1>4. IsInjective(result' \o queue')
  <2>1. result' \o queue' = queue'
    BY <1>1, <1>3, ConcatEmptySeq
  <2> QED BY <1>3, <2>1
<1>5. Range(result') = {}
  BY <1>1 DEF Range
<1>6. modules' = modules /\ adjacency' = adjacency /\ \A n : InDegree(n)' = InDegree(n)
  BY <1>1, Frame
<1>7. ASSUME NEW n \in modules
      PROVE  /\ Done(n)' = 0 /\ InDegree(n) \in Nat
             /\ in_degree'[n] = InDegree(n) /\ (n \in Range(queue') \union Range(result') <=> InDegree(n) = 0)
  <2>1. Cardinality(Entries(adjacency, modules, n)) \in Nat /\ InDegree(n) \in Nat
    BY <1>2, Degrees
  <2>2. Left(n)' = Cardinality(Entries(adjacency', modules' \ Range(result'), n)) + Occurrences(dependents', n)
    BY DEF Left
  <2>3. modules' \ Range(result') = modules /\ Occurrences(dependents', n) = 0
    BY <1>1, <1>5, <1>6, NoPlaces
  <2>4. Left(n)' = Cardinality(Entries(adjacency, modules, n))
    BY <1>6, <2>1, <2>2, <2>3
  <2>5. Done(n)' = Cardinality(Entries(adjacency', modules', n)) - Left(n)'
    BY DEF Done
  <2> QED BY <1>1, <1>2, <1>3, <1>5, <1>6, <2>1, <2>4, <2>5
<1>8. \A n \in modules' :
         /\ Done(n)' >= 0
         /\ in_degree'[n] = InDegree(n)' - Done(n)' + (IF Done(n)' <= InDegree(n)' THEN 0 ELSE UsizeMax + 1)
         /\ n \in Range(queue') \union Range(result') <=> Done(n)' >= InDegree(n)'
  <2> TAKE n \in modules'
  <2>1. Done(n)' = 0 /\ InDegree(n)' = InDegree(n) /\ InDegree(n) \in Nat
    BY <1>6, <1>7
  <2>2. in_degree'[n] = InDegree(n) /\ (n \in Range(queue') \union Range(result') <=> InDegree(n) = 0)
    BY <1>6, <1>7
  <2> QED BY <2>1, <2>2
<1> QED BY <1>4, <1>8 DEF QueueInv

\* Taking the head of the queue moves it to the end of the result.
LEMMA Popped ==
  ASSUME NEW T, NEW taken \in Seq(T), NEW waiting \in Seq(T), waiting # <<>>
  PROVE  /\ Append(taken, Head(waiting)) \o Tail(waiting) = taken \o waiting
         /\ Range(waiting) = Range(Tail(waiting)) \union {Head(waiting)}
<1> DEFINE h == Head(waiting)
           t == Tail(waiting)
<1>1. h \in T /\ t \in Seq(T) /\ Len(t) = Len(waiting) - 1 /\ \A i \in 1 .. Len(t) : t[i] = waiting[i + 1]
  BY HeadTailProperties
<1>2. <<h>> \in Seq(T)
  BY <1>1
<1>3. <<h>> \o t = waiting
  BY <1>1
<1> HIDE DEF h, t
<1>4. Append(taken, h) = taken \o <<h>>
  BY <1>1, AppendIsConcat
<1>5. (taken \o <<h>>) \o t = taken \o (<<h>> \o t)
  BY <1>1, <1>2, ConcatAssociative
<1>6. Range(<<h>> \o t) = Range(<<h>>) \union Range(t)
  BY <1>1, <1>2, RangeConcatenation
<1>7. Range(<<h>>) = {h}
  BY DEF Range
<1> QED BY <1>3, <1>4, <1>5, <1>6, <1>7 DEF h, t

\* In a list without repetitions, no entry of one part is one of the other.
LEMMA PartsDiffer ==
  ASSUME NEW T, NEW s \in Seq(T), NEW t \in Seq(T), IsInjective(s \o t)
  PROVE  \A x : ~(x \in Range(s) /\ x \in Range(t))
<1> SUFFICES ASSUME NEW x, x \in Range(s), x \in Range(t) PROVE FALSE
  OBVIOUS
<1>1. /\ s \o t \in Seq(T) /\ Len(s \o t) = Len(s) + Len(t) /\ Len(s) \in Nat /\ Len(t) \in Nat
      /\ \A i \in 1 .. Len(s) + Len(t) : (s \o t)[i] = IF i <= Len(s) THEN s[i] ELSE t[i - Len(s)]
  BY ConcatProperties, LenProperties
<1>2. PICK i \in 1 .. Len(s) : s[i] = x
  BY DEF Range
<1>3. PICK j \in 1 .. Len(t) : t[j] = x
  BY DEF Range
<1>4. DOMAIN (s \o t) = 1 .. Len(s) + Len(t)
  BY <1>1, LenProperties
<1> DEFINE u == s \o t
<1>5. u[i] = x /\ i \in DOMAIN u
  BY <1>1, <1>2, <1>4
<1>6. u[Len(s) + j] = x /\ Len(s) + j \in DOMAIN u
  BY <1>1, <1>3, <1>4
<1>7. i # Len(s) + j
  BY <1>1
<1> QED BY <1>5, <1>6, <1>7 DEF IsInjective

LEMMA InjectiveAppend ==
  ASSUME NEW T, NEW s \in Seq(T), IsInjective(s), NEW x \in T, x \notin Range(s)
  PROVE  IsInjective(Append(s, x))
<1> DEFINE u == Append(s, x)
<1>1. /\ Len(s) \in Nat /\ DOMAIN s = 1 .. Len(s) /\ DOMAIN u = 1 .. Len(s) + 1
      /\ \A i \in 1 .. Len(s) : u[i] = s[i]
      /\ u[Len(s) + 1] = x
  BY AppendProperties
<1>2. \A i \in 1 .. Len(s) : s[i] # x
  BY <1>1 DEF Range
<1>3. \A i, j \in 1 .. Len(s) : s[i] = s[j] => i = j
  BY <1>1 DEF IsInjective
<1>4. \A i \in DOMAIN u : i \in 1 .. Len(s) \/ i = Len(s) + 1
  BY <1>1
<1> HIDE DEF u
<1> QED BY <1>1, <1>2, <1>3, <1>4 DEF IsInjective, u

\* What an action that takes a module out leaves to be counted down.
LEMMA PopFacts ==
  ASSUME Scalars, TypeOK, GraphInv, RestInv, QueueInv, Pop
  PROVE  /\ UNCHANGED graph /\ phase = "order" /\ phase' = "order" /\ in_degree' = in_degree /\ dependents = <<>>
         /\ Head(queue) \in modules /\ Head(queue) \in Range(queue) /\ Head(queue) \notin Range(result)
         /\ result' = Append(result, Head(queue)) /\ dependents' = adjacency[Head(queue)]
         /\ Range(result') = Range(result) \union {Head(queue)}
         /\ Range(queue') \union Range(result') = Range(queue) \union Range(result)
         /\ IsInjective(result' \o queue')
         /\ \A n \in modules : Left(n)' = Left(n) /\ Done(n)' = Done(n)
<1> DEFINE h == Head(queue)
<1>1. /\ UNCHANGED graph /\ in_degree' = in_degree /\ phase = "order" /\ phase' = "order"
      /\ dependents = <<>> /\ queue # <<>>
      /\ result' = Append(result, h) /\ queue' = Tail(queue) /\ dependents' = adjacency[h]
  BY DEF Pop
<1>2. queue \in Seq(modules) /\ result \in Seq(modules) /\ modules \subseteq Name /\ IsFiniteSet(modules)
  BY DEF RestInv, Scalars, GraphInv
<1>3. h \in modules
  BY <1>1, <1>2, HeadTailProperties
<1>4. /\ Append(result, h) \o Tail(queue) = result \o queue
      /\ Range(queue) = Range(Tail(queue)) \union {h}
  BY <1>1, <1>2, Popped
<1>5. IsInjective(result \o queue)
  BY <1>1 DEF QueueInv
<1>6. h \notin Range(result)
  BY <1>2, <1>4, <1>5, PartsDiffer
<1>7. Range(result') = Range(result) \union {h}
  BY <1>1, <1>2, <1>3, AppendRange
<1>8. IsInjective(result' \o queue')
  BY <1>1, <1>4, <1>5
<1>9. ASSUME NEW n \in modules PROVE Left(n)' = Left(n) /\ Done(n)' = Done(n)
  <2>1. adjacency' = adjacency /\ modules' = modules
    BY <1>1, Frame
  <2>2. modules' \ Range(result') = (modules \ Range(result)) \ {h}
    BY <1>7, <2>1
  <2>3. \A m \in modules \ Range(result) : IsFiniteSet(Places(adjacency[m], n))
    BY <1>2, Degrees
  <2>4. IsFiniteSet(modules \ Range(result))
    BY <1>2, FS_Difference
  <2>5. h \in modules \ Range(result)
    BY <1>3, <1>6
  <2>6. Cardinality(Entries(adjacency, modules \ Range(result), n))
          = Cardinality(Entries(adjacency, (modules \ Range(result)) \ {h}, n)) + Occurrences(adjacency[h], n)
    BY <2>3, <2>4, <2>5, EntriesSplit
  <2>7. Occurrences(dependents, n) = 0
    BY <1>1, NoPlaces
  <2>8. Left(n)' = Cardinality(Entries(adjacency', modules' \ Range(result'), n)) + Occurrences(dependents', n)
    BY DEF Left
  <2>9. Left(n)' = Cardinality(Entries(adjacency, modules \ Range(result), n))
    BY <1>1, <2>1, <2>2, <2>6, <2>8
  <2>10. Cardinality(Entries(adjacency, modules \ Range(result), n)) \in Nat
    BY <2>3, <2>4, EntriesFinite
  <2>11. Left(n) = Cardinality(Entries(adjacency, modules \ Range(result), n))
    BY <2>7, <2>10 DEF Left
  <2>12. Done(n)' = Cardinality(Entries(adjacency', modules', n)) - Left(n)'
    BY DEF Done
  <2>13. Done(n) = Cardinality(Entries(adjacency, modules, n)) - Left(n)
    BY DEF Done
  <2> QED BY <2>1, <2>9, <2>11, <2>12, <2>13
<1> QED BY <1>1, <1>3, <1>4, <1>6, <1>7, <1>8, <1>9

LEMMA QueueByPop ==
  ASSUME Scalars, TypeOK, GraphInv, RestInv, QueueInv, Pop
  PROVE  QueueInv'
<1>1. /\ UNCHANGED graph /\ phase = "order" /\ in_degree' = in_degree /\ IsInjective(result' \o queue')
      /\ Range(queue') \union Range(result') = Range(queue) \union Range(result)
      /\ \A n \in modules : Done(n)' = Done(n)
  BY PopFacts
<1>2. modules' = modules /\ \A n : InDegree(n)' = InDegree(n)
  BY <1>1, Frame
<1>3. ASSUME NEW n \in modules'
      PROVE  /\ Done(n)' >= 0
             /\ in_degree'[n] = InDegree(n)' - Done(n)' + (IF Done(n)' <= InDegree(n)' THEN 0 ELSE UsizeMax + 1)
             /\ n \in Range(queue') \union Range(result') <=> Done(n)' >= InDegree(n)'
  <2>1. /\ Done(n) >= 0
        /\ in_degree[n] = InDegree(n) - Done(n) + (IF Done(n) <= InDegree(n) THEN 0 ELSE UsizeMax + 1)
        /\ n \in Range(queue) \union Range(result) <=> Done(n) >= InDegree(n)
    BY <1>1, <1>2 DEF QueueInv
  <2>2. Done(n)' = Done(n) /\ InDegree(n)' = InDegree(n) /\ in_degree'[n] = in_degree[n]
    BY <1>1, <1>2
  <2> QED BY ONLY <1>1, <2>1, <2>2
<1> QED BY <1>1, <1>3 DEF QueueInv

\* What counting one name down does to the counts.
LEMMA DecrementFacts ==
  ASSUME Scalars, TypeOK, GraphInv, RestInv, UNCHANGED graph, result' = result,
         dependents # <<>>, dependents' = Tail(dependents)
  PROVE  \A n \in modules :
           LET one == IF Head(dependents) = n THEN 1 ELSE 0
           IN  Occurrences(dependents, n) = Occurrences(dependents', n) + one /\ Done(n)' = Done(n) + one
<1>1. adjacency' = adjacency /\ modules' = modules
  BY Frame
<1> SUFFICES ASSUME NEW n \in modules
             PROVE  LET one == IF Head(dependents) = n THEN 1 ELSE 0
                    IN  Occurrences(dependents, n) = Occurrences(dependents', n) + one /\ Done(n)' = Done(n) + one
  OBVIOUS
<1> DEFINE one == IF Head(dependents) = n THEN 1 ELSE 0
           Others == Cardinality(Entries(adjacency, modules \ Range(result), n))
           Every == Cardinality(Entries(adjacency, modules, n))
<1>2. dependents \in Seq(modules) /\ Tail(dependents) \in Seq(modules)
  BY HeadTailProperties DEF RestInv
<1>3. Occurrences(dependents, n) = Occurrences(dependents', n) + one
  BY <1>2, TailOccurrences
<1>4. Occurrences(dependents, n) \in Nat /\ Occurrences(dependents', n) \in Nat
  BY <1>2, PlacesType
<1>5. \A m \in modules : IsFiniteSet(Places(adjacency[m], n))
  BY Degrees DEF Scalars
<1>6. IsFiniteSet(modules \ Range(result)) /\ Every \in Nat
  BY Counts
<1>7. Others \in Nat
  BY <1>5, <1>6, EntriesFinite
<1>8. Left(n) = Others + Occurrences(dependents, n) /\ Done(n) = Every - Left(n)
  BY DEF Left, Done
<1>9. Left(n)' = Cardinality(Entries(adjacency', modules' \ Range(result'), n)) + Occurrences(dependents', n)
  BY DEF Left
<1>10. Done(n)' = Cardinality(Entries(adjacency', modules', n)) - Left(n)'
  BY DEF Done
<1>11. Left(n)' = Others + Occurrences(dependents', n) /\ Done(n)' = Every - Left(n)'
  BY <1>1, <1>9, <1>10
<1>12. one \in Nat
  OBVIOUS
<1> HIDE DEF one, Others, Every
<1>13. Done(n)' = Done(n) + one
  BY <1>3, <1>4, <1>6, <1>7, <1>8, <1>11, <1>12
<1> QED BY <1>3, <1>13 DEF one

LEMMA QueueByDecrement ==
  ASSUME Scalars, TypeOK, GraphInv, RestInv, QueueInv, Decrement
  PROVE  QueueInv'
<1>1. SUFFICES ASSUME phase' # "panic" PROVE QueueInv'
  BY DEF QueueInv
<1>2. /\ UNCHANGED graph /\ phase = "order" /\ dependents # <<>> /\ result' = result /\ dependents' = Tail(dependents)
  BY <1>1 DEF Decrement
<1>3. queue \in Seq(modules) /\ result \in Seq(modules) /\ dependents \in Seq(modules) /\ modules \subseteq Name
  BY DEF RestInv, Scalars
<1>4. PICK h \in modules : h = Head(dependents)
  BY <1>2, <1>3, HeadTailProperties
<1>5. \/ /\ in_degree[h] > 0 /\ in_degree' = [in_degree EXCEPT ![h] = @ - 1]
         /\ queue' = IF in_degree[h] - 1 = 0 THEN Append(queue, h) ELSE queue
      \/ in_degree[h] = 0 /\ in_degree' = [in_degree EXCEPT ![h] = UsizeMax] /\ queue' = queue
  BY <1>1, <1>4 DEF Decrement, Ready
<1>6. modules' = modules /\ \A n : InDegree(n)' = InDegree(n)
  BY <1>2, Frame
<1>7. \A n \in modules : /\ Done(n) \in Int /\ Done(n) < UsizeMax /\ Done(n) >= 0
                         /\ InDegree(n) \in Nat /\ InDegree(n) < UsizeMax /\ UsizeMax \in Nat
  BY <1>2, <1>3, Counts, Degrees DEF QueueInv
<1>8. \A n \in modules :
         /\ in_degree[n] = InDegree(n) - Done(n) + (IF Done(n) <= InDegree(n) THEN 0 ELSE UsizeMax + 1)
         /\ n \in Range(queue) \union Range(result) <=> Done(n) >= InDegree(n)
  BY <1>2 DEF QueueInv
<1>9. \A n \in modules : Done(n)' = Done(n) + (IF h = n THEN 1 ELSE 0)
  BY <1>2, <1>4, DecrementFacts
<1>10. Done(h)' < UsizeMax
  <2>1. \A m \in modules : IsFiniteSet(Places(adjacency[m], h))
    BY <1>3, <1>4, Degrees
  <2>2. Cardinality(Entries(adjacency, modules, h)) < UsizeMax /\ Cardinality(Entries(adjacency, modules, h)) \in Nat
    BY <1>3, <1>4, Degrees
  <2>3. Left(h) \in Nat /\ Done(h) = Cardinality(Entries(adjacency, modules, h)) - Left(h)
    BY <1>4, Counts
  <2>4. Left(h) >= 1
    <3>1. Occurrences(dependents, h) = Occurrences(dependents', h) + 1
      BY <1>2, <1>4, DecrementFacts
    <3>2. Tail(dependents) \in Seq(modules)
      BY <1>2, <1>3, HeadTailProperties
    <3>3. Occurrences(dependents', h) \in Nat
      BY <1>2, <3>2, PlacesType
    <3>4. IsFiniteSet(modules \ Range(result))
      BY <1>4, Counts
    <3>5. Cardinality(Entries(adjacency, modules \ Range(result), h)) \in Nat
      BY <2>1, <3>4, EntriesFinite
    <3> QED BY <3>1, <3>3, <3>5 DEF Left
  <2>5. Done(h)' = Done(h) + 1
    BY <1>4, <1>9
  <2> QED BY <1>4, <1>7, <2>2, <2>3, <2>4, <2>5
<1>11. in_degree \in [Name -> 0 .. UsizeMax] /\ h \in Name
  BY <1>3, <1>4 DEF RestInv
<1>12. \A n \in modules \ {h} : in_degree'[n] = in_degree[n] /\ Done(n)' = Done(n)
  BY <1>5, <1>3, <1>7, <1>9, <1>11
<1>13. Done(h)' = Done(h) + 1
  BY <1>4, <1>9
<1>14. in_degree'[h] = IF in_degree[h] > 0 THEN in_degree[h] - 1 ELSE UsizeMax
  BY <1>5, <1>11
<1>15. /\ in_degree[h] = InDegree(h) - Done(h) + (IF Done(h) <= InDegree(h) THEN 0 ELSE UsizeMax + 1)
       /\ h \in Range(queue) \union Range(result) <=> Done(h) >= InDegree(h)
       /\ Done(h) \in Int /\ Done(h) >= 0 /\ InDegree(h) \in Nat /\ UsizeMax \in Nat /\ InDegree(h) < UsizeMax
       /\ in_degree[h] \in 0 .. UsizeMax
  BY <1>4, <1>7, <1>8, <1>11
<1>16. in_degree'[h] = InDegree(h) - Done(h)' + (IF Done(h)' <= InDegree(h) THEN 0 ELSE UsizeMax + 1)
  BY ONLY <1>10, <1>13, <1>14, <1>15
<1>17. in_degree[h] = 1 <=> Done(h) < InDegree(h) /\ Done(h)' >= InDegree(h)
  BY ONLY <1>10, <1>13, <1>15
<1>18. /\ in_degree[h] = 1 => queue' = Append(queue, h)
       /\ in_degree[h] # 1 => queue' = queue
  BY <1>5, <1>15
<1>19. CASE in_degree[h] = 1
  <2>1. h \notin Range(queue) \union Range(result)
    BY <1>15, <1>17, <1>19
  <2>2. Range(queue') = Range(queue) \union {h}
    <3>1. Range(Append(queue, h)) = Range(queue) \union {h}
      BY <1>3, <1>4, AppendRange
    <3> QED BY <1>18, <1>19, <3>1
  <2>3. IsInjective(result' \o queue')
    <3> DEFINE s == result \o queue
    <3>1. s \in Seq(modules) /\ Range(s) = Range(result) \union Range(queue)
      BY <1>3, ConcatProperties, RangeConcatenation
    <3>2. IsInjective(s)
      BY <1>2 DEF QueueInv
    <3>3. Append(s, h) = result \o Append(queue, h)
      <4>1. Append(s, h) = s \o <<h>>
        BY <1>4, <3>1, AppendIsConcat
      <4>2. Append(queue, h) = queue \o <<h>>
        BY <1>3, <1>4, AppendIsConcat
      <4>3. <<h>> \in Seq(modules)
        BY <1>4
      <4>4. (result \o queue) \o <<h>> = result \o (queue \o <<h>>)
        BY <1>3, <4>3, ConcatAssociative
      <4> QED BY <4>1, <4>2, <4>4
    <3> HIDE DEF s
    <3>4. IsInjective(Append(s, h))
      BY <1>4, <2>1, <3>1, <3>2, InjectiveAppend
    <3> QED BY <1>2, <1>18, <1>19, <3>3, <3>4
  <2>4. ASSUME NEW n \in modules'
        PROVE  /\ Done(n)' >= 0
               /\ in_degree'[n] = InDegree(n)' - Done(n)' + (IF Done(n)' <= InDegree(n)' THEN 0 ELSE UsizeMax + 1)
               /\ n \in Range(queue') \union Range(result') <=> Done(n)' >= InDegree(n)'
    <3>1. CASE n = h
      BY <1>2, <1>6, <1>13, <1>15, <1>16, <1>17, <1>19, <2>2, <3>1
    <3>2. CASE n # h
      <4>1. n \in modules \ {h} /\ InDegree(n)' = InDegree(n) /\ result' = result
        BY <1>2, <1>6, <3>2
      <4> QED BY <1>7, <1>8, <1>12, <2>2, <4>1
    <3> QED BY <3>1, <3>2
  <2> QED BY <2>3, <2>4 DEF QueueInv
<1>20. CASE in_degree[h] # 1
  <2>1. queue' = queue /\ result' = result
    BY <1>2, <1>18, <1>20
  <2>2. IsInjective(result' \o queue')
    BY <1>2, <2>1 DEF QueueInv
  <2>3. Done(h)' >= InDegree(h) <=> Done(h) >= InDegree(h)
    BY <1>13, <1>15, <1>17, <1>20
  <2>4. ASSUME NEW n \in modules'
        PROVE  /\ Done(n)' >= 0
               /\ in_degree'[n] = InDegree(n)' - Done(n)' + (IF Done(n)' <= InDegree(n)' THEN 0 ELSE UsizeMax + 1)
               /\ n \in Range(queue') \union Range(result') <=> Done(n)' >= InDegree(n)'
    <3>1. CASE n = h
      BY <1>6, <1>13, <1>15, <1>16, <2>1, <2>3, <3>1
    <3>2. CASE n # h
      <4>1. n \in modules \ {h} /\ InDegree(n)' = InDegree(n)
        BY <1>6, <3>2
      <4> QED BY <1>7, <1>8, <1>12, <2>1, <4>1
    <3> QED BY <3>1, <3>2
  <2> QED BY <2>2, <2>4 DEF QueueInv
<1> QED BY <1>19, <1>20
---------------------------------------------------------------------------
(* The order while the maps agree.                                         *)

\* What is waited for, in terms of the list.
LEMMA WaitingFacts ==
  ASSUME GraphInv, NEW n \in Name
  PROVE  /\ Waiting(n) \in SUBSET (1 .. InDegree(n)) /\ IsFiniteSet(Waiting(n)) /\ InDegree(n) \in Nat
         /\ Cardinality(Waiting(n)) \in Nat /\ Cardinality(Waiting(n)) <= InDegree(n)
         /\ Cardinality(1 .. InDegree(n)) = InDegree(n)
         /\ DOMAIN reverse_adjacency[n] = 1 .. InDegree(n)
<1>1. reverse_adjacency[n] \in Seq(modules)
  BY DEF GraphInv
<1>2. InDegree(n) \in Nat /\ DOMAIN reverse_adjacency[n] = 1 .. InDegree(n)
  BY <1>1, LenProperties DEF InDegree
<1>3. Waiting(n) \in SUBSET (1 .. InDegree(n))
  BY <1>2 DEF Waiting
<1>4. IsFiniteSet(1 .. InDegree(n)) /\ Cardinality(1 .. InDegree(n)) = InDegree(n)
  <2>1. InDegree(n) \in Nat
    BY <1>2
  <2> QED BY ONLY <2>1, FS_Interval
<1>5. IsFiniteSet(Waiting(n)) /\ Cardinality(Waiting(n)) <= InDegree(n)
  BY <1>3, <1>4, FS_Subset
<1> QED BY <1>2, <1>3, <1>4, <1>5, FS_CardinalityType

LEMMA OrderByStart ==
  ASSUME Scalars, TypeOK, GraphInv, RestInv, StartOrder
  PROVE  OrderInv'
<1>1. /\ UNCHANGED graph /\ in_degree' = [n \in Name |-> InDegree(n)] /\ result' = <<>> /\ dependents' = <<>>
  BY DEF StartOrder, RestInv, Idle, InDegree, InDegree0
<1>2. modules' = modules /\ reverse_adjacency' = reverse_adjacency /\ \A n : InDegree(n)' = InDegree(n)
  BY <1>1, Frame
<1>3. Range(result') = {} /\ DOMAIN result' = {}
  BY <1>1 DEF Range
<1>4. ASSUME NEW n \in modules'
      PROVE  in_degree'[n] = Cardinality(Waiting(n)') + Occurrences(dependents', n) /\ in_degree'[n] <= InDegree(n)'
  <2>1. n \in Name
    BY <1>2 DEF Scalars
  <2>2. Waiting(n)' = DOMAIN reverse_adjacency[n]
    BY <1>2, <1>3 DEF Waiting
  <2>3. InDegree(n) \in Nat /\ Cardinality(DOMAIN reverse_adjacency[n]) = InDegree(n)
    BY <2>1, WaitingFacts
  <2>4. Occurrences(dependents', n) = 0
    BY <1>1, NoPlaces
  <2>5. in_degree'[n] = InDegree(n) /\ InDegree(n)' = InDegree(n)
    BY <1>1, <1>2, <2>1
  <2>6. Cardinality(Waiting(n)') = InDegree(n)
    BY <2>2, <2>3
  <2> QED BY <2>3, <2>4, <2>5, <2>6
<1> QED BY <1>3, <1>4 DEF OrderInv

\* A name in the queue waits for nothing.
LEMMA QueuedIsReady ==
  ASSUME Scalars, TypeOK, GraphInv, RestInv, QueueInv, OrderInv, phase = "order", Mirror,
         dependents = <<>>, NEW h \in modules, h \in Range(queue)
  PROVE  Waiting(h) = {}
<1>1. h \in Name
  BY DEF Scalars
<1>2. /\ Done(h) >= InDegree(h)
      /\ in_degree[h] = InDegree(h) - Done(h) + (IF Done(h) <= InDegree(h) THEN 0 ELSE UsizeMax + 1)
  BY DEF QueueInv
<1>3. in_degree[h] = Cardinality(Waiting(h)) + Occurrences(dependents, h) /\ in_degree[h] <= InDegree(h)
  BY DEF OrderInv
<1>4. Occurrences(dependents, h) = 0
  BY NoPlaces
<1>5. Done(h) \in Int /\ Done(h) < UsizeMax /\ InDegree(h) \in Nat /\ UsizeMax \in Nat
  BY <1>1, Counts, Degrees
<1>6. Cardinality(Waiting(h)) \in Nat /\ IsFiniteSet(Waiting(h))
  BY <1>1, WaitingFacts
<1>7. Cardinality(Waiting(h)) = 0
  BY ONLY <1>2, <1>3, <1>4, <1>5, <1>6
<1> QED BY <1>6, <1>7, FS_EmptySet

LEMMA OrderByPop ==
  ASSUME Scalars, TypeOK, GraphInv, RestInv, QueueInv, OrderInv, Pop
  PROVE  OrderInv'
<1>1. /\ UNCHANGED graph /\ phase = "order" /\ in_degree' = in_degree /\ dependents = <<>>
      /\ Head(queue) \in modules /\ Head(queue) \in Range(queue) /\ Head(queue) \notin Range(result)
      /\ result' = Append(result, Head(queue)) /\ dependents' = adjacency[Head(queue)]
      /\ Range(result') = Range(result) \union {Head(queue)}
  BY PopFacts
<1>2. PICK h \in modules : h = Head(queue)
  BY <1>1
<1>3. /\ modules' = modules /\ reverse_adjacency' = reverse_adjacency /\ (Mirror' <=> Mirror)
      /\ \A n : InDegree(n)' = InDegree(n)
  BY <1>1, Frame
<1>4. modules \subseteq Name /\ result \in Seq(modules)
  BY DEF Scalars, RestInv
<1> SUFFICES ASSUME Mirror PROVE OrderInv'
  BY <1>3 DEF OrderInv
<1>5. ASSUME NEW n \in modules'
      PROVE  in_degree'[n] = Cardinality(Waiting(n)') + Occurrences(dependents', n) /\ in_degree'[n] <= InDegree(n)'
  <2> DEFINE W == Waiting(n)
             V == Waiting(n)'
             P == Places(reverse_adjacency[n], h)
  <2>1. n \in modules /\ n \in Name /\ h \in Name
    BY <1>3, <1>4
  <2>2. in_degree[n] = Cardinality(W) + Occurrences(dependents, n) /\ in_degree[n] <= InDegree(n)
    BY <1>1, <2>1 DEF OrderInv
  <2>3. Occurrences(dependents, n) = 0
    BY <1>1, NoPlaces
  <2>4. W = V \union P /\ V \intersect P = {}
    BY <1>1, <1>2, <1>3 DEF Waiting, Places
  <2>5. IsFiniteSet(W) /\ Cardinality(W) \in Nat
    BY <2>1, WaitingFacts
  <2>6. Cardinality(P) = Occurrences(adjacency[h], n)
    BY <2>1 DEF Mirror, Occurrences
  <2>7. dependents' = adjacency[h]
    BY <1>1, <1>2
  <2> HIDE DEF W, V, P
  <2>8. V \in SUBSET W /\ P \in SUBSET W
    BY <2>4
  <2>9. IsFiniteSet(V) /\ IsFiniteSet(P) /\ Cardinality(V) \in Nat /\ Cardinality(P) \in Nat
    BY <2>5, <2>8, FS_Subset, FS_CardinalityType
  <2>10. Cardinality(V \intersect P) = 0
    BY <2>4, FS_EmptySet
  <2>11. Cardinality(W) = Cardinality(V) + Cardinality(P) - Cardinality(V \intersect P)
    BY <2>4, <2>9, FS_Union
  <2>12. Cardinality(W) = Cardinality(V) + Occurrences(dependents', n)
    BY <2>6, <2>7, <2>9, <2>10, <2>11
  <2>13. in_degree'[n] = Cardinality(V) + Occurrences(dependents', n)
    BY <1>1, <2>2, <2>3, <2>5, <2>12
  <2> QED BY <1>1, <1>3, <2>2, <2>13 DEF V
<1>6. ASSUME NEW j \in DOMAIN result', NEW i \in DOMAIN reverse_adjacency'[result'[j]]
      PROVE  \E k \in 1 .. j - 1 : result'[k] = reverse_adjacency'[result'[j]][i]
  <2>1. /\ DOMAIN result = 1 .. Len(result) /\ DOMAIN result' = 1 .. Len(result) + 1 /\ Len(result) \in Nat
        /\ \A k \in 1 .. Len(result) : result'[k] = result[k]
        /\ result'[Len(result) + 1] = h
    BY <1>1, <1>2, <1>4, AppendProperties
  <2>2. CASE j \in 1 .. Len(result)
    <3>1. i \in DOMAIN reverse_adjacency[result[j]] /\ result'[j] = result[j]
      BY <1>3, <2>1, <2>2
    <3>2. PICK k \in 1 .. j - 1 : result[k] = reverse_adjacency[result[j]][i]
      BY <1>1, <2>1, <2>2, <3>1 DEF OrderInv
    <3>3. result'[k] = result[k]
      BY <2>1, <2>2
    <3> QED BY <1>3, <3>1, <3>2, <3>3
  <2>3. CASE j = Len(result) + 1
    <3>1. Waiting(h) = {}
      BY <1>1, <1>2, QueuedIsReady
    <3>2. i \in DOMAIN reverse_adjacency[h] /\ result'[j] = h
      BY <1>3, <2>1, <2>3
    <3>3. reverse_adjacency[h][i] \in Range(result)
      BY <3>1, <3>2 DEF Waiting
    <3>4. PICK k \in 1 .. Len(result) : result[k] = reverse_adjacency[h][i]
      BY <2>1, <3>3 DEF Range
    <3>5. k \in 1 .. j - 1 /\ result'[k] = result[k]
      BY <2>1, <2>3
    <3> QED BY <1>3, <3>2, <3>4, <3>5
  <2> QED BY <2>1, <2>2, <2>3
<1> QED BY <1>5, <1>6 DEF OrderInv

LEMMA OrderByDecrement ==
  ASSUME Scalars, TypeOK, GraphInv, RestInv, QueueInv, OrderInv, Decrement
  PROVE  /\ OrderInv'
         /\ Mirror => phase' # "panic" /\ \A n \in Name : in_degree'[n] <= in_degree[n]
<1>1. UNCHANGED graph /\ phase = "order" /\ dependents # <<>> /\ result' = result
  BY DEF Decrement
<1>2. /\ modules' = modules /\ reverse_adjacency' = reverse_adjacency /\ (Mirror' <=> Mirror)
      /\ \A n : InDegree(n)' = InDegree(n)
  BY <1>1, Frame
<1> SUFFICES ASSUME Mirror
             PROVE  OrderInv' /\ phase' # "panic" /\ \A n \in Name : in_degree'[n] <= in_degree[n]
  BY <1>2 DEF OrderInv
<1>3. dependents \in Seq(modules) /\ modules \subseteq Name
  BY DEF RestInv, Scalars
<1>4. PICK h \in modules : h = Head(dependents)
  BY <1>1, <1>3, HeadTailProperties
<1>5. Tail(dependents) \in Seq(modules)
  BY <1>1, <1>3, HeadTailProperties
<1>6. \A n \in modules : /\ Occurrences(dependents, n) = Occurrences(Tail(dependents), n) + (IF h = n THEN 1 ELSE 0)
                         /\ Occurrences(Tail(dependents), n) \in Nat
  BY <1>1, <1>3, <1>4, <1>5, TailOccurrences, PlacesType
<1>7. \A n \in modules : /\ in_degree[n] = Cardinality(Waiting(n)) + Occurrences(dependents, n)
                         /\ in_degree[n] <= InDegree(n)
                         /\ Cardinality(Waiting(n)) \in Nat /\ InDegree(n) \in Nat
  BY <1>1, <1>3, WaitingFacts DEF OrderInv
<1>8. in_degree[h] > 0
  BY <1>6, <1>7
<1>9. in_degree' = [in_degree EXCEPT ![h] = in_degree[h] - 1] /\ dependents' = Tail(dependents) /\ phase' = phase
  BY <1>4, <1>8 DEF Decrement
<1>10. in_degree \in [Name -> 0 .. UsizeMax] /\ h \in Name
  BY <1>3 DEF RestInv
<1>11. \A n : Waiting(n)' = Waiting(n)
  BY <1>1, <1>2 DEF Waiting
<1>12. ASSUME NEW n \in modules'
       PROVE  in_degree'[n] = Cardinality(Waiting(n)') + Occurrences(dependents', n) /\ in_degree'[n] <= InDegree(n)'
  <2>1. n \in modules /\ n \in Name /\ Waiting(n)' = Waiting(n) /\ InDegree(n)' = InDegree(n)
    BY <1>2, <1>3, <1>11
  <2>2. in_degree'[n] = in_degree[n] - (IF h = n THEN 1 ELSE 0)
    BY <1>7, <1>9, <1>10, <2>1
  <2>3. /\ Occurrences(dependents, n) = Occurrences(dependents', n) + (IF h = n THEN 1 ELSE 0)
        /\ Occurrences(dependents', n) \in Nat
    BY <1>6, <1>9, <2>1
  <2>4. /\ in_degree[n] = Cardinality(Waiting(n)) + Occurrences(dependents, n) /\ in_degree[n] <= InDegree(n)
        /\ Cardinality(Waiting(n)) \in Nat /\ InDegree(n) \in Nat
    BY <1>7, <2>1
  <2>5. Cardinality(Waiting(n)') = Cardinality(Waiting(n))
    BY <2>1
  <2> QED BY <2>1, <2>2, <2>3, <2>4, <2>5
<1>13. ASSUME NEW j \in DOMAIN result', NEW i \in DOMAIN reverse_adjacency'[result'[j]]
       PROVE  \E k \in 1 .. j - 1 : result'[k] = reverse_adjacency'[result'[j]][i]
  BY <1>1, <1>2 DEF OrderInv
<1>14. OrderInv'
  BY <1>12, <1>13 DEF OrderInv
<1>15. ASSUME NEW n \in Name PROVE in_degree'[n] <= in_degree[n]
  <2>1. in_degree[n] \in Nat /\ in_degree[h] \in Nat
    BY <1>10
  <2>2. in_degree'[n] = IF n = h THEN in_degree[h] - 1 ELSE in_degree[n]
    BY <1>9, <1>10
  <2> QED BY <2>1, <2>2
<1> QED BY <1>1, <1>9, <1>14, <1>15

\* What the end of the walk says about the graph.
LEMMA OrderEnds ==
  ASSUME Scalars, TypeOK, GraphInv, RestInv, QueueInv, OrderInv, EndOrder
  PROVE  /\ Len(result) = Cardinality(modules) => Range(result) = modules
         /\ Mirror /\ Len(result) = Cardinality(modules) => \A e \in asked : Before(e[1], e[2])
         /\ Mirror /\ Len(result) # Cardinality(modules) => HasCycle(asked)
<1>1. phase = "order" /\ queue = <<>> /\ dependents = <<>>
  BY DEF EndOrder
<1>2. result \in Seq(modules) /\ IsFiniteSet(modules) /\ modules \subseteq Name
  BY DEF RestInv, GraphInv, Scalars
<1>3. Len(result) \in Nat /\ DOMAIN result = 1 .. Len(result) /\ \A i \in 1 .. Len(result) : result[i] \in modules
  BY <1>2, LenProperties, ElementOfSeq
<1>4. IsInjective(result)
  <2>1. result \o queue = result
    BY <1>1, <1>2, ConcatEmptySeq
  <2> QED BY <1>1, <2>1 DEF QueueInv
<1>5. IsFiniteSet(1 .. Len(result)) /\ Cardinality(1 .. Len(result)) = Len(result)
  <2>1. Len(result) \in Nat
    BY <1>3
  <2> QED BY ONLY <2>1, FS_Interval, SMTT(60)
<1>6. result \in [1 .. Len(result) -> modules]
  BY <1>2, LenProperties
<1>7. result \in Injection(1 .. Len(result), modules)
  BY <1>4, <1>6 DEF Injection
<1>8. Len(result) = Cardinality(modules) <=> Range(result) = modules
  <2>1. Len(result) = Cardinality(modules) <=> result \in Surjection(1 .. Len(result), modules)
    BY <1>2, <1>5, <1>7, FS_Injection
  <2>2. result \in Surjection(1 .. Len(result), modules) <=> Range(result) = modules
    BY <1>3, <1>6 DEF Surjection, Range
  <2> QED BY <2>1, <2>2
<1>9. /\ \A e \in asked : e[1] \in modules /\ e[2] \in modules /\ e = <<e[1], e[2]>>
      /\ \A m, n \in Name : <<m, n>> \in asked <=> m \in Range(reverse_adjacency[n]) /\ n \in Range(adjacency[m])
      /\ Mirror => \A m, n \in Name : m \in Range(reverse_adjacency[n]) <=> n \in Range(adjacency[m])
  BY <1>2, AskedEdges DEF Scalars
<1>10. ASSUME Mirror, Range(result) = modules, NEW e \in asked PROVE Before(e[1], e[2])
  <2>1. e[1] \in modules /\ e[2] \in modules /\ e[1] \in Range(reverse_adjacency[e[2]])
    BY <1>2, <1>9
  <2>2. PICK j \in DOMAIN result : result[j] = e[2]
    BY <1>10, <2>1 DEF Range
  <2>3. PICK i \in DOMAIN reverse_adjacency[e[2]] : reverse_adjacency[e[2]][i] = e[1]
    BY <2>1 DEF Range
  <2>4. PICK k \in 1 .. j - 1 : result[k] = e[1]
    BY <1>1, <1>10, <2>2, <2>3 DEF OrderInv
  <2>5. k \in DOMAIN result /\ k < j
    BY <1>3, <2>2, <2>4
  <2> QED BY <2>2, <2>4, <2>5 DEF Before
<1>11. ASSUME Mirror, Range(result) # modules PROVE HasCycle(asked)
  <2> DEFINE U == modules \ Range(result)
  <2>1. Range(result) \subseteq modules
    BY <1>2, RangeOfSeq
  <2>2. U # {} /\ U \in SUBSET modules
    BY <1>11, <2>1
  <2>3. ASSUME NEW n \in U PROVE \E m \in U : <<m, n>> \in asked
    <3>1. n \in modules /\ n \in Name /\ n \notin Range(result) /\ Range(queue) = {}
      BY <1>1, <1>2 DEF Range
    <3>2. /\ in_degree[n] = InDegree(n) - Done(n) + (IF Done(n) <= InDegree(n) THEN 0 ELSE UsizeMax + 1)
          /\ ~(Done(n) >= InDegree(n))
      BY <1>1, <3>1 DEF QueueInv
    <3>3. Done(n) \in Int /\ InDegree(n) \in Nat
      BY <3>1, Counts, Degrees
    <3>4. in_degree[n] = Cardinality(Waiting(n)) + Occurrences(dependents, n)
      BY <1>1, <1>11, <3>1 DEF OrderInv
    <3>5. Occurrences(dependents, n) = 0
      BY <1>1, NoPlaces
    <3>6. Cardinality(Waiting(n)) \in Nat
      BY <3>1, WaitingFacts
    <3>7. Cardinality(Waiting(n)) # 0
      BY <3>2, <3>3, <3>4, <3>5, <3>6
    <3>8. Waiting(n) # {}
      BY <3>7, FS_EmptySet
    <3>9. PICK i \in DOMAIN reverse_adjacency[n] : reverse_adjacency[n][i] \notin Range(result)
      BY <3>8 DEF Waiting
    <3>10. reverse_adjacency[n] \in Seq(modules)
      BY <3>1 DEF GraphInv
    <3>11. reverse_adjacency[n][i] \in modules /\ reverse_adjacency[n][i] \in Range(reverse_adjacency[n])
      BY <3>9, <3>10, LenProperties, ElementOfSeq DEF Range
    <3>12. <<reverse_adjacency[n][i], n>> \in asked
      BY <1>2, <1>9, <1>11, <3>1, <3>11
    <3> QED BY <3>9, <3>11, <3>12
  <2>4. \A e \in asked : e[2] \in modules
    BY <1>9
  <2> HIDE DEF U
  <2> QED BY <1>2, <2>2, <2>3, <2>4, CycleFromPredecessors
<1> QED BY <1>8, <1>10, <1>11

LEMMA OrderKept ==
  ASSUME Scalars, TypeOK, GraphInv, RestInv, QueueInv, OrderInv, OrderRespectsEdges, [Next]_vars
  PROVE  QueueInv' /\ OrderInv' /\ OrderRespectsEdges'
<1> DEFINE Safe == OrderRespectsEdges'
<1>1. UsizeMax \in Nat /\ 0 < UsizeMax
  <2>1. <<>> \in FileLists \union {<<>>}
    OBVIOUS
  <2> QED BY <2>1, FileListFacts, GraphAssumption
<1>2. ASSUME phase' # "order" PROVE QueueInv' /\ OrderInv'
  BY <1>2 DEF QueueInv, OrderInv
<1>3. ASSUME phase' \notin {"ordered", "cyclic", "panic"}, \A n \in Name : in_degree'[n] < UsizeMax PROVE Safe
  BY <1>3 DEF OrderRespectsEdges
<1>4. ASSUME phase \notin {"order", "ordered", "cyclic", "panic"}, in_degree' = in_degree PROVE \A n \in Name : in_degree'[n] < UsizeMax
  BY <1>1, <1>4 DEF RestInv, NoDegrees
<1>5. ASSUME \/ \E n \in Name : AddModule(n)
             \/ \E from, to \in Name : AddDependency(from, to)
             \/ \E files \in FileLists : BuildGraph(files)
             \/ \E n \in Name, walk \in Walks : StartClosure(n, walk)
             \/ Visit \/ EndClosure
      PROVE  QueueInv' /\ OrderInv' /\ Safe
  <2>1. /\ phase \in Walks \union {"idle"} /\ in_degree' = in_degree
        /\ phase' \in Walks \union {"idle", "dependencies", "dependents"}
    <3>1. CASE \E n \in Name : AddModule(n)
      BY <3>1 DEF AddModule, Idle, kahn
    <3>2. CASE \E from, to \in Name : AddDependency(from, to)
      BY <3>2 DEF AddDependency, Idle, kahn
    <3>3. CASE \E files \in FileLists : BuildGraph(files)
      <4>1. phase = "idle" /\ phase' = phase /\ UNCHANGED kahn
        BY <3>3 DEF BuildGraph, Idle
      <4> QED BY <4>1 DEF kahn
    <3>4. CASE \E n \in Name, walk \in Walks : StartClosure(n, walk)
      BY <3>4 DEF StartClosure, Idle, kahn
    <3>5. CASE Visit
      BY <3>5 DEF Visit, kahn
    <3>6. CASE EndClosure
      BY <3>6 DEF EndClosure, kahn
    <3> QED BY <1>5, <3>1, <3>2, <3>3, <3>4, <3>5, <3>6
  <2> QED BY <1>2, <1>3, <1>4, <2>1 DEF Walks
<1>6. CASE StartOrder
  <2>1. QueueInv' /\ OrderInv'
    BY <1>6, QueueByStart, OrderByStart
  <2>2. phase' = "order" /\ in_degree' = [n \in Name |-> InDegree(n)]
    BY <1>6 DEF StartOrder, InDegree, InDegree0
  <2>3. \A n \in Name : InDegree(n) < UsizeMax
    BY Degrees
  <2> QED BY <1>3, <2>1, <2>2, <2>3
<1>7. CASE Pop
  <2>1. QueueInv' /\ OrderInv'
    BY <1>7, QueueByPop, OrderByPop
  <2>2. UNCHANGED graph /\ phase = "order" /\ phase' = "order" /\ in_degree' = in_degree
    BY <1>7 DEF Pop
  <2>3. Mirror' <=> Mirror
    BY <2>2, Frame
  <2>4. Safe
    BY <2>2, <2>3 DEF OrderRespectsEdges
  <2> QED BY <2>1, <2>4
<1>8. CASE Decrement
  <2>1. /\ QueueInv' /\ OrderInv'
        /\ Mirror => phase' # "panic" /\ \A n \in Name : in_degree'[n] <= in_degree[n]
    BY <1>8, QueueByDecrement, OrderByDecrement
  <2>2. UNCHANGED graph /\ phase = "order" /\ phase' \in {"order", "panic"}
    BY <1>8 DEF Decrement
  <2>3. Mirror' <=> Mirror
    BY <2>2, Frame
  <2>4. ASSUME Mirror PROVE \A n \in Name : in_degree'[n] < UsizeMax
    <3>1. \A n \in Name : in_degree[n] < UsizeMax
      BY <2>4 DEF OrderRespectsEdges
    <3>2. in_degree' \in [Name -> 0 .. UsizeMax] /\ in_degree \in [Name -> 0 .. UsizeMax]
      BY TypesKept DEF RestInv
    <3>3. \A n \in Name : in_degree'[n] \in Nat /\ in_degree[n] \in Nat
      BY <1>1, <3>2
    <3> QED BY <1>1, <2>1, <2>4, <3>1, <3>3
  <2>5. Safe
    BY <2>1, <2>2, <2>3, <2>4 DEF OrderRespectsEdges
  <2> QED BY <2>1, <2>5
<1>9. CASE EndOrder
  <2>1. /\ UNCHANGED graph /\ phase = "order" /\ in_degree' = in_degree /\ result' = result
        /\ phase' = IF Len(result) = Cardinality(modules) THEN "ordered" ELSE "cyclic"
    BY <1>9 DEF EndOrder, kahn
  <2>2. /\ Len(result) = Cardinality(modules) => Range(result) = modules
        /\ Mirror /\ Len(result) = Cardinality(modules) => \A e \in asked : Before(e[1], e[2])
        /\ Mirror /\ Len(result) # Cardinality(modules) => HasCycle(asked)
    BY <1>9, OrderEnds
  <2>3. /\ Mirror' <=> Mirror
        /\ modules' = modules /\ asked' = asked /\ \A n : Reached(asked, n)' = Reached(asked, n)
    BY <2>1, Frame
  <2>4. HasCycle(asked)' <=> HasCycle(asked)
    <3>1. \A e : Reached(asked, e[2])' = Reached(asked, e[2])
      BY <2>3
    <3> QED BY <2>3, <3>1, Zenon DEF HasCycle
  <2>5. \A a, b : Before(a, b)' <=> Before(a, b)
    BY <2>1, Zenon DEF Before
  <2>6. \A n \in Name : Mirror => in_degree[n] < UsizeMax
    BY DEF OrderRespectsEdges
  <2>7. Safe
    <3>1. CASE phase' = "ordered"
      <4>1. Len(result) = Cardinality(modules)
        BY <2>1, <3>1
      <4> QED BY <2>1, <2>2, <2>3, <2>5, <2>6, <3>1, <4>1 DEF OrderRespectsEdges
    <3>2. CASE phase' = "cyclic"
      <4>1. Len(result) # Cardinality(modules)
        BY <2>1, <3>2
      <4> QED BY <2>1, <2>2, <2>3, <2>4, <2>6, <3>2, <4>1 DEF OrderRespectsEdges
    <3> QED BY <2>1, <3>1, <3>2
  <2>8. phase' # "order"
    BY <2>1
  <2> QED BY <1>2, <2>7, <2>8
<1>10. CASE Return
  <2>1. phase' = "idle" /\ in_degree' = NoDegrees
    BY <1>10 DEF Return
  <2>2. \A n \in Name : in_degree'[n] < UsizeMax
    BY <1>1, <2>1 DEF NoDegrees
  <2> QED BY <1>2, <1>3, <2>1, <2>2
<1>11. CASE UNCHANGED vars
  <2>1. UNCHANGED graph /\ UNCHANGED <<phase, in_degree, queue, result, dependents>>
    BY <1>11 DEF vars, kahn
  <2>2. /\ modules' = modules /\ asked' = asked /\ (Mirror' <=> Mirror)
        /\ adjacency' = adjacency /\ reverse_adjacency' = reverse_adjacency
        /\ \A n : Reached(asked, n)' = Reached(asked, n)
        /\ \A n : InDegree(n)' = InDegree(n)
    BY <2>1, Frame
  <2>3. \A n : Done(n)' = Done(n) /\ Waiting(n)' = Waiting(n)
    BY <2>1, <2>2 DEF Done, Left, Waiting
  <2>4. QueueInv'
    BY <2>1, <2>2, <2>3 DEF QueueInv
  <2>5. OrderInv'
    BY <2>1, <2>2, <2>3 DEF OrderInv
  <2>6. HasCycle(asked)' <=> HasCycle(asked)
    <3>1. \A e : Reached(asked, e[2])' = Reached(asked, e[2])
      BY <2>2
    <3> QED BY <2>2, <3>1, Zenon DEF HasCycle
  <2>7. \A a, b : Before(a, b)' <=> Before(a, b)
    BY <2>1, Zenon DEF Before
  <2>8. Safe
    BY <2>1, <2>2, <2>6, <2>7 DEF OrderRespectsEdges
  <2> QED BY <2>4, <2>5, <2>8
<1> QED BY <1>5, <1>6, <1>7, <1>8, <1>9, <1>10, <1>11 DEF Next, Walk
---------------------------------------------------------------------------
(* The theorems.                                                           *)

\* The inductive invariant.
IInv ==
  /\ Scalars /\ GraphInv /\ RestInv /\ QueueInv /\ OrderInv /\ WalkInv
  /\ OrderRespectsEdges /\ ClosuresExact

LEMMA IInvStarts == Init => IInv
<1> SUFFICES ASSUME Init PROVE IInv
  OBVIOUS
<1>1. phase = "idle" /\ in_degree = NoDegrees
  BY DEF Init
<1>2. UsizeMax \in Nat /\ 0 < UsizeMax
  <2>1. <<>> \in FileLists \union {<<>>}
    OBVIOUS
  <2> QED BY <2>1, FileListFacts, GraphAssumption
<1>3. QueueInv /\ OrderInv /\ WalkInv /\ ClosuresExact
  BY <1>1 DEF QueueInv, OrderInv, WalkInv, ClosuresExact, Walks
<1>4. OrderRespectsEdges
  BY <1>1, <1>2 DEF OrderRespectsEdges, NoDegrees
<1> QED BY <1>3, <1>4, GraphStarts, TypesStart DEF IInv

LEMMA IInvKept == IInv /\ [Next]_vars => IInv'
<1> SUFFICES ASSUME IInv, [Next]_vars PROVE IInv'
  OBVIOUS
<1>1. /\ Scalars /\ GraphInv /\ RestInv /\ QueueInv /\ OrderInv /\ WalkInv
      /\ OrderRespectsEdges /\ ClosuresExact
  BY DEF IInv
<1>2. TypeOK
  BY <1>1, TypesTogether
<1>3. Scalars' /\ GraphInv' /\ RestInv'
  BY <1>1, <1>2, TypesKept
<1>4. QueueInv' /\ OrderInv' /\ OrderRespectsEdges'
  BY <1>1, <1>2, OrderKept
<1>5. WalkInv'
  BY <1>1, WalkKept
<1>6. ClosuresExact'
  BY <1>1, ClosuresKept
<1> QED BY <1>3, <1>4, <1>5, <1>6 DEF IInv

LEMMA IInvAlways == Spec => []IInv
<1> QED BY IInvStarts, IInvKept, PTL DEF Spec

\* Type correctness: the lists of both maps, the queue, the result and the stack hold
\* names of modules, and no in-degree leaves the range of a usize.
THEOREM GraphTypes == Spec => []TypeOK
<1>1. IInv => TypeOK
  BY TypesTogether DEF IInv
<1> QED BY <1>1, IInvAlways, PTL

\* Kahn's algorithm, for any graph, any order of the hash maps and any calls before: an
\* order lists every module once, and while the two maps agree no edge points back in it, a
\* cycle is reported only where there is one, and no in-degree is taken below 0.
THEOREM OrderIsRight == Spec => []OrderRespectsEdges
<1>1. IInv => OrderRespectsEdges
  BY DEF IInv
<1> QED BY <1>1, IInvAlways, PTL

\* find_all_dependencies and find_all_dependents return what leads to the module and
\* where it leads, nothing else and nothing less, on cyclic graphs, too.
THEOREM ClosuresAreExact == Spec => []ClosuresExact
<1>1. IInv => ClosuresExact
  BY DEF IInv
<1> QED BY <1>1, IInvAlways, PTL

\* As long as no module was added again, the two maps hold the same edges.
OneGraph == readds = 0 => Mirror

LEMMA SameByAddModule ==
  ASSUME TypeOK, GraphInv, OneGraph, NEW n \in Name, AddModule(n)
  PROVE  OneGraph'
<1> SUFFICES ASSUME readds' = 0, NEW a \in Name, NEW b \in Name
             PROVE  Occurrences(adjacency'[a], b) = Occurrences(reverse_adjacency'[b], a)
  BY DEF OneGraph, Mirror
<1>1. n \notin modules /\ readds = 0
  BY DEF AddModule, TypeOK
<1>2. /\ adjacency \in [Name -> Seq(modules)] /\ reverse_adjacency \in [Name -> Seq(modules)]
      /\ adjacency' = [adjacency EXCEPT ![n] = <<>>]
      /\ reverse_adjacency' = [reverse_adjacency EXCEPT ![n] = <<>>]
  BY DEF GraphInv, AddModule
<1>3. /\ adjacency'[a] = IF a = n THEN <<>> ELSE adjacency[a]
      /\ reverse_adjacency'[b] = IF b = n THEN <<>> ELSE reverse_adjacency[b]
  BY <1>2
<1>4. Occurrences(adjacency[a], b) = Occurrences(reverse_adjacency[b], a)
  BY <1>1 DEF OneGraph, Mirror
<1>5. adjacency[a] \in Seq(modules) /\ reverse_adjacency[b] \in Seq(modules)
  BY <1>2
<1>6. ASSUME NEW list \in Seq(modules) PROVE Occurrences(list, n) = 0
  <2>1. n \notin Range(list)
    <3>1. \A i \in DOMAIN list : list[i] \in modules
      BY ElementOfSeq
    <3> QED BY <1>1, <3>1 DEF Range
  <2> QED BY <2>1, PlacesType
<1>7. Occurrences(<<>>, a) = 0 /\ Occurrences(<<>>, b) = 0
  BY NoPlaces
<1> QED BY <1>3, <1>4, <1>5, <1>6, <1>7

LEMMA SameByAddDependency ==
  ASSUME TypeOK, GraphInv, OneGraph, NEW from \in Name, NEW to \in Name, AddDependency(from, to)
  PROVE  OneGraph'
<1> SUFFICES ASSUME readds' = 0, NEW a \in Name, NEW b \in Name
             PROVE  Occurrences(adjacency'[a], b) = Occurrences(reverse_adjacency'[b], a)
  BY DEF OneGraph, Mirror
<1>1. from \in modules /\ to \in modules /\ readds = 0
  BY DEF AddDependency
<1>2. /\ adjacency \in [Name -> Seq(modules)] /\ reverse_adjacency \in [Name -> Seq(modules)]
      /\ adjacency' = [adjacency EXCEPT ![from] = Append(@, to)]
      /\ reverse_adjacency' = [reverse_adjacency EXCEPT ![to] = Append(@, from)]
  BY DEF GraphInv, AddDependency
<1>3. /\ adjacency'[a] = IF a = from THEN Append(adjacency[a], to) ELSE adjacency[a]
      /\ reverse_adjacency'[b] = IF b = to THEN Append(reverse_adjacency[b], from) ELSE reverse_adjacency[b]
  BY <1>2
<1>4. Occurrences(adjacency[a], b) = Occurrences(reverse_adjacency[b], a)
  BY <1>1 DEF OneGraph, Mirror
<1>5. adjacency[a] \in Seq(modules) /\ reverse_adjacency[b] \in Seq(modules)
  BY <1>2
<1>6. /\ Occurrences(Append(adjacency[a], to), b) = Occurrences(adjacency[a], b) + (IF to = b THEN 1 ELSE 0)
      /\ Occurrences(adjacency[a], b) \in Nat
  BY <1>1, <1>5, AppendOccurrences
<1>7. /\ Occurrences(Append(reverse_adjacency[b], from), a)
           = Occurrences(reverse_adjacency[b], a) + (IF from = a THEN 1 ELSE 0)
      /\ Occurrences(reverse_adjacency[b], a) \in Nat
  BY <1>1, <1>5, AppendOccurrences
<1> QED BY <1>3, <1>4, <1>6, <1>7

\* The users of one name, counted in the list of the name and in the kernel's.
LEMMA SameByBuildGraph ==
  ASSUME NEW files \in FileLists, BuildGraph(files)
  PROVE  Mirror'
<1> DEFINE names == [i \in DOMAIN files |-> files[i].name]
           users == Users(files)
           From(m) == users \intersect Listings(files, m)
           N == Len(files)
<1>1. /\ adjacency' = [n \in Name |-> [i \in 1 .. Cardinality(From(n)) |-> Kernel]]
      /\ reverse_adjacency' = [NoEdges EXCEPT ![Kernel] = Picked(names, users)]
  BY DEF BuildGraph
<1>2. N \in Nat /\ DOMAIN files = 1 .. N /\ Kernel \in Name
  BY FileListFacts, LenProperties, GraphAssumption
<1>3. users \in SUBSET (1 .. N) /\ DOMAIN names = 1 .. N
  BY <1>2 DEF Users
<1>4. \A m : From(m) = {i \in users : names[i] = m}
  BY <1>2, <1>3 DEF Listings
<1> HIDE DEF names, users, N
<1>5. IsFiniteSet(users) /\ users \subseteq Nat
  <2>1. IsFiniteSet(1 .. N)
    <3>1. N \in Nat
      BY <1>2
    <3> QED BY ONLY <3>1, FS_Interval
  <2>2. IsFiniteSet(users)
    BY <1>3, <2>1, FS_Subset
  <2> QED BY <1>2, <1>3, <2>2
<1>6. Cardinality(users) \in Nat
  BY <1>5, FS_CardinalityType
<1>7. ASSUME NEW m
      PROVE  /\ IsFiniteSet(From(m)) /\ Cardinality(From(m)) \in Nat
             /\ Cardinality(1 .. Cardinality(From(m))) = Cardinality(From(m))
  <2>1. From(m) \in SUBSET users
    OBVIOUS
  <2> HIDE DEF From
  <2>2. IsFiniteSet(From(m)) /\ Cardinality(From(m)) \in Nat
    BY <1>5, <2>1, FS_Subset, FS_CardinalityType
  <2> QED BY <2>2, FS_Interval
<1>8. ASSUME NEW m
      PROVE  Occurrences(Picked(names, users), m) = Cardinality(From(m))
  <2> DEFINE P == {k \in 1 .. Cardinality(users) : names[Nth(users, k)] = m}
             f == [k \in P |-> Nth(users, k)]
  <2>1. Places(Picked(names, users), m) = P
    BY Zenon DEF Places, Picked
  <2>2. \A k \in P : f[k] \in From(m)
    BY <1>4, <1>5, NthFacts
  <2>3. \A j, k \in P : f[j] = f[k] => j = k
    <3>1. \A k \in P : Cardinality({j \in users : j <= Nth(users, k)}) = k
      BY <1>5, NthFacts
    <3>2. \A k \in P : f[k] = Nth(users, k)
      OBVIOUS
    <3> HIDE DEF P, f
    <3> QED BY <3>1, <3>2
  <2>4. \A i \in From(m) : \E k \in P : f[k] = i
    <3> TAKE i \in From(m)
    <3>1. i \in users /\ names[i] = m
      BY <1>4
    <3>2. PICK k \in 1 .. Cardinality(users) : Nth(users, k) = i
      BY <1>5, <3>1, NthReaches
    <3> QED BY <3>1, <3>2
  <2> HIDE DEF From
  <2>5. f \in [P -> From(m)]
    BY <2>2
  <2>6. f \in Bijection(P, From(m))
    <3> HIDE DEF P, f
    <3> QED BY <2>3, <2>4, <2>5 DEF Bijection, Injection, Surjection, IsInjective
  <2> HIDE DEF P, f
  <2>7. IsFiniteSet(P)
    <3>1. IsFiniteSet(1 .. Cardinality(users))
      BY ONLY <1>6, FS_Interval
    <3>2. P \in SUBSET (1 .. Cardinality(users))
      BY DEF P
    <3> QED BY <3>1, <3>2, FS_Subset
  <2>8. Cardinality(P) = Cardinality(From(m))
    <3>1. ExistsBijection(P, From(m))
      BY <2>6 DEF ExistsBijection
    <3> QED BY <2>7, <3>1, FS_Bijection
  <2> QED BY <2>1, <2>8 DEF Occurrences
<1>9. ASSUME NEW a \in Name, NEW b \in Name
      PROVE  Occurrences(adjacency'[a], b) = Occurrences(reverse_adjacency'[b], a)
  <2>1. reverse_adjacency'[b] = IF b = Kernel THEN Picked(names, users) ELSE <<>>
    BY <1>1, <1>2 DEF NoEdges
  <2>2. Occurrences(reverse_adjacency'[b], a) = IF b = Kernel THEN Cardinality(From(a)) ELSE 0
    <3> HIDE DEF From
    <3> QED BY <1>8, <2>1, NoPlaces
  <2>3. Places(adjacency'[a], b) = IF b = Kernel THEN 1 .. Cardinality(From(a)) ELSE {}
    <3>1. adjacency'[a] = [i \in 1 .. Cardinality(From(a)) |-> Kernel]
      BY <1>1
    <3> HIDE DEF From
    <3> QED BY <3>1 DEF Places
  <2>4. Cardinality({}) = 0
    BY FS_EmptySet
  <2> HIDE DEF From
  <2> QED BY <1>7, <2>2, <2>3, <2>4 DEF Occurrences
<1> QED BY <1>9 DEF Mirror

LEMMA OneGraphKept ==
  ASSUME TypeOK, GraphInv, OneGraph, [Next]_vars
  PROVE  OneGraph'
<1>1. CASE UNCHANGED graph
  BY <1>1 DEF OneGraph, Mirror, graph
<1>2. ASSUME NEW n \in Name, AddModule(n) PROVE OneGraph'
  BY <1>2, SameByAddModule
<1>3. ASSUME NEW from \in Name, NEW to \in Name, AddDependency(from, to) PROVE OneGraph'
  BY <1>3, SameByAddDependency
<1>4. ASSUME NEW files \in FileLists, BuildGraph(files) PROVE OneGraph'
  BY <1>4, SameByBuildGraph DEF OneGraph
<1>5. CASE StartOrder \/ (\E n \in Name, walk \in Walks : StartClosure(n, walk)) \/ Walk
  BY <1>1, <1>5 DEF StartOrder, StartClosure, Walk, Pop, Decrement, EndOrder, Visit, EndClosure, Return
<1> QED BY <1>1, <1>2, <1>3, <1>4, <1>5 DEF Next, vars

LEMMA OneGraphStarts == ASSUME Init PROVE OneGraph
<1>1. \A n \in Name : adjacency[n] = <<>> /\ reverse_adjacency[n] = <<>>
  BY DEF Init, NoEdges
<1> QED BY <1>1, NoPlaces DEF OneGraph, Mirror

\* However often modules were added again, an edge is in both maps exactly if it was asked
\* for since both its ends were added; while none was, the maps hold the same edges.
THEOREM MapsStayEqual == Spec => []MapsAgree
<1>1. Init => OneGraph
  BY OneGraphStarts
<1>2. IInv /\ OneGraph /\ [Next]_vars => OneGraph'
  <2> SUFFICES ASSUME IInv, OneGraph, [Next]_vars PROVE OneGraph'
    OBVIOUS
  <2>1. GraphInv /\ TypeOK
    BY TypesTogether DEF IInv
  <2> QED BY <2>1, OneGraphKept
<1>3. IInv /\ OneGraph => MapsAgree
  BY DEF IInv, GraphInv, OneGraph, MapsAgree
<1> QED BY <1>1, <1>2, <1>3, IInvAlways, PTL DEF Spec
---------------------------------------------------------------------------
(* How long a walk can take.                                               *)

\* The closures see names in the graph, and the one they started from.
LEMMA SeenKept ==
  ASSUME Scalars, GraphInv, RestInv, SeenInv, [Next]_vars
  PROVE  SeenInv'
<1>1. CASE phase' \notin Walks
  BY <1>1 DEF SeenInv
<1>2. ASSUME NEW n \in Name, NEW walk \in Walks, StartClosure(n, walk) PROVE SeenInv'
  <2>1. root' = n /\ stack' = <<n>> /\ visited' = visited /\ phase = "idle"
    BY <1>2 DEF StartClosure, Idle
  <2>2. visited' = {} /\ Range(stack') = {n}
    BY <2>1 DEF RestInv, Walks, Range
  <2> QED BY <2>1, <2>2 DEF SeenInv
<1>3. ASSUME Visit PROVE SeenInv'
  <2> DEFINE n == Last(stack)
             L == EdgesFrom(n)
             S == {i \in DOMAIN L : L[i] \notin visited \union {n}}
             P == Picked(L, S)
  <2>1. /\ UNCHANGED graph /\ UNCHANGED <<phase, root>> /\ phase \in Walks /\ stack # <<>>
        /\ \/ n \in visited /\ stack' = Front(stack) /\ visited' = visited
           \/ visited' = visited \union {n} /\ stack' = Front(stack) \o P
    BY <1>3 DEF Visit
  <2>2. stack \in Seq(Name)
    BY DEF RestInv
  <2>3. n \in Name /\ Front(stack) \in Seq(Name) /\ Range(stack) = Range(Front(stack)) \union {n}
    BY <2>1, <2>2, FrontLast
  <2>4. L \in Seq(modules) /\ modules \subseteq Name
    BY <2>3 DEF EdgesFrom, GraphInv, Scalars
  <2>5. P \in Seq(modules)
    <3>1. S \subseteq DOMAIN L
      OBVIOUS
    <3> HIDE DEF S, L, n
    <3> QED BY <2>4, <3>1, PickedFacts
  <2> HIDE DEF P, S, L, n
  <2>6. Range(P) \subseteq modules
    BY <2>5, RangeOfSeq
  <2>7. P \in Seq(Name)
    BY <2>4, <2>5, SeqMonotonic
  <2>8. Range(Front(stack) \o P) = Range(Front(stack)) \union Range(P)
    BY <2>3, <2>7, RangeConcatenation
  <2>9. modules' = modules
    BY <2>1, Frame
  <2>10. visited \union Range(Front(stack)) \union {n} \subseteq modules \union {root}
    BY <2>1, <2>3 DEF SeenInv
  <2> QED BY <2>1, <2>6, <2>8, <2>9, <2>10 DEF SeenInv
<1>4. CASE UNCHANGED vars
  BY <1>4 DEF vars, graph, dfs, SeenInv
<1>5. CASE \E n \in Name : AddModule(n)
  <2>1. phase' = "idle"
    BY <1>5 DEF AddModule, Idle
  <2> QED BY <1>1, <2>1 DEF Walks
<1>6. CASE \E from, to \in Name : AddDependency(from, to)
  <2>1. phase' = "idle"
    BY <1>6 DEF AddDependency, Idle
  <2> QED BY <1>1, <2>1 DEF Walks
<1>7. CASE \E files \in FileLists : BuildGraph(files)
  <2>1. phase' = "idle"
    BY <1>7 DEF BuildGraph, Idle
  <2> QED BY <1>1, <2>1 DEF Walks
<1>8. CASE StartOrder \/ Pop \/ Decrement \/ EndOrder \/ EndClosure \/ Return
  <2>1. phase' \notin {"to_dependencies", "to_dependents"}
    BY <1>8 DEF StartOrder, Pop, Decrement, EndOrder, EndClosure, Return
  <2> QED BY <1>1, <2>1 DEF Walks
<1> QED BY <1>2, <1>3, <1>4, <1>5, <1>6, <1>7, <1>8 DEF Next, Walk

\* Taking an element out of a finite set makes it smaller.
LEMMA OneOut ==
  ASSUME NEW Z, IsFiniteSet(Z), NEW z \in Z
  PROVE  Cardinality(Z \ {z}) < Cardinality(Z)
<1>1. Cardinality(Z \ {z}) = Cardinality(Z) - 1
  BY FS_RemoveElement
<1>2. Cardinality(Z) \in Nat
  BY FS_CardinalityType
<1> QED BY <1>1, <1>2

LEMMA StepShortens ==
  ASSUME IInv, SeenInv, [Next]_vars
  PROVE  WalkShortens
<1>1. /\ Scalars /\ GraphInv /\ RestInv /\ QueueInv
  BY DEF IInv
<1>2. TypeOK
  BY <1>1, TypesTogether
<1>3. IsFiniteSet(modules \ Range(result)) /\ IsFiniteSet((modules \union {root}) \ visited)
  <2>1. IsFiniteSet(modules) /\ IsFiniteSet(modules \union {root})
    BY <1>1, FS_AddElement DEF GraphInv
  <2> QED BY <2>1, FS_Difference
<1>4. Unplaced \in Nat /\ Unseen \in Nat
  BY <1>3, FS_CardinalityType DEF Unplaced, Unseen
<1>5. ASSUME Pop PROVE Unplaced' < Unplaced
  <2>1. /\ UNCHANGED graph /\ Head(queue) \in modules /\ Head(queue) \notin Range(result)
        /\ Range(result') = Range(result) \union {Head(queue)}
    BY <1>1, <1>2, <1>5, PopFacts
  <2>2. modules' = modules
    BY <2>1, Frame
  <2>3. modules' \ Range(result') = (modules \ Range(result)) \ {Head(queue)}
    BY <2>1, <2>2
  <2>4. Head(queue) \in modules \ Range(result)
    BY <2>1
  <2>5. Cardinality((modules \ Range(result)) \ {Head(queue)}) < Cardinality(modules \ Range(result))
    BY <1>3, <2>4, OneOut
  <2> QED BY <2>3, <2>5 DEF Unplaced
<1>6. ASSUME Decrement
      PROVE  Unplaced' = Unplaced /\ (Len(dependents)' < Len(dependents) \/ phase' = "panic")
  <2>1. UNCHANGED graph /\ result' = result /\ dependents # <<>>
    BY <1>6 DEF Decrement
  <2>2. dependents' = Tail(dependents) \/ phase' = "panic"
    BY <1>6 DEF Decrement
  <2>3. modules' = modules
    BY <2>1, Frame
  <2>4. dependents \in Seq(modules)
    BY <1>1 DEF RestInv
  <2>5. Len(Tail(dependents)) = Len(dependents) - 1 /\ Len(dependents) \in Nat
    BY <2>1, <2>4, HeadTailProperties, LenProperties
  <2>6. Len(Tail(dependents)) < Len(dependents)
    BY <2>5
  <2> QED BY <2>1, <2>2, <2>3, <2>6 DEF Unplaced
<1>7. ASSUME Visit PROVE Unseen' < Unseen \/ (Unseen' = Unseen /\ Len(stack)' < Len(stack))
  <2> DEFINE n == Last(stack)
  <2>1. /\ UNCHANGED graph /\ root' = root /\ phase \in Walks /\ stack # <<>>
        /\ \/ visited' = visited /\ stack' = Front(stack)
           \/ n \notin visited /\ visited' = visited \union {n}
    BY <1>7 DEF Visit
  <2>2. stack \in Seq(Name)
    BY <1>1 DEF RestInv
  <2>3. n \in Range(stack) /\ Front(stack) \in Seq(Name)
    BY <2>1, <2>2, FrontLast
  <2>4. n \in modules \union {root}
    BY <2>1, <2>3 DEF SeenInv
  <2>5. modules' = modules
    BY <2>1, Frame
  <2> HIDE DEF n
  <2>6. ASSUME n \notin visited, visited' = visited \union {n} PROVE Unseen' < Unseen
    <3>1. (modules' \union {root'}) \ visited' = ((modules \union {root}) \ visited) \ {n}
      BY <2>1, <2>5, <2>6
    <3>2. n \in (modules \union {root}) \ visited
      BY <2>4, <2>6
    <3>3. Cardinality(((modules \union {root}) \ visited) \ {n}) < Cardinality((modules \union {root}) \ visited)
      BY <1>3, <3>2, OneOut
    <3> QED BY <3>1, <3>3 DEF Unseen
  <2>7. ASSUME visited' = visited, stack' = Front(stack)
        PROVE  Unseen' = Unseen /\ Len(stack)' < Len(stack)
    <3> DEFINE k == Len(stack)
               l == Len(Front(stack))
    <3>1. k \in Nat /\ k # 0
      BY ONLY <2>1, <2>2, EmptySeq
    <3>2. l = IF 1 <= k - 1 THEN (k - 1) - 1 + 1 ELSE 0
      <4>1. 1 \in Int /\ k - 1 \in Int /\ \A i \in 1 .. k - 1 : stack[i] \in Name
        BY ONLY <2>2, <3>1, ElementOfSeq
      <4>2. Len(SubSeq(stack, 1, k - 1)) = IF 1 <= k - 1 THEN (k - 1) - 1 + 1 ELSE 0
        BY ONLY <4>1, SubSeqProperties
      <4> QED BY <4>2, Zenon DEF Front
    <3> HIDE DEF k, l
    <3>3. l < k
      BY ONLY <3>1, <3>2
    <3> QED BY <2>1, <2>5, <2>7, <3>3 DEF Unseen, k, l
  <2> QED BY <2>1, <2>6, <2>7
<1> QED BY <1>4, <1>5, <1>6, <1>7 DEF WalkShortens

\* The bound behind WalksEnd: whatever the graph, cyclic, with edges twice or with maps
\* that disagree, each step of a walk uses up a part of the graph that no other gives back.
THEOREM WalksShorten == Spec => EachStepShortens
<1>1. Init => SeenInv
  BY DEF Init, SeenInv, Walks
<1>2. IInv /\ SeenInv /\ [Next]_vars => SeenInv' /\ WalkShortens
  BY SeenKept, StepShortens DEF IInv
<1> QED BY <1>1, <1>2, IInvAlways, PTL DEF Spec, EachStepShortens
=============================================================================
