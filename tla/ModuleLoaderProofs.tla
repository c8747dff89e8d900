------------------------- MODULE ModuleLoaderProofs -------------------------
(***************************************************************************)
(* Theorems about ModuleLoader, for any files, any number of loads and of  *)
(* patch calls, and both ways of building it; and, at the end, about both  *)
(* loaders given the same files.                                           *)
(***************************************************************************)
EXTENDS Loaders, TLAPS, SequenceTheorems, FiniteSetTheorems, WellFoundedInduction

(* Sums modulo 2^64: the order of adding and wrapping does not matter.     *)
LEMMA Wrapped ==
  ASSUME NEW T \in Nat \ {0}, NEW x \in Nat
  PROVE  \E q \in Nat : \E r \in 0 .. T - 1 : x % T = r /\ x = q * T + r
<1> DEFINE q == x \div T
           r == x % T
           c == q * T
<1>1. q \in Nat /\ r \in 0 .. T - 1
  OBVIOUS
<1>2. r = x - c
  OBVIOUS
<1>3. c \in Nat
  BY <1>1
<1>4. x % T = r
  OBVIOUS
<1> HIDE DEF q, r
<1>5. x = c + r
  <2> HIDE DEF c
  <2> QED BY <1>1, <1>2, <1>3
<1> QED BY <1>1, <1>4, <1>5

LEMMA RemainderUnique ==
  ASSUME NEW T \in Nat \ {0}, NEW q \in Int, NEW r \in 0 .. T - 1, NEW x \in Nat, x = q * T + r
  PROVE  x % T = r
<1>1. PICK p \in Nat, s \in 0 .. T - 1 : x % T = s /\ x = p * T + s
  BY Wrapped
<1>2. (p - q) * T = r - s /\ (q - p) * T = s - r
  BY ONLY <1>1, T \in Nat \ {0}, q \in Int, r \in 0 .. T - 1, x = q * T + r
<1>3. ASSUME p - q >= 1 PROVE FALSE
  <2>1. (p - q) * T >= T
    BY <1>3
  <2> QED BY <1>2, <2>1
<1>4. ASSUME q - p >= 1 PROVE FALSE
  <2>1. (q - p) * T >= T
    BY <1>4
  <2> QED BY <1>2, <2>1
<1>5. p = q
  BY <1>3, <1>4
<1>6. s = r
  BY <1>2, <1>5
<1> QED BY <1>1, <1>6

LEMMA WrapsAgain ==
  ASSUME NEW T \in Nat \ {0}, NEW x \in Nat, NEW y \in Nat
  PROVE  ((x % T) + y) % T = (x + y) % T
<1>1. PICK q \in Nat, r \in 0 .. T - 1 : x % T = r /\ x = q * T + r
  BY Wrapped
<1>2. r + y \in Nat
  OBVIOUS
<1>3. PICK p \in Nat, u \in 0 .. T - 1 : (r + y) % T = u /\ r + y = p * T + u
  BY <1>2, Wrapped
<1> DEFINE z == x + y
           c == p + q
<1>4. z \in Nat /\ c \in Int /\ z = c * T + u
  BY ONLY <1>1, <1>3, T \in Nat \ {0}, x \in Nat, y \in Nat
<1> HIDE DEF z, c
<1>5. z % T = u
  BY <1>4, RemainderUnique
<1> QED BY <1>1, <1>3, <1>5, Zenon DEF z

LEMMA WrapsTimes ==
  ASSUME NEW T \in Nat \ {0}, NEW x \in Nat, NEW y \in Nat, NEW t \in Nat,
         NEW r, r = y % T
  PROVE  (x + t * r) % T = (x + t * y) % T
<1>1. PICK q \in Nat : r \in 0 .. T - 1 /\ y = q * T + r
  <2>1. PICK q \in Nat, u \in 0 .. T - 1 : y % T = u /\ y = q * T + u
    BY Wrapped
  <2>2. r = u
    BY ONLY <2>1, r = y % T, Zenon
  <2> QED BY <2>1, <2>2
<1> DEFINE d == t * r
           c == t * q
           v == x + d
           z == x + t * y
<1>2. d \in Nat /\ c \in Nat /\ v \in Nat /\ z \in Nat
  <2>1. t * y \in Nat /\ d \in Nat /\ c \in Nat
    OBVIOUS
  <2> QED BY <2>1
<1>3. t * y = c * T + d
  BY <1>1
<1>4. z = c * T + v
  <2> DEFINE e == t * y
             g == c * T
  <2>1. e \in Nat /\ g \in Nat
    OBVIOUS
  <2>2. e = g + d
    BY <1>3
  <2> HIDE DEF e, g, d
  <2>3. x + e = g + (x + d)
    BY <1>2, <2>1, <2>2
  <2> QED BY <2>3, Zenon DEF e, g, v, z
<1> HIDE DEF d, c, v, z
<1>5. PICK p \in Nat, u \in 0 .. T - 1 : v % T = u /\ v = p * T + u
  BY <1>2, Wrapped
<1> DEFINE n == p + c
<1>6. n \in Int /\ z = n * T + u
  BY ONLY <1>2, <1>4, <1>5, T \in Nat \ {0}
<1> HIDE DEF n
<1>7. z % T = u
  BY <1>2, <1>6, RemainderUnique
<1> QED BY <1>1, <1>5, <1>7, Zenon DEF z, v, d
---------------------------------------------------------------------------
(* Bytes and words.                                                        *)

\* Two digits and their number.
LEMMA Digit ==
  ASSUME NEW b \in Nat \ {0}, NEW c \in Nat, NEW v \in 0 .. b * c - 1
  PROVE  /\ v % b \in 0 .. b - 1 /\ v \div b \in 0 .. c - 1
         /\ v = (v % b) + b * (v \div b)
<1> DEFINE q == v \div b
           r == v % b
           e == b * q
<1>1. q \in Nat /\ r \in 0 .. b - 1
  OBVIOUS
<1>2. r = v - e /\ e \in Nat /\ v \in Nat
  <2>1. e \in Nat
    BY <1>1
  <2>2. b * c \in Int
    OBVIOUS
  <2>3. v \in Nat
    BY <2>2
  <2> QED BY <2>1, <2>3
<1>3. v = r + e
  <2> HIDE DEF r, e
  <2> QED BY <1>1, <1>2
<1>4. q < c
  <2> SUFFICES ASSUME c <= q PROVE FALSE
    BY <1>1
  <2>1. b * c <= e
    BY <1>1
  <2>2. v < b * c
    <3> DEFINE t == b * c
    <3>1. t \in Int
      OBVIOUS
    <3> HIDE DEF t
    <3> QED BY <3>1
  <2> DEFINE t == b * c
  <2> HIDE DEF e, r, q, t
  <2>3. t \in Int
    BY DEF t
  <2> QED BY ONLY <1>1, <1>2, <1>3, <2>1, <2>2, <2>3 DEF t
<1>5. q \in 0 .. c - 1
  <2> HIDE DEF q
  <2> QED BY <1>1, <1>4
<1> QED BY <1>1, <1>3, <1>5

LEMMA Number ==
  ASSUME NEW b \in Nat \ {0}, NEW c \in Nat, NEW x \in 0 .. b - 1, NEW y \in 0 .. c - 1
  PROVE  x + b * y \in 0 .. b * c - 1
<1>1. b * y <= b * (c - 1) /\ b * y \in Nat
  OBVIOUS
<1>2. b * (c - 1) = b * c - b /\ b * c \in Nat
  OBVIOUS
<1> DEFINE d == b * y
           e == b * (c - 1)
           g == b * c
<1> HIDE DEF d, e, g
<1>3. d \in Nat /\ d <= e /\ e = g - b /\ g \in Nat
  BY <1>1, <1>2 DEF d, e, g
<1>4. x + d \in 0 .. g - 1
  BY ONLY <1>3, b \in Nat \ {0}, x \in 0 .. b - 1
<1> QED BY <1>4 DEF d, g

\* The bytes of a word, and the word they stand for.
LEMMA WordOfBytes ==
  ASSUME NEW v \in 0 .. Top - 1
  PROVE  /\ \A i \in 1 .. 8 : ToLe(v)[i] \in 0 .. Base - 1
         /\ FromLe(ToLe(v)) = v
<1> DEFINE B0 == Base
           c1 == B0 * (B0 * (B0 * (B0 * (B0 * (B0 * B0)))))
           c2 == B0 * (B0 * (B0 * (B0 * (B0 * B0))))
           c3 == B0 * (B0 * (B0 * (B0 * B0)))
           c4 == B0 * (B0 * (B0 * B0))
           c5 == B0 * (B0 * B0)
           c6 == B0 * B0
           v1 == v \div Base   v2 == v1 \div Base  v3 == v2 \div Base  v4 == v3 \div Base
           v5 == v4 \div Base  v6 == v5 \div Base  v7 == v6 \div Base
           b == ToLe(v)
<1>0. Base \in Nat \ {0}
  BY LoaderAssumption, ByteAssumption
<1>1. /\ c1 = Base * c2 /\ c2 = Base * c3 /\ c3 = Base * c4 /\ c4 = Base * c5 /\ c5 = Base * c6
      /\ c6 = Base * Base /\ Top = Base * c1
  BY Zenon, ByteAssumption
<1>2. b = <<v % Base, v1 % Base, v2 % Base, v3 % Base, v4 % Base, v5 % Base, v6 % Base, v7>>
  BY DEF ToLe
<1> HIDE DEF b, c1, c2, c3, c4, c5, c6
<1>3. c6 \in Nat
  BY <1>0, <1>1
<1>4. c5 \in Nat
  BY <1>0, <1>1, <1>3
<1>5. c4 \in Nat
  BY <1>0, <1>1, <1>4
<1>6. c3 \in Nat
  BY <1>0, <1>1, <1>5
<1>7. c2 \in Nat
  BY <1>0, <1>1, <1>6
<1>8. c1 \in Nat
  BY <1>0, <1>1, <1>7
<1> HIDE DEF v1, v2, v3, v4, v5, v6, v7
<1>11. v % Base \in 0 .. Base - 1 /\ v1 \in 0 .. c1 - 1 /\ v = (v % Base) + Base * v1
  BY <1>0, <1>1, <1>8, Digit DEF v1
<1>12. v1 % Base \in 0 .. Base - 1 /\ v2 \in 0 .. c2 - 1 /\ v1 = (v1 % Base) + Base * v2
  BY <1>0, <1>1, <1>7, <1>11, Digit DEF v2
<1>13. v2 % Base \in 0 .. Base - 1 /\ v3 \in 0 .. c3 - 1 /\ v2 = (v2 % Base) + Base * v3
  BY <1>0, <1>1, <1>6, <1>12, Digit DEF v3
<1>14. v3 % Base \in 0 .. Base - 1 /\ v4 \in 0 .. c4 - 1 /\ v3 = (v3 % Base) + Base * v4
  BY <1>0, <1>1, <1>5, <1>13, Digit DEF v4
<1>15. v4 % Base \in 0 .. Base - 1 /\ v5 \in 0 .. c5 - 1 /\ v4 = (v4 % Base) + Base * v5
  BY <1>0, <1>1, <1>4, <1>14, Digit DEF v5
<1>16. v5 % Base \in 0 .. Base - 1 /\ v6 \in 0 .. c6 - 1 /\ v5 = (v5 % Base) + Base * v6
  BY <1>0, <1>1, <1>3, <1>15, Digit DEF v6
<1>17. v6 % Base \in 0 .. Base - 1 /\ v7 \in 0 .. Base - 1 /\ v6 = (v6 % Base) + Base * v7
  BY <1>0, <1>1, <1>16, Digit DEF v7
<1>18. /\ b[1] = v % Base /\ b[2] = v1 % Base /\ b[3] = v2 % Base /\ b[4] = v3 % Base
       /\ b[5] = v4 % Base /\ b[6] = v5 % Base /\ b[7] = v6 % Base /\ b[8] = v7
  BY <1>2
<1>19. \A i \in 1 .. 8 : b[i] \in 0 .. Base - 1
  <2>1. /\ b[1] \in 0 .. Base - 1 /\ b[2] \in 0 .. Base - 1 /\ b[3] \in 0 .. Base - 1
        /\ b[4] \in 0 .. Base - 1 /\ b[5] \in 0 .. Base - 1 /\ b[6] \in 0 .. Base - 1
        /\ b[7] \in 0 .. Base - 1 /\ b[8] \in 0 .. Base - 1
    BY ONLY <1>11, <1>12, <1>13, <1>14, <1>15, <1>16, <1>17, <1>18, Zenon
  <2>2. \A i \in 1 .. 8 : i = 1 \/ i = 2 \/ i = 3 \/ i = 4 \/ i = 5 \/ i = 6 \/ i = 7 \/ i = 8
    OBVIOUS
  <2> QED BY ONLY <2>1, <2>2, Zenon
<1>20. FromLe(b) = v
  <2>1. v6 = b[7] + Base * b[8]
    BY ONLY <1>17, <1>18, Zenon
  <2>2. v5 = b[6] + Base * v6
    BY ONLY <1>16, <1>18, Zenon
  <2>3. v4 = b[5] + Base * v5
    BY ONLY <1>15, <1>18, Zenon
  <2>4. v3 = b[4] + Base * v4
    BY ONLY <1>14, <1>18, Zenon
  <2>5. v2 = b[3] + Base * v3
    BY ONLY <1>13, <1>18, Zenon
  <2>6. v1 = b[2] + Base * v2
    BY ONLY <1>12, <1>18, Zenon
  <2>7. v = b[1] + Base * v1
    BY ONLY <1>11, <1>18, Zenon
  <2> QED BY ONLY <2>1, <2>2, <2>3, <2>4, <2>5, <2>6, <2>7, Zenon DEF FromLe
<1> QED BY <1>19, <1>20 DEF b

\* Eight bytes are a word.
LEMMA BytesOfWord ==
  ASSUME NEW b, \A i \in 1 .. 8 : b[i] \in 0 .. Base - 1
  PROVE  FromLe(b) \in 0 .. Top - 1
<1> DEFINE B0 == Base
           c1 == B0 * (B0 * (B0 * (B0 * (B0 * (B0 * B0)))))
           c2 == B0 * (B0 * (B0 * (B0 * (B0 * B0))))
           c3 == B0 * (B0 * (B0 * (B0 * B0)))
           c4 == B0 * (B0 * (B0 * B0))
           c5 == B0 * (B0 * B0)
           c6 == B0 * B0
           w6 == b[7] + Base * b[8]  w5 == b[6] + Base * w6  w4 == b[5] + Base * w5
           w3 == b[4] + Base * w4    w2 == b[3] + Base * w3  w1 == b[2] + Base * w2
<1>0. Base \in Nat \ {0}
  BY LoaderAssumption, ByteAssumption
<1>1. /\ c1 = Base * c2 /\ c2 = Base * c3 /\ c3 = Base * c4 /\ c4 = Base * c5 /\ c5 = Base * c6
      /\ c6 = Base * Base /\ Top = Base * c1
  BY Zenon, ByteAssumption
<1>2. FromLe(b) = b[1] + Base * w1
  BY DEF FromLe
<1> HIDE DEF c1, c2, c3, c4, c5, c6
<1>3. c6 \in Nat
  BY <1>0, <1>1
<1>4. c5 \in Nat
  BY <1>0, <1>1, <1>3
<1>5. c4 \in Nat
  BY <1>0, <1>1, <1>4
<1>6. c3 \in Nat
  BY <1>0, <1>1, <1>5
<1>7. c2 \in Nat
  BY <1>0, <1>1, <1>6
<1>8. c1 \in Nat
  BY <1>0, <1>1, <1>7
<1>9. /\ b[1] \in 0 .. Base - 1 /\ b[2] \in 0 .. Base - 1 /\ b[3] \in 0 .. Base - 1
      /\ b[4] \in 0 .. Base - 1 /\ b[5] \in 0 .. Base - 1 /\ b[6] \in 0 .. Base - 1
      /\ b[7] \in 0 .. Base - 1 /\ b[8] \in 0 .. Base - 1
  OBVIOUS
<1> HIDE DEF w1, w2, w3, w4, w5, w6
<1>10. w6 \in 0 .. c6 - 1
  BY <1>0, <1>1, <1>9, Number DEF w6
<1>11. w5 \in 0 .. c5 - 1
  BY <1>0, <1>1, <1>3, <1>9, <1>10, Number DEF w5
<1>12. w4 \in 0 .. c4 - 1
  BY <1>0, <1>1, <1>4, <1>9, <1>11, Number DEF w4
<1>13. w3 \in 0 .. c3 - 1
  BY <1>0, <1>1, <1>5, <1>9, <1>12, Number DEF w3
<1>14. w2 \in 0 .. c2 - 1
  BY <1>0, <1>1, <1>6, <1>9, <1>13, Number DEF w2
<1>15. w1 \in 0 .. c1 - 1
  BY <1>0, <1>1, <1>7, <1>9, <1>14, Number DEF w1
<1>16. b[1] + Base * w1 \in 0 .. Top - 1
  BY <1>0, <1>1, <1>8, <1>9, <1>15, Number
<1> QED BY <1>2, <1>16
---------------------------------------------------------------------------
USE LoaderAssumption

\* A set of indices has a last one: the least of the distances to the end.
LEMMA Greatest ==
  ASSUME NEW n \in Nat, NEW S, S \subseteq 1 .. n, S # {}
  PROVE  \E i \in S : \A j \in S : j <= i
<1> DEFINE T == {n - i : i \in S}
           Smaller == OpToRel(<, Nat)
<1>1. IsWellFoundedOn(Smaller, Nat)
  BY NatLessThanWellFounded, Zenon
<1>2. T \subseteq Nat /\ T # {}
  <2>1. \A i \in S : n - i \in Nat
    OBVIOUS
  <2>2. PICK i \in S : TRUE
    OBVIOUS
  <2> QED BY <2>1, <2>2
<1>3. \A a, b \in Nat : a < b => <<a, b>> \in Smaller
  BY DEF OpToRel
<1> HIDE DEF T, Smaller
<1>4. PICK x \in T : \A y \in T : ~ (<<y, x>> \in Smaller)
  BY <1>1, <1>2, WFMin, Zenon
<1>5. \A y \in T : ~ (y < x)
  BY <1>2, <1>3, <1>4
<1>6. PICK i \in S : x = n - i
  BY <1>4 DEF T
<1>7. ASSUME NEW j \in S PROVE j <= i
  <2>1. n - j \in T
    BY DEF T
  <2> QED BY <1>5, <1>6, <2>1
<1> QED BY <1>7

\* The bytes of a module.
LEMMA ByteFacts ==
  ASSUME NEW f, f.data \in Data
  PROVE  /\ Bytes(f) \in Nat /\ Bytes(f) < Top /\ DOMAIN f.data = 1 .. Bytes(f)
         /\ \A i \in 1 .. Bytes(f) : f.data[i] \in 0 .. Base - 1
<1>1. f.data \in Seq(0 .. Base - 1) /\ 2 * Len(f.data) <= Top
  BY DEF Data
<1>2. Len(f.data) \in Nat /\ DOMAIN f.data = 1 .. Len(f.data)
  BY <1>1
<1>3. Len(f.data) < Top
  BY <1>1, <1>2
<1>4. \A i \in 1 .. Len(f.data) : f.data[i] \in 0 .. Base - 1
  BY <1>1, <1>2, ElementOfSeq
<1> QED BY <1>2, <1>3, <1>4 DEF Bytes

\* What is read at an offset is a word, and only the bytes read matter.
LEMMA ReadType ==
  ASSUME NEW f, f.data \in Data, NEW a \in Nat, a + 8 <= Bytes(f)
  PROVE  U64(f, a) \in 0 .. Top - 1
<1>1. \A i \in 1 .. 8 : a + i \in 1 .. Bytes(f)
  BY ByteFacts
<1>2. \A i \in 1 .. 8 : At(f, a, 8)[i] \in 0 .. Base - 1
  BY <1>1, ByteFacts DEF At
<1> QED BY <1>2, BytesOfWord DEF U64

LEMMA TypeSame ==
  ASSUME NEW f, NEW g, NEW a, \A i \in 1 .. 4 : g.data[a + i] = f.data[a + i]
  PROVE  U32(g, a) = U32(f, a)
<1>1. At(g, a, 4) = At(f, a, 4)
  BY DEF At
<1> QED BY <1>1 DEF U32

LEMMA ReadSame ==
  ASSUME NEW f, NEW g, NEW a, \A i \in 1 .. 8 : g.data[a + i] = f.data[a + i]
  PROVE  U64(g, a) = U64(f, a)
<1>1. At(g, a, 8) = At(f, a, 8)
  BY DEF At
<1> QED BY <1>1 DEF U64

\* Writing a word changes its eight bytes and nothing else.
LEMMA SetFacts ==
  ASSUME NEW f \in Module, NEW a \in Nat, a + 8 <= Bytes(f), NEW v \in 0 .. Top - 1
  PROVE  /\ Set(f, a, v) \in Module /\ Bytes(Set(f, a, v)) = Bytes(f)
         /\ Set(f, a, v) = [f EXCEPT !.data = Set(f, a, v).data]
         /\ \A i \in 1 .. Bytes(f) : i \notin a + 1 .. a + 8 => Set(f, a, v).data[i] = f.data[i]
         /\ U64(Set(f, a, v), a) = v
<1> DEFINE L == Bytes(f)
           b == ToLe(v)
           d == [i \in DOMAIN f.data |-> IF i \in a + 1 .. a + 8 THEN b[i - a] ELSE f.data[i]]
           h == Set(f, a, v)
<1>1. f.data \in Data
  BY DEF Module
<1>2. L \in Nat /\ L < Top /\ DOMAIN f.data = 1 .. L /\ \A i \in 1 .. L : f.data[i] \in 0 .. Base - 1
  BY <1>1, ByteFacts
<1>3. (\A i \in 1 .. 8 : b[i] \in 0 .. Base - 1) /\ FromLe(b) = v
  BY WordOfBytes
<1>4. h = [f EXCEPT !.data = d]
  BY DEF Set
<1> HIDE DEF L, b
<1>5. d \in [1 .. L -> 0 .. Base - 1]
  <2> SUFFICES ASSUME NEW i \in 1 .. L PROVE d[i] \in 0 .. Base - 1
    BY <1>2
  <2>1. i \in a + 1 .. a + 8 => i - a \in 1 .. 8
    BY <1>2
  <2> QED BY <1>2, <1>3, <2>1
<1>6. d \in Seq(0 .. Base - 1) /\ Len(d) = L
  <2> HIDE DEF d
  <2> QED BY <1>2, <1>5
<1>7. d \in Data
  <2>1. 2 * L <= Top
    BY <1>1 DEF Data, L, Bytes
  <2> HIDE DEF d
  <2> QED BY <1>6, <2>1 DEF Data
<1>8. \A i \in 1 .. L : i \notin a + 1 .. a + 8 => d[i] = f.data[i]
  BY <1>2
<1>9. \A i \in 1 .. 8 : d[a + i] = b[i]
  <2> SUFFICES ASSUME NEW i \in 1 .. 8 PROVE d[a + i] = b[i]
    OBVIOUS
  <2>1. a + i \in 1 .. L /\ a + i \in a + 1 .. a + 8 /\ (a + i) - a = i
    BY <1>2 DEF L
  <2> QED BY <1>2, <2>1
<1> HIDE DEF d, h
<1>10. h.data = d
  BY <1>4 DEF Module
<1>11. U64(h, a) = v
  <2>1. FromLe(At(h, a, 8)) = FromLe(b)
    <3>1. \A i \in 1 .. 8 : At(h, a, 8)[i] = b[i]
      BY <1>9, <1>10 DEF At
    <3>2. /\ At(h, a, 8)[1] = b[1] /\ At(h, a, 8)[2] = b[2] /\ At(h, a, 8)[3] = b[3]
          /\ At(h, a, 8)[4] = b[4] /\ At(h, a, 8)[5] = b[5] /\ At(h, a, 8)[6] = b[6]
          /\ At(h, a, 8)[7] = b[7] /\ At(h, a, 8)[8] = b[8]
      BY ONLY <3>1
    <3> QED BY ONLY <3>2, Zenon DEF FromLe
  <2> QED BY <1>3, <2>1 DEF U64
<1>12. h \in Module
  BY <1>4, <1>7 DEF Module
<1>13. Bytes(h) = L
  BY <1>6, <1>10 DEF Bytes
<1>14. h = [f EXCEPT !.data = h.data]
  BY <1>4, <1>10
<1> QED BY <1>8, <1>10, <1>11, <1>12, <1>13, <1>14 DEF h, L

\* A string ends at its first zero, or with the data.
Ends(f, a, e) == (\A i \in a + 1 .. e : f.data[i] # 0) /\ (e < Bytes(f) => f.data[e + 1] = 0)

LEMMA StringEnds ==
  ASSUME NEW f, f.data \in Data, NEW a \in Nat, a <= Bytes(f)
  PROVE  StringEnd(f, a) \in a .. Bytes(f) /\ Ends(f, a, StringEnd(f, a))
<1> DEFINE L == Bytes(f)
           Z == {i \in 1 .. L : i > a /\ f.data[i] = 0}
           S == {L + 1 - i : i \in Z}
<1>1. L \in Nat
  BY ByteFacts
<1> HIDE DEF L
<1>2. \E e \in a .. L : Ends(f, a, e)
  <2>1. CASE Z = {}
    <3>1. Ends(f, a, L)
      BY <1>1, <2>1 DEF Ends, L
    <3>2. L \in a .. L
      BY <1>1 DEF L
    <3> QED BY <3>1, <3>2
  <2>2. CASE Z # {}
    <3>1. S \subseteq 1 .. L /\ S # {}
      BY <1>1, <2>2
    <3> HIDE DEF S
    <3>2. PICK s \in S : \A t \in S : t <= s
      BY <1>1, <3>1, Greatest
    <3>3. PICK z \in Z : s = L + 1 - z
      BY <3>2 DEF S
    <3>4. \A y \in Z : z <= y
      <4> SUFFICES ASSUME NEW y \in Z PROVE z <= y
        OBVIOUS
      <4>1. L + 1 - y \in S
        BY DEF S
      <4>2. L + 1 - y <= s
        BY <3>2, <4>1
      <4> QED BY <1>1, <3>3, <4>2
    <3>5. z \in 1 .. L /\ z > a /\ f.data[z] = 0
      OBVIOUS
    <3>6. z - 1 \in a .. L /\ (z - 1) + 1 = z
      BY <1>1, <3>5
    <3>7. \A i \in a + 1 .. z - 1 : f.data[i] # 0
      <4> SUFFICES ASSUME NEW i \in a + 1 .. z - 1, f.data[i] = 0 PROVE FALSE
        OBVIOUS
      <4>1. i \in 1 .. L /\ i > a /\ ~(z <= i)
        BY <1>1, <3>5
      <4>2. i \in Z
        BY <4>1
      <4> QED BY <3>4, <4>1, <4>2
    <3>8. Ends(f, a, z - 1)
      BY <3>5, <3>6, <3>7 DEF Ends
    <3> QED BY <3>6, <3>8
  <2> QED BY <2>1, <2>2
<1>3. StringEnd(f, a) = CHOOSE e \in a .. L : Ends(f, a, e)
  BY DEF StringEnd, Ends, L
<1>4. StringEnd(f, a) \in a .. L /\ Ends(f, a, StringEnd(f, a))
  BY <1>2, <1>3
<1> QED BY <1>4 DEF L

\* The string at an offset depends on its bytes and the zero after them.
LEMMA StringSame ==
  ASSUME NEW f, NEW g, f.data \in Data, g.data \in Data, Bytes(g) = Bytes(f),
         NEW a \in Nat, a <= Bytes(f),
         \A i \in a + 1 .. StringEnd(f, a) + 1 : i <= Bytes(f) => g.data[i] = f.data[i]
  PROVE  String(g, a) = String(f, a)
<1> DEFINE L == Bytes(f)
           e == StringEnd(f, a)
           d == StringEnd(g, a)
<1>1. L \in Nat
  BY ByteFacts
<1>2. e \in a .. L /\ Ends(f, a, e)
  BY StringEnds
<1>3. d \in a .. L /\ Ends(g, a, d)
  BY StringEnds
<1> HIDE DEF L, e, d
<1>4. \A i \in a + 1 .. e + 1 : i <= L => g.data[i] = f.data[i]
  BY DEF L, e
<1>5. ~(d < e)
  <2> SUFFICES ASSUME d < e PROVE FALSE
    OBVIOUS
  <2>1. d + 1 \in a + 1 .. e + 1 /\ d + 1 <= L /\ d + 1 \in a + 1 .. e /\ d < L
    BY <1>1, <1>2, <1>3
  <2>2. g.data[d + 1] = 0
    BY <1>3, <2>1 DEF Ends, L
  <2>3. f.data[d + 1] # 0
    BY <1>2, <2>1 DEF Ends
  <2> QED BY <1>4, <2>1, <2>2, <2>3
<1>6. ~(e < d)
  <2> SUFFICES ASSUME e < d PROVE FALSE
    OBVIOUS
  <2>1. e + 1 \in a + 1 .. e + 1 /\ e + 1 <= L /\ e + 1 \in a + 1 .. d /\ e < L
    BY <1>1, <1>2, <1>3
  <2>2. f.data[e + 1] = 0
    BY <1>2, <2>1 DEF Ends, L
  <2>3. g.data[e + 1] # 0
    BY <1>3, <2>1 DEF Ends
  <2> QED BY <1>4, <2>1, <2>2, <2>3
<1>7. d = e
  BY <1>2, <1>3, <1>5, <1>6
<1>8. \A i \in 1 .. e - a : g.data[a + i] = f.data[a + i]
  <2> SUFFICES ASSUME NEW i \in 1 .. e - a PROVE g.data[a + i] = f.data[a + i]
    OBVIOUS
  <2>1. a + i \in a + 1 .. e + 1 /\ a + i <= L
    BY <1>1, <1>2
  <2> QED BY <1>4, <2>1
<1>9. At(g, a, e - a) = At(f, a, e - a)
  BY <1>8 DEF At
<1> QED BY <1>7, <1>9 DEF String, d, e

\* Reads up to an end go through exactly if the end is inside.
LEMMA BoundFacts ==
  ASSUME NEW f, f.data \in Data, NEW end \in Nat
  PROVE  /\ Bound(f, end) \in {"inside", "outside", "panic"}
         /\ Bound(f, end) = "inside" <=> end <= Bytes(f)
<1>1. Bytes(f) \in Nat /\ Bytes(f) < Top
  BY ByteFacts
<1> QED BY <1>1 DEF Bound
---------------------------------------------------------------------------
\* Adding the offset gives a word again, whether the sum wraps or panics.
LEMMA SumType ==
  ASSUME NEW v \in 0 .. Top - 1
  PROVE  /\ Sum(v).outcome \in {"ok", "panic"}
         /\ Sum(v).value \in 0 .. Top - 1
<1>1. Delta(kernel.parsed) \in Int
  BY DEF Delta
<1>2. (v + Delta(kernel.parsed)) % Top \in 0 .. Top - 1
  BY <1>1
<1> QED BY <1>2 DEF Sum, Fails, Same

\* A name that resolves stands for a word.
LEMMA SymbolType ==
  ASSUME kernel.symbols \in KernelFile, NEW name, SymbolsNamed(name) # {}
  PROVE  Symbol(name) \in 0 .. Top - 1
<1> DEFINE table == kernel.symbols.symbols
           Named == SymbolsNamed(name)
<1>1. Len(table) \in Nat /\ DOMAIN table = 1 .. Len(table)
  BY DEF KernelFile, NoFile
<1>2. \A i \in DOMAIN table : table[i].value \in 0 .. Top - 1
  BY DEF KernelFile, NoFile
<1>3. Named \subseteq DOMAIN table /\ Named # {}
  BY DEF SymbolsNamed
<1> HIDE DEF Named
<1>4. \E i \in Named : \A j \in Named : j <= i
  BY <1>1, <1>3, Greatest
<1>5. (CHOOSE i \in Named : \A j \in Named : j <= i) \in Named
  BY <1>4
<1>6. Symbol(name) = table[CHOOSE i \in Named : \A j \in Named : j <= i].value
  BY DEF Symbol, Named
<1> QED BY <1>2, <1>3, <1>5, <1>6

\* Patching an entry's data word gives a word, or stops the call.
LEMMA PatchedType ==
  ASSUME kernel.symbols \in KernelFile, NEW f \in Module, NEW type, NEW data \in 0 .. Top - 1
  PROVE  /\ Patched(f, type, data).outcome \in {"ok", "failed", "panic"}
         /\ Patched(f, type, data).value \in 0 .. Top - 1
<1>1. Same(data).outcome = "ok" /\ Same(data).value \in 0 .. Top - 1
  BY DEF Same
<1>2. Fails("failed").outcome = "failed" /\ Fails("failed").value \in 0 .. Top - 1
  BY DEF Fails
<1>3. /\ Depend(f, data).outcome \in {"ok", "failed", "panic"}
      /\ Depend(f, data).value \in 0 .. Top - 1
  <2> DEFINE s == String(f, data)
  <2> HIDE DEF s
  <2>1. SymbolsNamed(s) # {} => /\ Sum(Symbol(s)).outcome \in {"ok", "panic"}
                                /\ Sum(Symbol(s)).value \in 0 .. Top - 1
    BY SymbolType, SumType
  <2>2. Depend(f, data) \in {Fails("failed"), Same(data)}
          \/ (SymbolsNamed(s) # {} /\ Depend(f, data) = Sum(Symbol(s)))
    BY Zenon DEF Depend, s
  <2> QED BY <1>1, <1>2, <2>1, <2>2
<1>4. Patched(f, type, data) \in {Same(data), Depend(f, data), Fails("failed"), Sum(data)}
  <2>1. ModuleName(f, data) \in {Fails("failed"), Sum(data)}
    BY DEF ModuleName
  <2> QED BY <2>1 DEF Patched
<1>5. Sum(data).outcome \in {"ok", "panic"} /\ Sum(data).value \in 0 .. Top - 1
  BY SumType
<1> QED BY <1>1, <1>2, <1>3, <1>4, <1>5

\* Whatever a pointer leads to, an entry never starts the next module.
LEMMA PatchedOutcome ==
  ASSUME NEW f, NEW type, NEW data
  PROVE  Patched(f, type, data).outcome \in {"ok", "failed", "panic"}
<1>1. \A v : Sum(v).outcome \in {"ok", "panic"}
  BY DEF Sum, Same, Fails
<1>2. Depend(f, data).outcome \in {"ok", "failed", "panic"}
  BY <1>1 DEF Depend, Same, Fails
<1>3. ModuleName(f, data).outcome \in {"ok", "failed", "panic"}
  BY <1>1 DEF ModuleName, Fails
<1> QED BY <1>1, <1>2, <1>3 DEF Patched, Same

\* Writing a word into a module leaves all but its data as it is.
LEMMA SetKeeps ==
  ASSUME NEW f \in Module, NEW a, NEW v
  PROVE  /\ Len(Set(f, a, v).data) = Len(f.data)
         /\ Set(f, a, v).relocated = f.relocated /\ Set(f, a, v).count = f.count
         /\ Set(f, a, v).offset = f.offset /\ Set(f, a, v).file = f.file /\ Set(f, a, v).shift = f.shift
<1> DEFINE L == Len(f.data)
           h == Set(f, a, v)
           d == [i \in DOMAIN f.data |-> IF i \in a + 1 .. a + 8 THEN ToLe(v)[i - a] ELSE f.data[i]]
           S == {d[i] : i \in 1 .. L}
<1>1. h = [f EXCEPT !.data = d]
  BY DEF Set
<1>2. L \in Nat /\ DOMAIN f.data = 1 .. L
  <2>1. f.data \in Data
    BY DEF Module
  <2> QED BY <2>1, ByteFacts DEF Bytes
<1>3. Len(d) = L
  <2>1. d \in [1 .. L -> S]
    BY <1>2
  <2> HIDE DEF d, S, L
  <2> QED BY ONLY <1>2, <2>1
<1> HIDE DEF d
<1>4. /\ h.data = d /\ h.relocated = f.relocated /\ h.count = f.count
      /\ h.offset = f.offset /\ h.file = f.file /\ h.shift = f.shift
  BY <1>1 DEF Module
<1> QED BY <1>3, <1>4
LEMMA Fields ==
  ASSUME NEW f \in Module
  PROVE  /\ f.offset \in Nat /\ f.count \in Nat /\ f.shift \in 0 .. Top - 1
         /\ f.data \in Data /\ Bytes(f) \in Nat /\ SetEnd(f) \in Nat
<1>1. f.data \in Data /\ f.offset \in Nat /\ f.count \in Nat /\ f.shift \in 0 .. Top - 1
  BY DEF Module
<1>2. Bytes(f) \in Nat
  BY <1>1, ByteFacts
<1> QED BY <1>1, <1>2 DEF SetEnd

\* The pointers of a set that fits are words of the module.
LEMMA Pointers ==
  ASSUME NEW f, f.data \in Data, f.offset \in Nat, f.count \in Nat
  PROVE  /\ DOMAIN PointersOf(f) = 1 .. f.count
         /\ SetEnd(f) <= Bytes(f) => PointersOf(f) \in Seq(0 .. Top - 1)
<1>1. Bytes(f) \in Nat
  BY ByteFacts
<1>2. ASSUME SetEnd(f) <= Bytes(f), NEW i \in 1 .. f.count
      PROVE  U64(f, f.offset + 8 * (i - 1)) \in 0 .. Top - 1
  <2>1. f.offset + 8 * (i - 1) \in Nat /\ f.offset + 8 * (i - 1) + 8 <= Bytes(f)
    BY ONLY <1>1, <1>2, f.offset \in Nat, f.count \in Nat DEF SetEnd
  <2> QED BY <2>1, ReadType
<1>3. ASSUME SetEnd(f) <= Bytes(f) PROVE PointersOf(f) \in [1 .. f.count -> 0 .. Top - 1]
  BY ONLY <1>2, <1>3 DEF PointersOf
<1>4. ASSUME NEW s, NEW S, NEW n \in Nat, s \in [1 .. n -> S] PROVE s \in Seq(S)
  BY ONLY <1>4
<1>5. SetEnd(f) <= Bytes(f) => PointersOf(f) \in Seq(0 .. Top - 1)
  BY <1>3, <1>4
<1> QED BY <1>5 DEF PointersOf
---------------------------------------------------------------------------
\* The types, and that a module is being patched where the code thinks so.
Typed == TypeOK /\ (pc = "entry" => m <= Len(modules))

\* One entry of the set: the bytes stay bytes.
LEMMA EntryTyped ==
  ASSUME Typed, PatchEntry
  PROVE  Typed'
<1> DEFINE f == modules[m]
           p == ptrs[k]
           r == IF Bound(f, p + 16) = "panic" THEN Fails("panic")
                ELSE IF ~Inside(f, p) THEN Same(0)
                ELSE Patched(f, U32(f, p), U64(f, p + 8))
           new == Set(f, p + 8, r.value)
<1>1. modules \in Seq(Module) /\ m \in 1 .. Len(modules) /\ ptrs \in Seq(0 .. Top - 1) /\ k \in 1 .. Len(ptrs)
  BY DEF Typed, TypeOK, PatchEntry
<1>2. f \in Module /\ p \in 0 .. Top - 1
  BY <1>1, ElementOfSeq
<1>3. Inside(f, p) => p + 8 \in Nat /\ (p + 8) + 8 <= Bytes(f)
  BY <1>2 DEF Inside
<1>4. Inside(f, p) => U64(f, p + 8) \in 0 .. Top - 1
  BY <1>2, <1>3, Fields, ReadType
<1>5. r.outcome \in {"ok", "failed", "panic"} /\ r.value \in 0 .. Top - 1
  <2>1. kernel.symbols \in KernelFile
    BY DEF Typed, TypeOK
  <2>2. CASE Bound(f, p + 16) # "panic" /\ Inside(f, p)
    BY <1>2, <1>4, <2>1, <2>2, PatchedType
  <2>3. CASE ~(Bound(f, p + 16) # "panic" /\ Inside(f, p))
    <3>1. r \in {Fails("panic"), Same(0)}
      BY <2>3
    <3> QED BY <3>1 DEF Fails, Same
  <2> QED BY <2>2, <2>3
<1>6. Inside(f, p) => new \in Module
  BY <1>2, <1>3, <1>5, SetFacts
<1> HIDE DEF r, new
<1>7. [modules EXCEPT ![m] = new] = [modules EXCEPT ![m] = Set(f, p + 8, r.value)]
  BY DEF new
<1>8. /\ modules' \in {modules, [modules EXCEPT ![m] = new]}
      /\ modules' # modules => Inside(f, p)
      /\ k' \in {k, k + 1} /\ pc' \in {pc, r.outcome}
      /\ UNCHANGED <<kernel, loads, patches, m, ptrs, before>>
  BY <1>7 DEF PatchEntry, r, new
<1>9. modules' \in Seq(Module) /\ Len(modules') = Len(modules)
  <2>1. CASE modules' = modules
    BY <1>1, <2>1
  <2>2. CASE modules' # modules
    <3>1. new \in Module /\ modules' = [modules EXCEPT ![m] = new]
      BY <1>6, <1>8, <2>2
    <3> HIDE DEF f, p
    <3> QED BY <1>1, <3>1, ExceptSeq
  <2> QED BY <2>1, <2>2
<1> QED BY <1>1, <1>5, <1>8, <1>9 DEF Typed, TypeOK

\* The types are kept by every step.
LEMMA TypeStep ==
  ASSUME Typed, [Next]_vars
  PROVE  Typed'
<1> USE DEF Typed, TypeOK
<1>1. ASSUME NEW f \in Kernels, LoadKernel(f) PROVE Typed'
  <2>1. kernel' \in [data : KernelFile, parsed : KernelFile, symbols : KernelFile, header : KernelFile]
    <3> DEFINE K == KernelFile
    <3>1. f \in K /\ NoFile \in K
      BY DEF KernelFile
    <3>2. kernel \in [data : K, parsed : K, symbols : K, header : K]
      OBVIOUS
    <3>3. \/ kernel' = [kernel EXCEPT !.data = f]
          \/ kernel' = [data |-> f, parsed |-> f,
                        symbols |-> IF f.symbols # <<>> THEN f ELSE kernel.symbols,
                        header |-> IF f.header THEN f ELSE NoFile]
      BY <1>1, Zenon DEF LoadKernel
    <3> HIDE DEF K
    <3>4. kernel' \in [data : K, parsed : K, symbols : K, header : K]
      BY ONLY <3>1, <3>2, <3>3
    <3> QED BY <3>4 DEF K
  <2>2. UNCHANGED <<modules, patches, m, ptrs, k, before>>
    BY <1>1, Zenon DEF LoadKernel, call
  <2>3. pc' \in {"error", "ok", "panic"}
    BY <1>1, Zenon DEF LoadKernel
  <2>4. loads < MaxKernels /\ loads' = loads + 1
    BY <1>1, Zenon DEF LoadKernel
  <2>5. loads' \in 0 .. MaxKernels
    BY <2>4, LoaderAssumption
  <2>6. TypeOK'
    BY <2>1, <2>2, <2>3, <2>5
  <2>7. pc' # "entry"
    BY <2>3
  <2> QED BY <2>6, <2>7
<1>2. ASSUME NEW f \in Modules, LoadModule(f) PROVE Typed'
  <2> DEFINE new == [data |-> f.data, offset |-> f.offset,
                     count |-> IF f.kind = "obj" THEN f.count ELSE 0,
                     relocated |-> FALSE, file |-> f, shift |-> 0]
  <2>1. new \in Module
    BY DEF Module
  <2> HIDE DEF new
  <2>2. Append(modules, new) \in Seq(Module) /\ Len(Append(modules, new)) = Len(modules) + 1
    BY <2>1, AppendProperties
  <2>3. modules' \in {modules, Append(modules, new)} /\ pc' \in {"ok", "error"}
        /\ UNCHANGED <<kernel, loads, patches, call>>
    BY <1>2, Zenon DEF LoadModule, new
  <2>4. modules' \in Seq(Module) /\ Len(modules') \in {Len(modules), Len(modules) + 1} /\ before' = before
    BY <2>2, <2>3 DEF call
  <2>5. UNCHANGED <<kernel, loads, patches, m, ptrs, k>>
    BY <2>3 DEF call
  <2> QED BY <2>3, <2>4, <2>5
<1>3. CASE PatchDisabled
  BY <1>3 DEF PatchDisabled, call
<1>4. CASE StartPatch
  BY <1>4 DEF StartPatch, Idle
<1>5. CASE SkipModule
  BY <1>5 DEF SkipModule
<1>6. CASE ReadSet
  <2> DEFINE f == modules[m]
             read == PointersOf(f)
             end == SetEnd(f)
  <2>1. f \in Module /\ m \in 1 .. Len(modules)
    BY <1>6, ElementOfSeq DEF ReadSet
  <2>2. f.data \in Data /\ end \in Nat /\ (end <= Bytes(f) => read \in Seq(0 .. Top - 1))
    BY <2>1, Fields, Pointers
  <2>3. \/ pc' \in {"panic", "failed"} /\ UNCHANGED <<ptrs, k>>
        \/ end <= Bytes(f) /\ ptrs' = read /\ k' = 1 /\ pc' = "entry"
    <3>1. Bound(f, end) \in {"inside", "outside", "panic"} /\ (Bound(f, end) = "inside" => end <= Bytes(f))
      BY <2>2, BoundFacts
    <3> HIDE DEF read
    <3> QED BY <1>6, <3>1 DEF ReadSet, read
  <2> HIDE DEF f, read, end
  <2> QED BY <1>6, <2>1, <2>2, <2>3 DEF ReadSet
<1>7. CASE PatchEntry
  BY <1>7, EntryTyped
<1>8. CASE EndModule
  <2> DEFINE f == modules[m]
             new == [f EXCEPT !.relocated = TRUE, !.shift = (@ + Delta(kernel.parsed)) % Top]
  <2>1. f \in Module /\ m \in 1 .. Len(modules)
    BY <1>8, ElementOfSeq, SMTT(60) DEF EndModule
  <2>2. new \in Module
    <3>1. f.shift \in Int /\ Delta(kernel.parsed) \in Int
      <4>1. f.shift \in 0 .. Top - 1
        BY <2>1, Fields
      <4>2. Delta(kernel.parsed) \in Int
        BY ONLY LoaderAssumption DEF Delta
      <4> QED BY <4>1, <4>2
    <3>2. (f.shift + Delta(kernel.parsed)) % Top \in 0 .. Top - 1
      BY ONLY <3>1, LoaderAssumption
    <3> QED BY <2>1, <3>2 DEF Module
  <2>3. modules' = [modules EXCEPT ![m] = new]
    BY <1>8 DEF EndModule
  <2> HIDE DEF new
  <2>4. modules' \in Seq(Module) /\ Len(modules') = Len(modules)
    BY <2>1, <2>2, <2>3, ExceptSeq
  <2>5. m' = m + 1 /\ ptrs' = <<>> /\ k' = 1 /\ pc' = "module"
    BY <1>8 DEF EndModule
  <2>6. UNCHANGED <<kernel, loads, patches, before>>
    BY <1>8 DEF EndModule
  <2>7. m' \in 1 .. Len(modules') + 1 /\ ptrs' \in Seq(0 .. Top - 1)
    BY <2>1, <2>4, <2>5
  <2>8. k' \in 1 .. Len(ptrs') + 1
    BY <2>5
  <2> QED BY <2>4, <2>5, <2>6, <2>7, <2>8
<1>9. CASE EndPatch
  BY <1>9 DEF EndPatch, call
<1>10. CASE UNCHANGED vars
  BY <1>10 DEF vars, call
<1> QED
  BY <1>1, <1>2, <1>3, <1>4, <1>5, <1>6, <1>7, <1>8, <1>9, <1>10 DEF Next

\* The type invariant of the loader.
THEOREM LoaderTypes == Spec => []TypeOK
<1>1. Init => Typed
  BY DEF Init, Typed, TypeOK, KernelFile
<1>2. Typed => TypeOK
  BY DEF Typed
<1> QED BY <1>1, <1>2, TypeStep, PTL DEF Spec
---------------------------------------------------------------------------
(* The kernel whose entry and offset are kept is a kernel, or there is     *)
(* none yet: without that a file that does not parse could take over the   *)
(* header.                                                                 *)
LEMMA KernelStep ==
  ASSUME OneKernel, [Next]_vars
  PROVE  OneKernel'
<1> USE DEF OneKernel
<1>1. ASSUME NEW f \in Kernels, LoadKernel(f) PROVE OneKernel'
  <2>1. CASE ~Parses(f)
    <3>1. kernel' = [kernel EXCEPT !.data = f]
      BY <1>1, <2>1, Zenon DEF LoadKernel
    <3> QED BY <2>1, <3>1
  <2>2. CASE Parses(f)
    <3>1. kernel' = [data |-> f, parsed |-> f,
                     symbols |-> IF f.symbols # <<>> THEN f ELSE kernel.symbols,
                     header |-> IF f.header THEN f ELSE NoFile]
      BY <1>1, <2>2, Zenon DEF LoadKernel
    <3> QED BY <3>1
  <2> QED BY <2>1, <2>2
<1>2. ASSUME UNCHANGED kernel PROVE OneKernel'
  BY <1>2
<1>3. (\E f \in Kernels : LoadKernel(f)) \/ UNCHANGED kernel
  BY Zenon DEF Next, LoadModule, PatchDisabled, StartPatch, SkipModule, ReadSet,
     PatchEntry, EndModule, EndPatch, vars
<1> QED BY <1>1, <1>2, <1>3

\* What is handed to the booted kernel is of one file.
THEOREM KernelIsOne == Spec => []OneKernel
<1>1. Init => OneKernel
  BY DEF Init, OneKernel, Parses, NoFile
<1> QED BY <1>1, KernelStep, PTL DEF Spec
---------------------------------------------------------------------------
(* A call against the modules it began with: those it has not come to are  *)
(* as they were, and so is the size of every set, on which it depends      *)
(* whether a module was passed over or is to be marked.                    *)
Calling ==
  InCall =>
    /\ Len(before) = Len(modules)
    /\ \A j \in 1 .. Len(modules) :
         /\ before[j].count = modules[j].count
         /\ j < m /\ before[j].count > 0 => modules[j].relocated
         /\ j >= m => modules[j].relocated = before[j].relocated
         /\ j > m \/ (j = m /\ pc = "module") => modules[j] = before[j]

\* Only the module in hand changes, and neither its mark nor its set's size.
LEMMA EntryCalling ==
  ASSUME Typed, Calling, PatchEntry
  PROVE  Calling'
<1> DEFINE f == modules[m]
           p == ptrs[k]
           r == IF Bound(f, p + 16) = "panic" THEN Fails("panic")
                ELSE IF ~Inside(f, p) THEN Same(0)
                ELSE Patched(f, U32(f, p), U64(f, p + 8))
           new == Set(f, p + 8, r.value)
<1>1. modules \in Seq(Module) /\ m \in 1 .. Len(modules) /\ pc = "entry"
  BY DEF Typed, TypeOK, PatchEntry
<1>2. f \in Module
  BY <1>1, ElementOfSeq
<1>3. new.relocated = f.relocated /\ new.count = f.count
  BY <1>2, SetKeeps
<1> HIDE DEF r, new
<1>4. /\ modules' \in {modules, [modules EXCEPT ![m] = new]}
      /\ UNCHANGED <<m, before>>
  BY DEF PatchEntry, r, new
<1> HIDE DEF f, p
<1>5. /\ Len(modules') = Len(modules)
      /\ \A j \in 1 .. Len(modules) : j # m => modules'[j] = modules[j]
      /\ modules'[m].relocated = f.relocated /\ modules'[m].count = f.count
  BY <1>1, <1>3, <1>4 DEF f
<1>6. pc' # "module"
  <2>1. r.outcome # "module"
    BY PatchedOutcome DEF r, Fails, Same
  <2> QED BY <1>1, <2>1 DEF PatchEntry, r, f, p
<1>7. InCall
  BY <1>1 DEF InCall
<1> QED BY <1>1, <1>4, <1>5, <1>6, <1>7 DEF Calling, f

\* The call's promise is kept by every step.
LEMMA CallStep ==
  ASSUME Typed, Calling, [Next]_vars
  PROVE  Calling'
<1>0. modules \in Seq(Module) /\ m \in 1 .. Len(modules) + 1 /\ (pc = "entry" => m <= Len(modules))
  BY DEF Typed, TypeOK
<1>1. ASSUME NEW f \in Kernels, LoadKernel(f) PROVE Calling'
  BY <1>1 DEF LoadKernel, Calling, InCall
<1>2. ASSUME NEW f \in Modules, LoadModule(f) PROVE Calling'
  <2>1. pc' \in {"ok", "error"}
    BY <1>2 DEF LoadModule
  <2> QED BY <2>1 DEF Calling, InCall
<1>3. CASE PatchDisabled
  BY <1>3 DEF PatchDisabled, Calling, InCall
<1>4. CASE StartPatch
  BY <1>0, <1>4 DEF StartPatch, Calling
<1>5. CASE SkipModule
  BY <1>0, <1>5 DEF SkipModule, Calling, InCall
<1>6. CASE ReadSet
  BY <1>0, <1>6 DEF ReadSet, Calling, InCall
<1>7. CASE PatchEntry
  BY <1>7, EntryCalling
<1>8. CASE EndModule
  <2> DEFINE new == [modules[m] EXCEPT !.relocated = TRUE, !.shift = (@ + Delta(kernel.parsed)) % Top]
  <2>1. m \in 1 .. Len(modules) /\ modules[m] \in Module
    BY <1>0, <1>8, ElementOfSeq DEF EndModule
  <2>2. new.relocated /\ new.count = modules[m].count
    BY <2>1 DEF Module
  <2>3. modules' = [modules EXCEPT ![m] = new] /\ m' = m + 1 /\ before' = before /\ pc' = "module"
    BY <1>8 DEF EndModule
  <2> HIDE DEF new
  <2>4. /\ Len(modules') = Len(modules)
        /\ \A j \in 1 .. Len(modules) : j # m => modules'[j] = modules[j]
        /\ modules'[m].relocated /\ modules'[m].count = modules[m].count
    BY <1>0, <2>1, <2>2, <2>3
  <2>5. InCall
    BY <1>8 DEF EndModule, InCall
  <2> QED BY <1>0, <2>1, <2>3, <2>4, <2>5 DEF Calling
<1>9. CASE EndPatch
  BY <1>0, <1>9 DEF EndPatch, Calling, InCall, call
<1>10. CASE UNCHANGED vars
  BY <1>10 DEF vars, call, Calling, InCall
<1> QED
  BY <1>1, <1>2, <1>3, <1>4, <1>5, <1>6, <1>7, <1>8, <1>9, <1>10 DEF Next

\* A failure stops the call and leaves the modules after it alone.
THEOREM FailureStops == Spec => []StopsAtFailure
<1>1. Init => Typed /\ Calling
  BY DEF Init, Typed, TypeOK, KernelFile, Calling, InCall
<1>2. Typed /\ Calling => StopsAtFailure
  <2> SUFFICES ASSUME Typed, Calling, InCall, NEW j \in DOMAIN modules
               PROVE  /\ j < m /\ before[j].count > 0 => modules[j].relocated
                      /\ j >= m => modules[j].relocated = before[j].relocated
                      /\ j > m => modules[j] = before[j]
    BY DEF StopsAtFailure
  <2>1. j \in 1 .. Len(modules)
    BY DEF Typed, TypeOK
  <2> QED BY <2>1 DEF Calling
<1> QED BY <1>1, <1>2, TypeStep, CallStep, PTL DEF Spec
---------------------------------------------------------------------------
\* A name resolves to the last symbol of that name that has a value.
LEMMA SymbolLast ==
  ASSUME kernel.symbols \in KernelFile, NEW name, SymbolsNamed(name) # {}
  PROVE  \E i \in DOMAIN kernel.symbols.symbols :
           /\ kernel.symbols.symbols[i].name = name /\ kernel.symbols.symbols[i].value # 0
           /\ \A j \in i + 1 .. Len(kernel.symbols.symbols) :
                ~(kernel.symbols.symbols[j].name = name /\ kernel.symbols.symbols[j].value # 0)
           /\ Symbol(name) = kernel.symbols.symbols[i].value
<1> DEFINE table == kernel.symbols.symbols
           Named == SymbolsNamed(name)
           last == CHOOSE i \in Named : \A j \in Named : j <= i
<1>1. Len(table) \in Nat /\ DOMAIN table = 1 .. Len(table)
  BY DEF KernelFile, NoFile
<1>2. Named \subseteq DOMAIN table /\ Named # {}
  BY DEF SymbolsNamed
<1>3. \A j \in DOMAIN table : j \in Named <=> table[j].name = name /\ table[j].value # 0
  BY DEF SymbolsNamed
<1>4. Symbol(name) = table[last].value
  BY DEF Symbol
<1> HIDE DEF Named
<1>5. \E i \in Named : \A j \in Named : j <= i
  BY <1>1, <1>2, Greatest
<1>6. last \in Named /\ \A j \in Named : j <= last
  BY <1>5
<1> HIDE DEF last, table
<1>7. last \in DOMAIN table /\ \A j \in last + 1 .. Len(table) : j \in DOMAIN table /\ j \notin Named
  BY ONLY <1>1, <1>2, <1>6
<1> QED BY ONLY <1>3, <1>4, <1>6, <1>7 DEF table

\* An entry that is patched without error means what its type asks for, and
\* its data does not leave the module where the code reads there.
LEMMA PatchedMeans ==
  ASSUME kernel.symbols \in KernelFile, NEW f, NEW type, NEW data \in 0 .. Top - 1,
         Bytes(f) \in Nat \ {0}, Patched(f, type, data).outcome = "ok"
  PROVE  /\ Meant(kernel, f, type, data, Patched(f, type, data).value)
         /\ type \in {1, 2} => data < Bytes(f)
<1> DEFINE delta == Delta(kernel.parsed)
           new == Patched(f, type, data).value
           name == IF data < Bytes(f) THEN String(f, data) ELSE <<>>
           table == kernel.symbols.symbols
<1>1. \A v : Sum(v).outcome = "ok" => Sum(v).value = (v + delta) % Top
  BY DEF Sum, Fails, Same
<1>2. Same(data).value = data /\ Fails("failed").outcome # "ok"
  BY DEF Same, Fails
<1>3. CASE data = 0
  <2>1. Patched(f, type, data) = Same(data)
    BY <1>3 DEF Patched
  <2> QED BY <1>2, <1>3, <2>1 DEF Meant
<1>4. CASE data # 0 /\ type = 1
  <2>1. Patched(f, type, data) = Depend(f, data)
    BY <1>4 DEF Patched
  <2>2. data < Bytes(f)
    <3>1. ~(data >= Bytes(f))
      BY <1>2, <2>1, Zenon DEF Depend
    <3> QED BY ONLY <3>1, LoaderAssumption, data \in 0 .. Top - 1, Bytes(f) \in Nat \ {0}
  <2>4. CASE name # <<>> /\ SymbolsNamed(name) # {}
    <3>1. name = String(f, data)
      BY <2>2
    <3>2. Depend(f, data) = Sum(Symbol(name))
      BY <1>2, <2>1, <2>2, <2>4, <3>1 DEF Depend
    <3>3. new = (Symbol(name) + delta) % Top
      BY <1>1, <2>1, <3>2
    <3> HIDE DEF new, delta, name
    <3>4. PICK i \in DOMAIN table :
            /\ table[i].name = name /\ table[i].value # 0
            /\ \A j \in i + 1 .. Len(table) : ~(table[j].name = name /\ table[j].value # 0)
            /\ Symbol(name) = table[i].value
      BY <2>4, SymbolLast
    <3>5. new = (table[i].value + delta) % Top
      BY <3>3, <3>4
    <3>6. type \notin {2, 3}
      BY <1>4
    <3>7. Meant(kernel, f, type, data, new)
      BY <1>4, <2>4, <3>4, <3>5, <3>6, Zenon DEF Meant, name, delta
    <3> QED BY <2>2, <3>7 DEF new
  <2>5. CASE name = <<>> \/ SymbolsNamed(name) = {}
    <3>1. name = String(f, data)
      BY <2>2
    <3>2. new = data
      BY <1>2, <2>1, <2>2, <2>5, <3>1 DEF Depend
    <3>3. name = <<>> \/ ~\E i \in DOMAIN table : table[i].name = name /\ table[i].value # 0
      BY <2>5 DEF SymbolsNamed
    <3> HIDE DEF new, name
    <3>4. type \notin {2, 3}
      BY <1>4
    <3>5. Meant(kernel, f, type, data, new)
      BY <1>4, <3>2, <3>3, <3>4, Zenon DEF Meant, name
    <3> QED BY <2>2, <3>5 DEF new
  <2> QED BY <2>4, <2>5
<1>5. CASE data # 0 /\ type = 2
  <2>1. Patched(f, type, data) = ModuleName(f, data)
    BY <1>5 DEF Patched
  <2>2. data < Bytes(f) /\ ModuleName(f, data) = Sum(data)
    BY <1>2, <2>1 DEF ModuleName
  <2> QED BY <1>1, <1>5, <2>1, <2>2 DEF Meant
<1>6. CASE data # 0 /\ type = 3
  <2>1. Patched(f, type, data) = Sum(data)
    BY <1>6 DEF Patched
  <2> QED BY <1>1, <1>6, <2>1 DEF Meant
<1>7. CASE data # 0 /\ type \notin {1, 2, 3}
  <2>1. Patched(f, type, data) = Same(data)
    BY <1>7 DEF Patched
  <2> QED BY <1>2, <1>7, <2>1 DEF Meant
<1> QED BY <1>3, <1>4, <1>5, <1>6, <1>7

\* Following one pointer: its data word becomes what it means, and those of all
\* entries before it stay what they mean.
LEMMA EntryPatched ==
  ASSUME kernel.symbols \in KernelFile, NEW f \in Module, NEW g \in Module,
         Bytes(g) = Bytes(f), SetEnd(f) <= Bytes(f), Separate(f, PointersOf(f)),
         NEW n \in Nat, n + 1 <= f.count, PatchedTo(kernel, f, g, n),
         NEW p, p = PointersOf(f)[n + 1], Inside(g, p),
         NEW r, r = Patched(g, U32(g, p), U64(g, p + 8)), r.outcome = "ok"
  PROVE  PatchedTo(kernel, f, Set(g, p + 8, r.value), n + 1)
<1> DEFINE ps == PointersOf(f)
           L == Bytes(f)
           type == U32(f, p)
           data == U64(f, p + 8)
           end == StringEnd(f, data)
           h == Set(g, p + 8, r.value)
<1>1. /\ f.data \in Data /\ g.data \in Data /\ f.count \in Nat /\ L \in Nat
      /\ DOMAIN f.data = 1 .. L /\ DOMAIN g.data = 1 .. L
  <2>1. f.data \in Data /\ g.data \in Data /\ f.count \in Nat
    BY Fields
  <2> QED BY <2>1, ByteFacts
<1>2. DOMAIN ps = 1 .. f.count /\ ps \in Seq(0 .. Top - 1)
  BY Fields, Pointers
<1>3. /\ \A i \in 1 .. n : i \in DOMAIN ps /\ ps[i] \in Nat
      /\ n + 1 \in DOMAIN ps /\ p \in Nat
  <2>1. n + 1 \in DOMAIN ps /\ \A i \in 1 .. n : i \in DOMAIN ps
    BY <1>1, <1>2
  <2>2. \A i \in DOMAIN ps : ps[i] \in Nat
    <3>1. \A i \in DOMAIN ps : ps[i] \in 0 .. Top - 1
      BY <1>1, <1>2, ElementOfSeq
    <3> QED BY <3>1
  <2> QED BY <2>1, <2>2
<1>4. Inside(f, p) /\ p + 16 <= L
  BY <1>1 DEF Inside
<1> HIDE DEF ps, L, type, data, end, h
<1>5. ASSUME NEW i \in 1 .. n, Inside(f, ps[i])
      PROVE  /\ ps[i] + 16 <= p \/ p + 16 <= ps[i] + 8
             /\ type = 1 /\ data # 0 /\ data < L => ps[i] + 16 <= data \/ end + 1 <= ps[i] + 8
             /\ p + 16 <= ps[i] \/ ps[i] + 16 <= p + 8
  <2>1. i \in Entries(f, ps) /\ n + 1 \in Entries(f, ps) /\ i # n + 1
    BY <1>3, <1>4, <1>5 DEF Entries, ps
  <2>2. DataAt(ps, n + 1) = p + 8 /\ ps[n + 1] = p /\ DataAt(ps, i) = ps[i] + 8
    BY DEF DataAt, ps
  <2>3. /\ Apart(ps[i] + 8, 8, p, 16)
        /\ type = 1 /\ data # 0 /\ data < L => Apart(ps[i] + 8, 8, data, end + 1 - data)
        /\ Apart(p + 8, 8, ps[i], 16)
    <3>1. \A x, y \in Entries(f, ps) : x # y =>
            /\ Apart(DataAt(ps, y), 8, ps[x], 16)
            /\ U32(f, ps[x]) = 1 /\ U64(f, DataAt(ps, x)) # 0 /\ U64(f, DataAt(ps, x)) < Bytes(f) =>
                 Apart(DataAt(ps, y), 8, U64(f, DataAt(ps, x)),
                       StringEnd(f, U64(f, DataAt(ps, x))) + 1 - U64(f, DataAt(ps, x)))
      BY Zenon DEF Separate, ps
    <3> QED BY <2>1, <2>2, <3>1, Zenon DEF type, data, end, L
  <2>4. data \in Nat /\ (data < L => end \in Nat)
    <3>1. p + 8 \in Nat /\ (p + 8) + 8 <= Bytes(f)
      BY <1>3, <1>4 DEF L
    <3>2. data \in 0 .. Top - 1
      BY <1>1, <3>1, ReadType DEF data
    <3>3. ASSUME data < L PROVE end \in data .. L
      <4>1. data \in Nat /\ data <= Bytes(f) /\ f.data \in Data
        BY <1>1, <3>2, <3>3 DEF L
      <4> QED BY <4>1, StringEnds DEF end, L
    <3> QED BY <1>1, <3>2, <3>3
  <2>5. ps[i] \in Nat
    BY <1>3
  <2> QED BY <1>3, <2>3, <2>4, <2>5 DEF Apart
<1>6. ASSUME NEW b \in 1 .. L, \A i \in 1 .. n : Inside(f, ps[i]) => b \notin Writes(ps[i])
      PROVE  g.data[b] = f.data[b]
  BY <1>1, <1>6 DEF PatchedTo, ps
<1>7. ASSUME NEW b \in p + 1 .. p + 16 PROVE g.data[b] = f.data[b]
  <2>1. b \in 1 .. L
    BY <1>1, <1>3, <1>4
  <2>2. ASSUME NEW i \in 1 .. n, Inside(f, ps[i]) PROVE b \notin Writes(ps[i])
    <3>1. ps[i] + 16 <= p \/ p + 16 <= ps[i] + 8
      BY <1>5, <2>2
    <3>2. ps[i] \in Nat
      BY <1>3
    <3> QED BY <1>3, <3>1, <3>2 DEF Writes
  <2> QED BY <1>6, <2>1, <2>2
<1>8. U32(g, p) = type /\ U64(g, p + 8) = data
  <2>1. \A i \in 1 .. 4 : p + i \in p + 1 .. p + 16
    BY <1>3
  <2>2. \A i \in 1 .. 8 : (p + 8) + i \in p + 1 .. p + 16
    BY <1>3, SMTT(60)
  <2>3. \A i \in 1 .. 4 : g.data[p + i] = f.data[p + i]
    BY <1>7, <2>1
  <2>4. \A i \in 1 .. 8 : g.data[(p + 8) + i] = f.data[(p + 8) + i]
    BY <1>7, <2>2
  <2>5. U32(g, p) = U32(f, p)
    BY ONLY <2>3, TypeSame
  <2>6. U64(g, p + 8) = U64(f, p + 8)
    BY ONLY <2>4, ReadSame
  <2> QED BY <2>5, <2>6, Zenon DEF type, data
<1>9. data \in 0 .. Top - 1
  <2>1. p + 8 \in Nat /\ (p + 8) + 8 <= Bytes(f)
    BY <1>3, <1>4 DEF L
  <2> QED BY <1>1, <2>1, ReadType DEF data
<1>10. ASSUME type = 1, data # 0, data < L PROVE String(g, data) = String(f, data)
  <2>1. data \in Nat /\ data <= Bytes(f) /\ end \in data .. L
    <3>1. data \in Nat /\ data <= Bytes(f)
      BY <1>1, <1>9, <1>10 DEF L
    <3> QED BY <1>1, <3>1, StringEnds DEF end, L
  <2>2. ASSUME NEW b \in data + 1 .. end + 1, b <= L PROVE g.data[b] = f.data[b]
    <3>1. b \in 1 .. L
      BY <1>1, <2>1, <2>2
    <3>2. ASSUME NEW i \in 1 .. n, Inside(f, ps[i]) PROVE b \notin Writes(ps[i])
      <4>1. ps[i] + 16 <= data \/ end + 1 <= ps[i] + 8
        BY <1>5, <1>10, <3>2
      <4>2. ps[i] \in Nat
        BY <1>3
      <4> QED BY <1>1, <2>1, <4>1, <4>2 DEF Writes
    <3> QED BY <1>6, <3>1, <3>2
  <2> QED BY <1>1, <2>1, <2>2, StringSame DEF end, L
<1>11. r = Patched(f, type, data)
  <2>1. Bytes(g) = Bytes(f)
    OBVIOUS
  <2>2. type = 1 /\ data # 0 /\ ~(data >= Bytes(f)) => String(g, data) = String(f, data)
    BY <1>1, <1>9, <1>10 DEF L
  <2>3. type = 1 /\ data # 0 => Depend(g, data) = Depend(f, data)
    BY <2>1, <2>2, Zenon DEF Depend
  <2>4. ModuleName(g, data) = ModuleName(f, data)
    BY <2>1, Zenon DEF ModuleName
  <2>5. Patched(g, type, data) = Patched(f, type, data)
    <3>1. CASE type = 1 /\ data # 0
      <4>1. Depend(g, data) = Depend(f, data)
        BY <2>3, <3>1
      <4> QED BY <2>4, <4>1, Zenon DEF Patched
    <3>2. CASE type # 1 \/ data = 0
      BY <2>4, <3>2 DEF Patched
    <3> QED BY <3>1, <3>2
  <2> QED BY <1>8, <2>5
<1>12. Meant(kernel, f, type, data, r.value) /\ (type \in {1, 2} => data < Bytes(f))
  <2>1. Bytes(f) \in Nat \ {0}
    BY <1>1, <1>3, <1>4 DEF L
  <2> QED BY <1>9, <1>11, <2>1, PatchedMeans
<1>13. /\ \A b \in 1 .. L : b \notin Writes(p) => h.data[b] = g.data[b]
       /\ U64(h, p + 8) = r.value
  <2>1. r.value \in 0 .. Top - 1
    BY <1>9, <1>11, PatchedType
  <2>2. p + 8 \in Nat /\ (p + 8) + 8 <= Bytes(g)
    BY <1>3, <1>4 DEF L
  <2>3. /\ \A b \in 1 .. Bytes(g) : b \notin (p + 8) + 1 .. (p + 8) + 8 => h.data[b] = g.data[b]
        /\ U64(h, p + 8) = r.value
    BY <2>1, <2>2, SetFacts, SMTT(60) DEF h
  <2>4. Writes(p) = (p + 8) + 1 .. (p + 8) + 8
    BY <1>3 DEF Writes
  <2> QED BY <2>3, <2>4 DEF L
<1>14. \A i \in 1 .. n + 1 : i \in 1 .. n \/ i = n + 1
  OBVIOUS
<1>15. \A i \in 1 .. n : i \in 1 .. n + 1
  OBVIOUS
<1>16. n + 1 \in 1 .. n + 1 /\ ps[n + 1] = p
  BY DEF ps
<1>17. ASSUME NEW b \in 1 .. L, \A i \in 1 .. n + 1 : Inside(f, ps[i]) => b \notin Writes(ps[i])
       PROVE  h.data[b] = f.data[b]
  <2>1. b \notin Writes(p)
    BY <1>4, <1>16, <1>17
  <2>2. g.data[b] = f.data[b]
    BY <1>6, <1>15, <1>17
  <2> QED BY <1>13, <2>1, <2>2
<1>18. ASSUME NEW i \in 1 .. n, Inside(f, ps[i])
       PROVE  U64(h, DataAt(ps, i)) = U64(g, DataAt(ps, i))
  <2>1. ps[i] \in Nat /\ ps[i] + 16 <= L /\ (p + 16 <= ps[i] \/ ps[i] + 16 <= p + 8)
        /\ (ps[i] + 16 <= p \/ p + 16 <= ps[i] + 8)
    BY <1>3, <1>5, <1>18 DEF Inside, L
  <2>2. ASSUME NEW j \in 1 .. 8
        PROVE  (ps[i] + 8) + j \in 1 .. L /\ (ps[i] + 8) + j \notin Writes(p)
    <3> DEFINE q == ps[i]
    <3> HIDE DEF q
    <3>1. q \in Nat /\ q + 16 <= L /\ (p + 16 <= q \/ q + 16 <= p + 8)
      BY <2>1 DEF q
    <3>2. (q + 8) + j \in 1 .. L /\ (q + 8) + j \notin p + 9 .. p + 16
      BY ONLY <1>1, <1>3, <3>1, j \in 1 .. 8
    <3> QED BY <3>2 DEF q, Writes
  <2>3. \A j \in 1 .. 8 : h.data[(ps[i] + 8) + j] = g.data[(ps[i] + 8) + j]
    BY <1>13, <2>2
  <2>4. U64(h, ps[i] + 8) = U64(g, ps[i] + 8)
    BY ONLY <2>3, ReadSame
  <2> QED BY <2>4, Zenon DEF DataAt
<1>19. ASSUME NEW i \in 1 .. n + 1, Inside(f, ps[i])
       PROVE  /\ Meant(kernel, f, U32(f, ps[i]), U64(f, DataAt(ps, i)), U64(h, DataAt(ps, i)))
              /\ U32(f, ps[i]) \in {1, 2} => U64(f, DataAt(ps, i)) < Bytes(f)
  <2>1. CASE i = n + 1
    <3>1. ps[i] = p /\ DataAt(ps, i) = p + 8
      BY <1>16, <2>1 DEF DataAt
    <3> QED BY <1>12, <1>13, <3>1 DEF type, data
  <2>2. CASE i \in 1 .. n
    <3>1. /\ Meant(kernel, f, U32(f, ps[i]), U64(f, DataAt(ps, i)), U64(g, DataAt(ps, i)))
          /\ U32(f, ps[i]) \in {1, 2} => U64(f, DataAt(ps, i)) < Bytes(f)
      BY <1>19, <2>2 DEF PatchedTo, ps
    <3> QED BY <1>18, <1>19, <2>2, <3>1
  <2> QED BY <1>14, <2>1, <2>2
<1> QED BY <1>1, <1>17, <1>19 DEF PatchedTo, ps, h

\* A pointer that is null or leads outside changes nothing.
LEMMA EntryPassed ==
  ASSUME NEW f \in Module, NEW g, NEW n \in Nat, PatchedTo(kernel, f, g, n),
         ~Inside(f, PointersOf(f)[n + 1])
  PROVE  PatchedTo(kernel, f, g, n + 1)
<1>1. \A i \in 1 .. n + 1 : i \in 1 .. n \/ i = n + 1
  OBVIOUS
<1>2. \A i \in 1 .. n : i \in 1 .. n + 1
  OBVIOUS
<1> QED BY <1>1, <1>2 DEF PatchedTo

\* Only the bytes of the patched module count.
LEMMA PatchedBytes ==
  ASSUME NEW f, NEW g, NEW h, NEW n, h.data = g.data, PatchedTo(kernel, f, g, n)
  PROVE  PatchedTo(kernel, f, h, n)
<1>1. \A a : U64(h, a) = U64(g, a)
  BY DEF U64, At
<1> QED BY <1>1 DEF PatchedTo

LEMMA NonePatched ==
  ASSUME NEW f
  PROVE  PatchedTo(kernel, f, f, 0)
BY DEF PatchedTo

\* What the invariant says of module j, of a call that is at module mm.
Kept(kern, f, g, j, mm, here, n) ==
  /\ Len(f.data) = Len(g.data) /\ f.offset = g.offset /\ f.count = g.count
  /\ j > mm \/ (j = mm /\ here = "module") => g = f
  /\ j < mm /\ f.count > 0 => SetEnd(f) <= Bytes(f)
  /\ SetEnd(f) <= Bytes(f) /\ Separate(f, PointersOf(f)) => PatchedTo(kern, f, g, n)

LEMMA PatchInvKept ==
  PatchInv <=>
    (InCall =>
       /\ Len(before) = Len(modules) /\ AtEntry
       /\ \A j \in 1 .. Len(modules) : Kept(kernel, before[j], modules[j], j, m, pc, Reached(j)))
BY DEF PatchInv, Kept

\* The invariant is kept where the modules stay, and only the place in the
\* call moves.
LEMMA PlaceStep ==
  ASSUME PatchInv, InCall, UNCHANGED <<kernel, modules, before>>, AtEntry',
         \A j \in 1 .. Len(modules) : Reached(j)' = Reached(j),
         \A j \in 1 .. Len(modules) :
           /\ j > m' \/ (j = m' /\ pc' = "module") => j > m \/ (j = m /\ pc = "module")
           /\ j < m' /\ before[j].count > 0 => j < m \/ SetEnd(before[j]) <= Bytes(before[j])
  PROVE  PatchInv'
<1>1. /\ Len(before) = Len(modules)
      /\ \A j \in 1 .. Len(modules) : Kept(kernel, before[j], modules[j], j, m, pc, Reached(j))
  BY PatchInvKept
<1>2. ASSUME NEW j \in 1 .. Len(modules)
      PROVE  Kept(kernel, before[j], modules[j], j, m', pc', Reached(j)')
  BY <1>1 DEF Kept
<1>3. /\ Len(before') = Len(modules')
      /\ \A j \in 1 .. Len(modules') : Kept(kernel', before'[j], modules'[j], j, m', pc', Reached(j)')
  BY <1>1, <1>2
<1> QED BY <1>3 DEF PatchInv, Kept

\* One entry of the set is followed, or fails and stops the call.
LEMMA EntryStep ==
  ASSUME Typed, Calling, PatchInv, PatchEntry
  PROVE  PatchInv'
<1> DEFINE f == before[m]
           g == modules[m]
           p == ptrs[k]
           r == IF Bound(g, p + 16) = "panic" THEN Fails("panic")
                ELSE IF ~Inside(g, p) THEN Same(0)
                ELSE Patched(g, U32(g, p), U64(g, p + 8))
           new == Set(g, p + 8, r.value)
<1>1. /\ modules \in Seq(Module) /\ before \in Seq(Module)
      /\ m \in 1 .. Len(modules) /\ k \in 1 .. Len(ptrs) /\ pc = "entry"
      /\ kernel.symbols \in KernelFile
  BY DEF Typed, TypeOK, PatchEntry
<1>2. InCall
  BY <1>1 DEF InCall
<1>3. /\ Len(before) = Len(modules)
      /\ \A j \in 1 .. Len(modules) : Kept(kernel, before[j], modules[j], j, m, pc, Reached(j))
      /\ SetEnd(f) <= Bytes(f) /\ ptrs = PointersOf(f)
  BY <1>1, <1>2, PatchInvKept DEF AtEntry
<1>4. f \in Module /\ g \in Module
  BY <1>1, <1>3, ElementOfSeq
<1>5. Len(ptrs) = f.count /\ f.count \in Nat
  <2>1. DOMAIN ptrs = 1 .. f.count /\ f.count \in Nat
    BY <1>3, <1>4, Fields, Pointers
  <2>2. ptrs \in Seq(0 .. Top - 1)
    BY DEF Typed, TypeOK
  <2> QED BY <2>1, <2>2
<1>6. \A j \in 1 .. Len(modules) :
        Reached(j) = IF j < m THEN before[j].count ELSE IF j = m THEN k - 1 ELSE 0
  BY <1>1, <1>3 DEF Reached
<1>7. Kept(kernel, f, g, m, m, pc, k - 1)
  BY <1>1, <1>3, <1>6
<1>8. UNCHANGED <<kernel, m, ptrs, before>>
  BY DEF PatchEntry
<1>9. CASE r.outcome # "ok"
  <2>1. pc' = r.outcome /\ UNCHANGED <<modules, k>>
    BY <1>9 DEF PatchEntry
  <2>2. pc' \in {"failed", "panic"}
    <3>1. r.outcome \in {"ok", "failed", "panic"}
      BY PatchedOutcome DEF Fails, Same
    <3> HIDE DEF r
    <3> QED BY <1>9, <2>1, <3>1
  <2> HIDE DEF r
  <2>3. CASE pc' = "panic"
    BY <2>3 DEF PatchInv, InCall
  <2>4. CASE pc' = "failed"
    <3>1. AtEntry'
      BY <1>1, <1>3, <1>5, <1>8, <2>1, <2>4 DEF AtEntry
    <3>2. \A j \in 1 .. Len(modules) : Reached(j)' = Reached(j)
      BY <1>8, <2>1 DEF Reached
    <3> QED BY <1>1, <1>2, <1>8, <2>1, <2>4, <3>1, <3>2, PlaceStep
  <2> QED BY <2>2, <2>3, <2>4
<1>10. CASE r.outcome = "ok"
  <2>1. /\ modules' = IF Inside(g, p) THEN [modules EXCEPT ![m] = new] ELSE modules
        /\ k' = k + 1 /\ pc' = pc
    BY <1>10 DEF PatchEntry
  <2>3. Inside(g, p) => r = Patched(g, U32(g, p), U64(g, p + 8))
    <3>1. ~(Bound(g, p + 16) = "panic")
      BY <1>10 DEF Fails
    <3> QED BY <3>1
  <2> DEFINE h == modules'[m]
  <2>4. /\ Len(modules') = Len(modules)
        /\ \A j \in 1 .. Len(modules) : j # m => modules'[j] = modules[j]
        /\ h = IF Inside(g, p) THEN new ELSE g
    <3> HIDE DEF g, p, new
    <3>1. CASE Inside(g, p)
      BY <1>1, <2>1, <3>1
    <3>2. CASE ~Inside(g, p)
      BY <1>1, <2>1, <3>2 DEF g
    <3> QED BY <3>1, <3>2
  <2>5. /\ Len(f.data) = Len(g.data) /\ f.offset = g.offset /\ f.count = g.count
        /\ SetEnd(f) <= Bytes(f) /\ Separate(f, PointersOf(f)) => PatchedTo(kernel, f, g, k - 1)
    BY <1>7 DEF Kept
  <2>6. Len(h.data) = Len(g.data) /\ h.offset = g.offset /\ h.count = g.count
    <3>1. CASE Inside(g, p)
      <4> HIDE DEF r, g, h
      <4>1. /\ Len(Set(g, p + 8, r.value).data) = Len(g.data)
            /\ Set(g, p + 8, r.value).offset = g.offset /\ Set(g, p + 8, r.value).count = g.count
        BY <1>4, SetKeeps
      <4> QED BY <2>4, <3>1, <4>1
    <3>2. CASE ~Inside(g, p)
      BY <2>4, <3>2
    <3> QED BY <3>1, <3>2
  <2>7. ASSUME Separate(f, PointersOf(f)) PROVE PatchedTo(kernel, f, h, k)
    <3> DEFINE n == k - 1
    <3>1. n \in Nat /\ n + 1 = k /\ n + 1 <= f.count
      BY <1>1, <1>5
    <3>2. p = PointersOf(f)[n + 1]
      BY <1>3, <3>1
    <3>3. PatchedTo(kernel, f, g, n)
      BY <1>3, <2>5, <2>7
    <3> HIDE DEF n
    <3>4. CASE Inside(g, p)
      <4>1. r = Patched(g, U32(g, p), U64(g, p + 8)) /\ Bytes(g) = Bytes(f)
        BY <2>3, <2>5, <3>4 DEF Bytes
      <4> HIDE DEF f, g, p, r
      <4>2. PatchedTo(kernel, f, Set(g, p + 8, r.value), n + 1)
        BY <1>1, <1>3, <1>4, <1>10, <2>5, <2>7, <3>1, <3>2, <3>3, <3>4, <4>1, EntryPatched
      <4> QED BY <2>4, <3>1, <3>4, <4>2
    <3>5. CASE ~Inside(g, p)
      <4>1. ~Inside(f, p)
        BY <2>5, <3>5 DEF Inside, Bytes
      <4> HIDE DEF f, g, p, r
      <4>2. PatchedTo(kernel, f, g, n + 1)
        BY <1>4, <3>1, <3>2, <3>3, <4>1, EntryPassed
      <4> QED BY <2>4, <3>1, <3>5, <4>2
    <3> QED BY <3>4, <3>5
  <2> HIDE DEF r, new, h
  <2>8. Kept(kernel, f, h, m, m, pc, k)
    BY <1>1, <2>5, <2>6, <2>7 DEF Kept
  <2>9. \A j \in 1 .. Len(modules) :
          Reached(j)' = IF j < m THEN before[j].count ELSE IF j = m THEN k ELSE 0
    BY <1>1, <1>3, <1>8, <2>1 DEF Reached
  <2>10. \A j \in 1 .. Len(modules) :
           Kept(kernel', before'[j], modules'[j], j, m', pc', Reached(j)')
    <3> SUFFICES ASSUME NEW j \in 1 .. Len(modules)
                 PROVE  Kept(kernel, before[j], modules'[j], j, m, pc, Reached(j)')
      BY <1>8, <2>1
    <3>1. CASE j = m
      BY <1>1, <2>8, <2>9, <3>1 DEF h
    <3>2. CASE j # m
      <4>1. Reached(j)' = Reached(j) /\ modules'[j] = modules[j]
        BY <1>1, <1>6, <2>4, <2>9, <3>2
      <4> QED BY <1>3, <4>1
    <3> QED BY <3>1, <3>2
  <2>11. AtEntry'
    BY <1>1, <1>3, <1>8, <2>1 DEF AtEntry
  <2> HIDE DEF f, g, p
  <2> QED BY <1>3, <1>8, <2>4, <2>10, <2>11 DEF PatchInv, Kept
<1> QED BY <1>9, <1>10

\* The set of a module has been followed to its end.
LEMMA EndModuleStep ==
  ASSUME Typed, PatchInv, EndModule
  PROVE  PatchInv'
<1> DEFINE new == [modules[m] EXCEPT !.relocated = TRUE, !.shift = (@ + Delta(kernel.parsed)) % Top]
<1>1. /\ modules \in Seq(Module) /\ before \in Seq(Module) /\ ptrs \in Seq(0 .. Top - 1)
      /\ m \in 1 .. Len(modules) /\ k = Len(ptrs) + 1 /\ pc = "entry"
  <2>1. /\ modules \in Seq(Module) /\ before \in Seq(Module) /\ ptrs \in Seq(0 .. Top - 1)
        /\ pc = "entry" /\ m \in 1 .. Len(modules) + 1 /\ m <= Len(modules)
        /\ k \in 1 .. Len(ptrs) + 1 /\ k > Len(ptrs)
    BY DEF Typed, TypeOK, EndModule
  <2>2. Len(modules) \in Nat /\ Len(ptrs) \in Nat
    BY ONLY <2>1
  <2> QED BY ONLY <2>1, <2>2
<1>2. InCall
  BY <1>1 DEF InCall
<1>3. /\ Len(before) = Len(modules)
      /\ \A j \in 1 .. Len(modules) : Kept(kernel, before[j], modules[j], j, m, pc, Reached(j))
      /\ SetEnd(before[m]) <= Bytes(before[m]) /\ ptrs = PointersOf(before[m])
  BY <1>1, <1>2, PatchInvKept DEF AtEntry
<1>4. before[m] \in Module /\ modules[m] \in Module
  BY <1>1, <1>3, ElementOfSeq
<1>5. Len(ptrs) = before[m].count
  <2>1. DOMAIN ptrs = 1 .. before[m].count /\ before[m].count \in Nat
    BY <1>3, <1>4, Fields, Pointers
  <2> QED BY <1>1, <2>1
<1>6. /\ m' = m + 1 /\ k' = 1 /\ pc' = "module"
      /\ modules' = [modules EXCEPT ![m] = new]
      /\ UNCHANGED <<kernel, before>>
  BY DEF EndModule
<1>7. new.data = modules[m].data /\ new.offset = modules[m].offset /\ new.count = modules[m].count
  BY <1>4 DEF Module
<1> HIDE DEF new
<1>8. /\ Len(modules') = Len(modules) /\ modules'[m] = new
      /\ \A j \in 1 .. Len(modules) : j # m => modules'[j] = modules[j]
  BY <1>1, <1>6
<1>9. \A j \in 1 .. Len(modules) : Reached(j)' = Reached(j)
  BY <1>1, <1>3, <1>5, <1>6 DEF Reached
<1>10. ASSUME NEW j \in 1 .. Len(modules)
       PROVE  Kept(kernel, before[j], modules'[j], j, m + 1, "module", Reached(j))
  <2>1. Kept(kernel, before[j], modules[j], j, m, pc, Reached(j))
    BY <1>3
  <2>2. CASE j = m
    <3>1. PatchedTo(kernel, before[j], modules[j], Reached(j))
            => PatchedTo(kernel, before[j], new, Reached(j))
      BY <1>7, <2>2, PatchedBytes
    <3>2. modules'[j] = new /\ ~(j > m + 1 \/ (j = m + 1 /\ "module" = "module"))
      BY <1>1, <1>8, <2>2
    <3> QED BY <1>3, <1>7, <2>1, <2>2, <3>1, <3>2 DEF Kept
  <2>3. CASE j # m
    <3>1. j >= m + 1 => j > m
      BY <1>1, <2>3
    <3>2. j < m + 1 => j < m
      BY <1>1, <2>3
    <3>3. j > m + 1 => j > m
      BY <1>1
    <3> QED BY <1>8, <2>1, <2>3, <3>1, <3>2, <3>3 DEF Kept
  <2> QED BY <2>2, <2>3
<1>11. AtEntry'
  BY <1>6 DEF AtEntry
<1>12. \A j \in 1 .. Len(modules') : Kept(kernel', before'[j], modules'[j], j, m', pc', Reached(j)')
  BY <1>6, <1>8, <1>9, <1>10
<1> QED BY <1>3, <1>6, <1>8, <1>11, <1>12 DEF PatchInv, Kept

LEMMA PatchStep ==
  ASSUME Typed, Calling, PatchInv, [Next]_vars
  PROVE  PatchInv'
<1>0. /\ modules \in Seq(Module) /\ before \in Seq(Module) /\ m \in 1 .. Len(modules) + 1
      /\ (pc = "entry" => m <= Len(modules)) /\ k \in 1 .. Len(ptrs) + 1
  BY DEF Typed, TypeOK
<1>1. ASSUME NEW f \in Kernels, LoadKernel(f) PROVE PatchInv'
  <2>1. pc' \in {"error", "panic", "ok"}
    BY <1>1 DEF LoadKernel
  <2> QED BY <2>1 DEF PatchInv, InCall
<1>2. ASSUME NEW f \in Modules, LoadModule(f) PROVE PatchInv'
  <2>1. pc' \in {"error", "ok"}
    BY <1>2 DEF LoadModule
  <2> QED BY <2>1 DEF PatchInv, InCall
<1>3. CASE PatchDisabled
  BY <1>3 DEF PatchDisabled, PatchInv, InCall
<1>4. CASE StartPatch
  <2>1. m' = 1 /\ before' = modules /\ k' = 1 /\ pc' = "module" /\ modules' = modules /\ kernel' = kernel
    BY <1>4 DEF StartPatch
  <2>2. AtEntry'
    BY <2>1 DEF AtEntry
  <2>3. \A j \in 1 .. Len(modules) : Reached(j)' = 0
    BY <2>1 DEF Reached
  <2>4. \A j \in 1 .. Len(modules) : Kept(kernel, modules[j], modules[j], j, 1, "module", 0)
    BY NonePatched DEF Kept
  <2>5. \A j \in 1 .. Len(modules') : Kept(kernel', before'[j], modules'[j], j, m', pc', Reached(j)')
    BY <2>1, <2>3, <2>4
  <2> QED BY <2>1, <2>2, <2>5 DEF PatchInv, Kept
<1>5. CASE SkipModule
  <2>1. /\ pc = "module" /\ pc' = pc /\ m <= Len(modules) /\ modules[m].count = 0 /\ m' = m + 1
        /\ UNCHANGED <<kernel, modules, before, k>>
    BY <1>5 DEF SkipModule
  <2>2. InCall
    BY <2>1 DEF InCall
  <2>3. k = 1 /\ AtEntry'
    BY <2>1, <2>2 DEF PatchInv, AtEntry
  <2>4. before[m].count = 0
    BY <1>0, <2>1, <2>2 DEF PatchInv
  <2>5. \A j \in 1 .. Len(modules) : Reached(j)' = Reached(j)
    BY <1>0, <2>1, <2>3, <2>4 DEF Reached
  <2>6. \A j \in 1 .. Len(modules) :
          /\ j > m' \/ (j = m' /\ pc' = "module") => j > m \/ (j = m /\ pc = "module")
          /\ j < m' /\ before[j].count > 0 => j < m \/ SetEnd(before[j]) <= Bytes(before[j])
    BY <1>0, <2>1, <2>4
  <2> QED BY <2>1, <2>2, <2>3, <2>5, <2>6, PlaceStep
<1>6. CASE ReadSet
  <2> DEFINE f == modules[m]
  <2>1. /\ pc = "module" /\ m \in 1 .. Len(modules) /\ UNCHANGED <<kernel, modules, before, m>>
    BY <1>0, <1>6 DEF ReadSet
  <2>2. InCall
    BY <2>1 DEF InCall
  <2>3. before[m] = f /\ k = 1
    BY <2>1, <2>2 DEF PatchInv, AtEntry
  <2>4. f \in Module
    BY <1>0, <2>1, ElementOfSeq
  <2>5. /\ Bound(f, SetEnd(f)) \in {"inside", "outside", "panic"}
        /\ Bound(f, SetEnd(f)) = "inside" <=> SetEnd(f) <= Bytes(f)
    BY <2>4, Fields, BoundFacts
  <2>6. k' = 1 /\ (\/ pc' = "panic"
                   \/ pc' = "failed" /\ ~(SetEnd(f) <= Bytes(f))
                   \/ pc' = "entry" /\ ptrs' = PointersOf(f) /\ SetEnd(f) <= Bytes(f))
    BY <1>6, <2>3, <2>5 DEF ReadSet
  <2>8. CASE pc' = "panic"
    BY <2>8 DEF PatchInv, InCall
  <2>9. CASE pc' # "panic"
    <3>1. AtEntry'
      BY <1>0, <2>1, <2>3, <2>6, <2>9 DEF AtEntry
    <3>2. \A j \in 1 .. Len(modules) : Reached(j)' = Reached(j)
      BY <2>1, <2>3, <2>6 DEF Reached
    <3>3. pc' # "module"
      BY <2>6
    <3> QED BY <2>1, <2>2, <3>1, <3>2, <3>3, PlaceStep
  <2> QED BY <2>8, <2>9
<1>7. CASE PatchEntry
  BY <1>7, EntryStep
<1>8. CASE EndModule
  BY <1>8, EndModuleStep
<1>9. CASE EndPatch
  <2>1. /\ pc = "module" /\ pc' = "patched" /\ m > Len(modules)
        /\ UNCHANGED <<kernel, modules, before, m, k>>
    BY <1>9 DEF EndPatch, call
  <2>2. InCall
    BY <2>1 DEF InCall
  <2>3. AtEntry'
    BY <2>1 DEF AtEntry
  <2>4. \A j \in 1 .. Len(modules) : Reached(j)' = Reached(j)
    BY <2>1 DEF Reached
  <2> QED BY <2>1, <2>2, <2>3, <2>4, PlaceStep
<1>10. CASE UNCHANGED vars
  <2>1. UNCHANGED <<pc, kernel, modules, before, m, k, ptrs>>
    BY <1>10 DEF vars, call
  <2>2. CASE InCall
    <3>1. AtEntry'
      BY <2>1, <2>2 DEF PatchInv, AtEntry
    <3>2. \A j \in 1 .. Len(modules) : Reached(j)' = Reached(j)
      BY <2>1 DEF Reached
    <3> QED BY <2>1, <2>2, <3>1, <3>2, PlaceStep
  <2>3. CASE ~InCall
    BY <2>1, <2>3 DEF PatchInv, InCall
  <2> QED BY <2>2, <2>3
<1> QED
  BY <1>1, <1>2, <1>3, <1>4, <1>5, <1>6, <1>7, <1>8, <1>9, <1>10 DEF Next

\* What holds of every call of patch_modmetadata.
LEMMA PatchAlways == Spec => [](Typed /\ Calling /\ PatchInv)
<1>1. Init => Typed /\ Calling /\ PatchInv
  BY DEF Init, Typed, TypeOK, KernelFile, Calling, PatchInv, InCall
<1> QED BY <1>1, TypeStep, CallStep, PatchStep, PTL DEF Spec

\* Followed counts what Reached counts.
LEMMA FollowedReached ==
  ASSUME Typed, PatchInv, InCall, NEW j \in 1 .. Len(modules), SetEnd(before[j]) <= Bytes(before[j])
  PROVE  /\ DOMAIN Followed(j) = 1 .. Reached(j)
         /\ \A i \in 1 .. Reached(j) : Followed(j)[i] = PointersOf(before[j])[i]
<1> DEFINE f == before[j]
           ps == PointersOf(f)
<1>1. /\ modules \in Seq(Module) /\ before \in Seq(Module)
      /\ m \in 1 .. Len(modules) + 1 /\ k \in 1 .. Len(ptrs) + 1
      /\ Len(before) = Len(modules) /\ AtEntry
  BY DEF Typed, TypeOK, PatchInv
<1>2. f \in Module
  BY <1>1, ElementOfSeq
<1>3. DOMAIN ps = 1 .. f.count /\ f.count \in Nat /\ ps \in Seq(0 .. Top - 1)
  BY <1>2, Fields, Pointers
<1>4. CASE j < m
  BY <1>3, <1>4 DEF Followed, Reached
<1>5. CASE j = m
  <2>1. k - 1 \in 0 .. f.count
    <3>1. CASE pc = "module"
      BY <1>1, <1>3, <3>1 DEF AtEntry
    <3>2. CASE pc = "entry"
      <4>1. ptrs = ps
        BY <1>1, <1>5, <3>2 DEF AtEntry
      <4>2. Len(ps) = f.count
        BY <1>3
      <4> QED BY <1>1, <1>3, <4>1, <4>2
    <3>3. CASE pc = "failed"
      <4>1. k <= f.count /\ k >= 1 /\ k \in Int
        BY <1>1, <1>5, <3>3 DEF AtEntry
      <4> QED BY <1>3, <4>1
    <3>4. CASE pc = "patched"
      BY <1>1, <1>5, <3>4 DEF AtEntry
    <3> QED BY <3>1, <3>2, <3>3, <3>4 DEF InCall
  <2>2. Followed(j) = SubSeq(ps, 1, k - 1) /\ Reached(j) = k - 1
    BY <1>1, <1>5 DEF Followed, Reached
  <2> HIDE DEF ps, f
  <2>3. /\ DOMAIN SubSeq(ps, 1, k - 1) = 1 .. k - 1
        /\ \A i \in 1 .. k - 1 : SubSeq(ps, 1, k - 1)[i] = ps[i]
    BY <1>3, <2>1
  <2> QED BY <2>2, <2>3 DEF ps, f
<1>6. CASE j > m
  BY <1>1, <1>6 DEF Followed, Reached
<1> QED BY <1>1, <1>4, <1>5, <1>6

\* patch_modmetadata, in the middle, at its end and where it fails: what it
\* has followed is patched once, as its type asks, and nothing else has moved.
THEOREM PatchIsExact == Spec => []PatchExact
<1>1. Typed /\ PatchInv => PatchExact
  <2> SUFFICES ASSUME Typed, PatchInv, InCall, NEW j \in DOMAIN modules,
                      SetEnd(before[j]) <= Bytes(before[j]),
                      Separate(before[j], PointersOf(before[j]))
               PROVE  LET f == before[j]
                          ps == Followed(j)
                          hit == Entries(f, ps) IN
                      /\ \A b \in DOMAIN f.data \ UNION {Writes(ps[i]) : i \in hit} :
                           modules[j].data[b] = f.data[b]
                      /\ \A i \in hit :
                           Meant(kernel, f, U32(f, ps[i]), U64(f, DataAt(ps, i)), U64(modules[j], DataAt(ps, i)))
    BY DEF PatchExact
  <2>0. j \in 1 .. Len(modules)
    <3>1. modules \in Seq(Module)
      BY DEF Typed, TypeOK
    <3> QED BY <3>1
  <2> DEFINE f == before[j]
             g == modules[j]
             ps == Followed(j)
             all == PointersOf(f)
             n == Reached(j)
             hit == Entries(f, ps)
  <2>1. DOMAIN ps = 1 .. n /\ \A i \in 1 .. n : ps[i] = all[i]
    BY <2>0, FollowedReached
  <2>2. PatchedTo(kernel, f, g, n)
    BY <2>0 DEF PatchInv
  <2> HIDE DEF f, g, ps, all, n
  <2>3. \A i : i \in Entries(f, ps) <=> i \in 1 .. n /\ Inside(f, all[i])
    BY <2>1 DEF Entries
  <2>4. ASSUME NEW b \in DOMAIN f.data, b \notin UNION {Writes(ps[i]) : i \in hit}
        PROVE  g.data[b] = f.data[b]
    <3>1. \A i \in hit : b \notin Writes(ps[i])
      BY <2>4
    <3>2. \A i \in 1 .. n : Inside(f, all[i]) => b \notin Writes(all[i])
      BY <2>1, <2>3, <3>1
    <3> QED BY <2>2, <2>4, <3>2 DEF PatchedTo, all
  <2>5. ASSUME NEW i \in hit
        PROVE  Meant(kernel, f, U32(f, ps[i]), U64(f, DataAt(ps, i)), U64(g, DataAt(ps, i)))
    <3>1. i \in 1 .. n /\ Inside(f, all[i]) /\ ps[i] = all[i] /\ DataAt(ps, i) = DataAt(all, i)
      BY <2>1, <2>3, <2>5 DEF DataAt
    <3>2. Meant(kernel, f, U32(f, all[i]), U64(f, DataAt(all, i)), U64(g, DataAt(all, i)))
      BY <2>2, <3>1 DEF PatchedTo, all
    <3> QED BY <3>1, <3>2
  <2>6. \A b \in DOMAIN f.data \ UNION {Writes(ps[i]) : i \in hit} : g.data[b] = f.data[b]
    <3> HIDE DEF hit
    <3> QED BY <2>4
  <2> QED BY <2>5, <2>6 DEF f, g, ps
<1> QED BY <1>1, PatchAlways, PTL

\* A call that succeeds has met no dependency or name outside its module.
THEOREM SuccessIsInside == Spec => []SuccessMeansInside
<1>1. Typed /\ PatchInv => SuccessMeansInside
  <2> SUFFICES ASSUME Typed, PatchInv, pc = "patched", NEW j \in DOMAIN before,
                      before[j].count > 0, Separate(before[j], PointersOf(before[j])),
                      NEW i \in Entries(before[j], PointersOf(before[j])),
                      U32(before[j], PointersOf(before[j])[i]) \in {1, 2}
               PROVE  U64(before[j], DataAt(PointersOf(before[j]), i)) < Bytes(before[j])
    BY DEF SuccessMeansInside
  <2> DEFINE f == before[j]
             ps == PointersOf(f)
  <2>1. InCall
    BY DEF InCall
  <2>2. /\ before \in Seq(Module) /\ modules \in Seq(Module)
        /\ Len(before) = Len(modules) /\ m > Len(modules) /\ m \in 1 .. Len(modules) + 1
    BY <2>1 DEF Typed, TypeOK, PatchInv, AtEntry
  <2>3. j \in 1 .. Len(modules) /\ j < m /\ f \in Module
    <3>1. j \in 1 .. Len(modules)
      BY <2>2
    <3> QED BY <2>2, <3>1, ElementOfSeq
  <2>4. PatchedTo(kernel, f, modules[j], f.count)
    BY <2>1, <2>3 DEF PatchInv, Reached
  <2>5. i \in 1 .. f.count /\ Inside(f, ps[i])
    BY <2>3, Fields, Pointers DEF Entries
  <2> HIDE DEF f
  <2> QED BY <2>4, <2>5 DEF PatchedTo, f
<1> QED BY <1>1, PatchAlways, PTL
---------------------------------------------------------------------------
(* VersionsAddUp, across calls.                                            *)

\* The offset is a natural number, also where the code's subtraction wraps.
LEMMA DeltaType == \A f : Delta(f) \in Nat
BY DEF Delta

\* The pointers of a file whose set fits are words.
LEMMA FilePointers ==
  ASSUME NEW f \in Modules
  PROVE  /\ DOMAIN PointersOf(f) = 1 .. f.count /\ f.count \in Nat /\ f.offset \in Nat
         /\ f.data \in Data /\ Bytes(f) \in Nat /\ DOMAIN f.data = 1 .. Bytes(f)
         /\ SetEnd(f) <= Bytes(f) => \A i \in 1 .. f.count : PointersOf(f)[i] \in Nat
<1>1. f.data \in Data /\ f.count \in Nat /\ f.offset \in Nat
  OBVIOUS
<1>2. Bytes(f) \in Nat /\ DOMAIN f.data = 1 .. Bytes(f)
  BY <1>1, ByteFacts
<1>3. DOMAIN PointersOf(f) = 1 .. f.count
  BY DEF PointersOf
<1>4. ASSUME SetEnd(f) <= Bytes(f), NEW i \in 1 .. f.count PROVE PointersOf(f)[i] \in Nat
  <2> DEFINE ps == PointersOf(f)
  <2>1. ps \in Seq(0 .. Top - 1) /\ i \in DOMAIN ps
    BY <1>1, <1>3, <1>4, Pointers
  <2> HIDE DEF ps
  <2>2. ps[i] \in 0 .. Top - 1
    BY <2>1, ElementOfSeq
  <2>3. ps[i] \in Nat
    BY <2>2
  <2> QED BY <2>3 DEF ps
<1> QED BY <1>1, <1>2, <1>3, <1>4

\* One more pointer counts once where it leads.
LEMMA Counted ==
  ASSUME NEW f, NEW p, NEW n \in Nat
  PROVE  /\ Times(f, p, n) \in Nat
         /\ Times(f, p, n + 1) = IF PointersOf(f)[n + 1] = p THEN Times(f, p, n) + 1 ELSE Times(f, p, n)
<1> DEFINE H == HitsTo(f, p, n)
           hit == PointersOf(f)[n + 1] = p
<1>1. IsFiniteSet(H)
  <2>1. IsFiniteSet(1 .. n)
    BY FS_Interval
  <2>2. H \subseteq 1 .. n
    BY DEF HitsTo
  <2> HIDE DEF H
  <2> QED BY <2>1, <2>2, FS_Subset
<1>2. Cardinality(H) \in Nat
  BY <1>1, FS_CardinalityType
<1>3. HitsTo(f, p, n + 1) = IF hit THEN H \cup {n + 1} ELSE H
  <2>1. \A i : i \in 1 .. n + 1 <=> i \in 1 .. n \/ i = n + 1
    OBVIOUS
  <2> QED BY <2>1 DEF HitsTo
<1>4. n + 1 \notin H
  BY DEF HitsTo
<1> HIDE DEF H, hit
<1>5. Cardinality(H \cup {n + 1}) = Cardinality(H) + 1
  BY <1>1, <1>4, FS_AddElement
<1> QED BY <1>2, <1>3, <1>5 DEF Times, H, hit

LEMMA NoneCounted ==
  ASSUME NEW f, NEW p
  PROVE  Times(f, p, 0) = 0
<1>1. HitsTo(f, p, 0) = {}
  BY DEF HitsTo
<1> QED BY <1>1, FS_EmptySet DEF Times

\* Products of counts and offsets are natural numbers.
LEMMA Product == \A a, b \in Nat : a * b \in Nat
OBVIOUS

\* A version of a file: a word, and what it would be with any shift.
LEMMA VersionWord ==
  ASSUME NEW f \in Modules, SetEnd(f) <= Bytes(f), NEW i \in 1 .. f.count, Inside(f, PointersOf(f)[i]),
         NEW shift \in Nat
  PROVE  /\ Times(f, PointersOf(f)[i], f.count) \in Nat
         /\ U64(f, DataAt(PointersOf(f), i)) \in 0 .. Top - 1
         /\ U64(f, DataAt(PointersOf(f), i)) + Times(f, PointersOf(f)[i], f.count) * shift \in Nat
<1> DEFINE p == PointersOf(f)[i]
           x == U64(f, DataAt(PointersOf(f), i))
           t == Times(f, p, f.count)
           y == t * shift
<1>1. f.count \in Nat /\ p \in Nat /\ Bytes(f) \in Nat /\ f.data \in Data
  BY FilePointers
<1>2. t \in Nat
  BY <1>1, Counted
<1>3. x \in 0 .. Top - 1
  <2>1. p + 8 \in Nat /\ (p + 8) + 8 <= Bytes(f)
    <3> HIDE DEF p
    <3>1. Inside(f, p)
      BY DEF p
    <3> QED BY <1>1, <3>1 DEF Inside
  <2>2. x = U64(f, p + 8)
    BY DEF DataAt
  <2> HIDE DEF x, p
  <2> QED BY <1>1, <2>1, <2>2, ReadType
<1> HIDE DEF x, t
<1>4. y \in Nat
  BY <1>2, Product
<1> HIDE DEF y
<1>5. x + y \in Nat
  BY <1>3, <1>4
<1> QED BY <1>2, <1>3, <1>5 DEF x, t, y, p

\* Where versions are: apart from the set, and from each other.
LEMMA VersionsApart ==
  ASSUME NEW f \in Modules, OnlyVersions(f)
  PROVE  \A i \in 1 .. f.count : Inside(f, PointersOf(f)[i]) =>
           /\ U32(f, PointersOf(f)[i]) = 3 /\ PointersOf(f)[i] + 16 <= Bytes(f)
           /\ PointersOf(f)[i] + 16 <= f.offset \/ f.offset + 8 * f.count <= PointersOf(f)[i] + 8
           /\ \A j \in 1 .. f.count : Inside(f, PointersOf(f)[j]) =>
                \/ PointersOf(f)[i] = PointersOf(f)[j]
                \/ PointersOf(f)[i] + 16 <= PointersOf(f)[j]
                \/ PointersOf(f)[j] + 16 <= PointersOf(f)[i]
<1> DEFINE ps == PointersOf(f)
           L == Bytes(f)
           o == f.offset
           c == f.count
<1>1. /\ DOMAIN ps = 1 .. c /\ c \in Nat /\ o \in Nat /\ L \in Nat
      /\ (\A i \in 1 .. c : ps[i] \in Nat)
  <2>1. SetEnd(f) <= Bytes(f)
    BY DEF OnlyVersions
  <2> QED BY <2>1, FilePointers
<1> SUFFICES ASSUME NEW i \in 1 .. c, Inside(f, ps[i])
             PROVE  /\ U32(f, ps[i]) = 3 /\ ps[i] + 16 <= L
                    /\ ps[i] + 16 <= o \/ o + 8 * c <= ps[i] + 8
                    /\ \A j \in 1 .. c : Inside(f, ps[j]) =>
                         ps[i] = ps[j] \/ ps[i] + 16 <= ps[j] \/ ps[j] + 16 <= ps[i]
  OBVIOUS
<1>2. \A j : j \in Entries(f, ps) <=> j \in 1 .. c /\ Inside(f, ps[j])
  BY <1>1 DEF Entries
<1>3. /\ U32(f, ps[i]) = 3 /\ Apart(DataAt(ps, i), 8, o, 8 * c)
      /\ \A j \in Entries(f, ps) : ps[i] = ps[j] \/ Apart(ps[i], 16, ps[j], 16)
  BY <1>2 DEF OnlyVersions
<1> HIDE DEF ps, L, o, c
<1>4. ps[i] + 16 <= o \/ o + 8 * c <= ps[i] + 8
  <2>1. Apart(ps[i] + 8, 8, o, 8 * c)
    BY <1>3 DEF DataAt
  <2>2. ps[i] \in Nat
    BY <1>1
  <2> QED BY <1>1, <2>1, <2>2 DEF Apart
<1>5. ps[i] + 16 <= L
  BY DEF Inside, L
<1>6. \A j \in 1 .. c : Inside(f, ps[j]) => ps[i] = ps[j] \/ ps[i] + 16 <= ps[j] \/ ps[j] + 16 <= ps[i]
  BY <1>2, <1>3 DEF Apart
<1> QED BY <1>3, <1>4, <1>5, <1>6

\* A set of versions is not written by their patches, nor are their types.
LEMMA SetKept ==
  ASSUME NEW f \in Modules, NEW g, OnlyVersions(f), NEW shift, NEW n, NEW delta,
         Moved(f, g, shift, n, delta), f.offset = g.offset, f.count = g.count
  PROVE  /\ PointersOf(g) = PointersOf(f)
         /\ \A i \in 1 .. f.count : Inside(f, PointersOf(f)[i]) => U32(g, PointersOf(f)[i]) = 3
<1> DEFINE ps == PointersOf(f)
           L == Bytes(f)
           o == f.offset
           c == f.count
<1>1. /\ DOMAIN ps = 1 .. c /\ c \in Nat /\ o \in Nat /\ L \in Nat /\ DOMAIN f.data = 1 .. L
      /\ SetEnd(f) <= L /\ (\A i \in 1 .. c : ps[i] \in Nat)
  <2>1. SetEnd(f) <= Bytes(f)
    BY DEF OnlyVersions
  <2> QED BY <2>1, FilePointers
<1>2. o + 8 * c <= L
  BY <1>1 DEF SetEnd
<1>3. \A i \in 1 .. c : Inside(f, ps[i]) =>
        /\ U32(f, ps[i]) = 3 /\ ps[i] + 16 <= L
        /\ ps[i] + 16 <= o \/ o + 8 * c <= ps[i] + 8
        /\ \A j \in 1 .. c : Inside(f, ps[j]) => ps[i] = ps[j] \/ ps[i] + 16 <= ps[j] \/ ps[j] + 16 <= ps[i]
  BY VersionsApart, Zenon
<1> HIDE DEF ps, L, o, c
<1>4. ASSUME NEW b \in 1 .. L, \A i \in 1 .. c : Inside(f, ps[i]) => b \notin Writes(ps[i])
      PROVE  g.data[b] = f.data[b]
  BY <1>1, <1>4 DEF Moved, ps, c
<1>5. ASSUME NEW i \in 1 .. c
      PROVE  U64(g, o + 8 * (i - 1)) = U64(f, o + 8 * (i - 1))
  <2> DEFINE a == o + 8 * (i - 1)
  <2>1. a \in Nat /\ o <= a /\ a + 8 <= o + 8 * c
    BY ONLY <1>1, <1>5
  <2> HIDE DEF a
  <2>2. ASSUME NEW x \in 1 .. 8 PROVE g.data[a + x] = f.data[a + x]
    <3>1. a + x \in 1 .. L
      BY <1>1, <1>2, <2>1
    <3>2. ASSUME NEW j \in 1 .. c, Inside(f, ps[j]) PROVE a + x \notin Writes(ps[j])
      <4>1. ps[j] + 16 <= o \/ o + 8 * c <= ps[j] + 8
        BY <1>3, <3>2
      <4>2. ps[j] \in Nat
        BY <1>1
      <4> DEFINE p == ps[j]
                 e == o + 8 * c
      <4>3. /\ e \in Nat /\ p \in Nat /\ (p + 16 <= o \/ e <= p + 8)
            /\ a \in Nat /\ o \in Nat /\ o <= a /\ a + 8 <= e
        BY <1>1, <2>1, <4>1, <4>2
      <4> HIDE DEF p, e
      <4>4. a + x \notin p + 9 .. p + 16
        BY ONLY <4>3, x \in 1 .. 8
      <4> QED BY <4>4 DEF Writes, p
    <3> QED BY <1>4, <3>1, <3>2
  <2>3. U64(g, a) = U64(f, a)
    BY ONLY <2>2, ReadSame
  <2> QED BY <2>3 DEF a
<1>6. PointersOf(g) = PointersOf(f)
  BY <1>5 DEF PointersOf, o, c
<1>7. ASSUME NEW i \in 1 .. c, Inside(f, ps[i]) PROVE U32(g, ps[i]) = 3
  <2>1. ASSUME NEW x \in 1 .. 4 PROVE g.data[ps[i] + x] = f.data[ps[i] + x]
    <3>1. ps[i] \in Nat /\ ps[i] + 16 <= L
      BY <1>1, <1>3, <1>7
    <3>2. ps[i] + x \in 1 .. L
      BY <1>1, <3>1, SMTT(60)
    <3>3. ASSUME NEW j \in 1 .. c, Inside(f, ps[j]) PROVE ps[i] + x \notin Writes(ps[j])
      <4> DEFINE p == ps[i]
                 q == ps[j]
      <4>1. p = q \/ p + 16 <= q \/ q + 16 <= p
        BY <1>3, <1>7, <3>3
      <4>2. q \in Nat /\ p \in Nat
        BY <1>1, <3>1
      <4> HIDE DEF p, q
      <4>3. p + x \notin q + 9 .. q + 16
        BY ONLY <4>1, <4>2, x \in 1 .. 4
      <4> QED BY <4>3 DEF Writes, p, q
    <3> QED BY <1>4, <3>2, <3>3
  <2>2. U32(g, ps[i]) = U32(f, ps[i])
    BY ONLY <2>1, TypeSame
  <2> QED BY <1>3, <1>7, <2>2
<1> QED BY <1>6, <1>7 DEF ps, c

\* One version is moved by the offset, unless it is zero.
LEMMA VersionMoved ==
  ASSUME NEW f \in Modules, NEW g \in Module, OnlyVersions(f), NEW shift \in Nat, NEW n \in Nat,
         n + 1 <= f.count, Moved(f, g, shift, n, Delta(kernel.parsed)),
         Bytes(g) = Bytes(f), f.offset = g.offset, f.count = g.count,
         NEW p, p = PointersOf(f)[n + 1], Inside(g, p),
         NEW r, r = Patched(g, U32(g, p), U64(g, p + 8))
  PROVE  /\ r.outcome \in {"ok", "panic"}
         /\ r.outcome = "ok" => Moved(f, Set(g, p + 8, r.value), shift, n + 1, Delta(kernel.parsed))
<1> DEFINE delta == Delta(kernel.parsed)
           ps == PointersOf(f)
           c == f.count
           L == Bytes(f)
           v == U64(g, p + 8)
           h == Set(g, p + 8, r.value)
<1>1. /\ c \in Nat /\ L \in Nat /\ DOMAIN f.data = 1 .. L /\ g.data \in Data
      /\ SetEnd(f) <= Bytes(f) /\ \A i \in 1 .. c : ps[i] \in Nat
  <2>1. SetEnd(f) <= Bytes(f)
    BY DEF OnlyVersions
  <2> QED BY <2>1, FilePointers, Fields
<1>2. n + 1 \in 1 .. c /\ Inside(f, p) /\ p \in Nat /\ p + 16 <= L /\ ps[n + 1] = p
  <2>1. n + 1 \in 1 .. c
    BY <1>1
  <2> QED BY <1>1, <2>1 DEF Inside
<1>3. U32(g, p) = 3
  BY <1>2, SetKept
<1>4. v \in 0 .. Top - 1
  <2>1. p + 8 \in Nat /\ (p + 8) + 8 <= Bytes(g)
    BY <1>2
  <2> QED BY <1>1, <2>1, ReadType
<1>5. r = IF v = 0 THEN Same(v) ELSE Sum(v)
  <2>1. r = Patched(g, 3, v)
    BY <1>3
  <2> HIDE DEF v
  <2> QED BY <2>1 DEF Patched
<1>6. delta \in Nat
  BY DeltaType
<1> HIDE DEF delta, L, v, h, ps, c
<1>7. r.outcome \in {"ok", "panic"} /\ r.value \in 0 .. Top - 1
  <2>1. Sum(v).outcome \in {"ok", "panic"} /\ Sum(v).value \in 0 .. Top - 1
    BY <1>4, SumType
  <2> QED BY <1>4, <1>5, <2>1 DEF Same
<1>8. r.outcome = "ok" => r.value = IF v = 0 THEN 0 ELSE (v + delta) % Top
  BY <1>5 DEF Same, Sum, Fails, delta
<1>9. /\ \A b \in 1 .. L : b \notin Writes(p) => h.data[b] = g.data[b]
      /\ U64(h, p + 8) = r.value
  <2>1. p + 8 \in Nat /\ (p + 8) + 8 <= Bytes(g)
    BY <1>2 DEF L
  <2>2. /\ \A b \in 1 .. Bytes(g) : b \notin (p + 8) + 1 .. (p + 8) + 8 => h.data[b] = g.data[b]
        /\ U64(h, p + 8) = r.value
    BY <1>7, <2>1, SetFacts, SMTT(60) DEF h
  <2>3. Writes(p) = (p + 8) + 1 .. (p + 8) + 8
    BY <1>2 DEF Writes
  <2> QED BY <2>2, <2>3 DEF L
<1>10. ASSUME NEW b \in 1 .. L, \A i \in 1 .. c : Inside(f, ps[i]) => b \notin Writes(ps[i])
       PROVE  h.data[b] = f.data[b]
  <2>1. g.data[b] = f.data[b]
    BY <1>1, <1>10 DEF Moved, ps, c
  <2>2. b \notin Writes(p)
    BY <1>2, <1>10
  <2> QED BY <1>9, <2>1, <2>2
<1>11. ASSUME r.outcome = "ok", NEW i \in 1 .. c, Inside(f, ps[i])
       PROVE  U64(h, DataAt(ps, i)) \in
                {0, (U64(f, DataAt(ps, i)) + Times(f, ps[i], c) * shift + Times(f, ps[i], n + 1) * delta) % Top}
  <2> DEFINE X == U64(f, DataAt(ps, i)) + Times(f, ps[i], c) * shift
             t == Times(f, ps[i], n)
  <2>1. U64(g, DataAt(ps, i)) \in {0, (X + t * delta) % Top}
    BY <1>11 DEF Moved, delta, ps, c
  <2>2. t \in Nat /\ Times(f, ps[i], n + 1) = IF ps[n + 1] = ps[i] THEN t + 1 ELSE t
    BY Counted, SMTT(60) DEF ps
  <2>3. X \in Nat
    BY <1>1, <1>11, VersionWord DEF ps, c
  <2> HIDE DEF X, t
  <2>4. CASE ps[i] # p
    <3>1. p + 16 <= ps[i] \/ ps[i] + 16 <= p
      BY <1>2, <1>11, <2>4, VersionsApart DEF ps, c
    <3>2. ps[i] \in Nat /\ ps[i] + 16 <= L
      BY <1>1, <1>11 DEF Inside, L
    <3>3. ASSUME NEW x \in 1 .. 8
          PROVE  h.data[DataAt(ps, i) + x] = g.data[DataAt(ps, i) + x]
      <4> DEFINE q == ps[i]
                 b == q + 8 + x
      <4>1. q \in Nat /\ q + 16 <= L /\ (p + 16 <= q \/ q + 16 <= p)
        BY <3>1, <3>2
      <4>2. DataAt(ps, i) + x = b
        BY DEF DataAt
      <4> HIDE DEF q
      <4>3. b \in 1 .. L /\ b \notin p + 9 .. p + 16
        BY ONLY <1>1, <1>2, <4>1, x \in 1 .. 8
      <4>4. b \notin Writes(p)
        BY <4>3 DEF Writes
      <4> HIDE DEF b
      <4> QED BY <1>9, <4>2, <4>3, <4>4
    <3>4. U64(h, DataAt(ps, i)) = U64(g, DataAt(ps, i))
      BY ONLY <3>3, ReadSame
    <3>5. Times(f, ps[i], n + 1) = t
      BY <1>2, <2>2, <2>4
    <3> QED BY <2>1, <3>4, <3>5 DEF X
  <2>5. CASE ps[i] = p
    <3>1. DataAt(ps, i) = p + 8 /\ U64(g, DataAt(ps, i)) = v /\ U64(h, DataAt(ps, i)) = r.value
      BY <1>9, <2>5 DEF DataAt, v
    <3>2. Times(f, ps[i], n + 1) = t + 1
      BY <1>2, <2>2, <2>5
    <3>3. CASE v = 0
      BY <1>8, <1>11, <3>1, <3>3
    <3>4. CASE v # 0
      <4>1. v = (X + t * delta) % Top
        BY <2>1, <3>1, <3>4
      <4>2. t * delta \in Nat /\ (t + 1) * delta = t * delta + delta
        BY <1>6, <2>2
      <4>3. (v + delta) % Top = (X + (t + 1) * delta) % Top
        <5> DEFINE e == t * delta
        <5>1. e \in Nat /\ (t + 1) * delta = e + delta
          BY <4>2
        <5> HIDE DEF e
        <5>2. X + e \in Nat /\ Top \in Nat \ {0}
          BY <2>3, <5>1
        <5>3. (((X + e) % Top) + delta) % Top = (X + e + delta) % Top
          BY <1>6, <5>2, WrapsAgain
        <5>4. X + e + delta = X + (t + 1) * delta
          BY <1>6, <2>3, <5>1
        <5> QED BY <4>1, <5>3, <5>4 DEF e
      <4>4. r.value = (X + (t + 1) * delta) % Top
        BY <1>8, <1>11, <3>4, <4>3
      <4> QED BY <3>1, <3>2, <4>4 DEF X
    <3> QED BY <3>3, <3>4
  <2> QED BY <2>4, <2>5
<1> QED BY <1>1, <1>7, <1>10, <1>11 DEF Moved, delta, h, ps, c

\* Only the bytes count.
LEMMA SameWords ==
  ASSUME NEW g, NEW h, h.data = g.data
  PROVE  \A a : U64(h, a) = U64(g, a)
BY DEF U64, At

\* Where no pointer has been followed, the kernel at hand does not matter.
LEMMA MovedByNone ==
  ASSUME NEW f \in Modules, SetEnd(f) <= Bytes(f), NEW g, NEW h, h.data = g.data, NEW shift \in Nat,
         NEW d \in Nat, NEW e \in Nat, Moved(f, g, shift, 0, d)
  PROVE  Moved(f, h, shift, 0, e)
<1> DEFINE ps == PointersOf(f)
<1>1. \A b \in DOMAIN f.data :
        (\A i \in 1 .. f.count : Inside(f, ps[i]) => b \notin Writes(ps[i])) => h.data[b] = f.data[b]
  BY DEF Moved
<1>2. ASSUME NEW i \in 1 .. f.count, Inside(f, ps[i])
      PROVE  U64(h, DataAt(ps, i)) \in
               {0, (U64(f, DataAt(ps, i)) + Times(f, ps[i], f.count) * shift + Times(f, ps[i], 0) * e) % Top}
  <2> DEFINE X == U64(f, DataAt(ps, i)) + Times(f, ps[i], f.count) * shift
             t == Times(f, ps[i], 0)
  <2>1. X \in Nat
    BY <1>2, VersionWord
  <2>2. U64(g, DataAt(ps, i)) \in {0, (X + t * d) % Top}
    BY <1>2 DEF Moved
  <2>3. t = 0
    BY NoneCounted
  <2>4. U64(h, DataAt(ps, i)) = U64(g, DataAt(ps, i))
    BY SameWords
  <2> HIDE DEF X, t, ps
  <2>5. X + t * d = X + t * e
    BY <2>1, <2>3
  <2> QED BY <2>2, <2>4, <2>5 DEF X, t
<1> QED BY <1>1, <1>2 DEF Moved

\* A file as it was read has not been moved.
LEMMA Unmoved ==
  ASSUME NEW f \in Modules, SetEnd(f) <= Bytes(f), NEW g, g.data = f.data, NEW d \in Nat
  PROVE  Moved(f, g, 0, 0, d)
<1> DEFINE ps == PointersOf(f)
<1>1. ASSUME NEW i \in 1 .. f.count, Inside(f, ps[i])
      PROVE  U64(g, DataAt(ps, i)) =
               (U64(f, DataAt(ps, i)) + Times(f, ps[i], f.count) * 0 + Times(f, ps[i], 0) * d) % Top
  <2> DEFINE x == U64(f, DataAt(ps, i))
             t == Times(f, ps[i], f.count)
             z == Times(f, ps[i], 0)
  <2>1. x \in 0 .. Top - 1 /\ t \in Nat /\ z = 0
    BY <1>1, VersionWord, NoneCounted
  <2>2. U64(g, DataAt(ps, i)) = x
    BY SameWords
  <2> HIDE DEF x, t, z, ps
  <2>3. x % Top = x
    BY <2>1
  <2>4. x + t * 0 + z * d = x
    BY <2>1
  <2> QED BY <2>2, <2>3, <2>4 DEF x, t, z
<1> QED BY <1>1 DEF Moved

\* A shift, and the offset once more, are their sum's shift.
LEMMA ShiftMore ==
  ASSUME NEW x \in Nat, NEW t \in Nat, NEW shift \in Nat, NEW d \in Nat
  PROVE  (x + t * shift + t * d) % Top = (x + t * ((shift + d) % Top)) % Top
<1> DEFINE y == shift + d
           z == y % Top
           a == t * shift
           b == t * d
<1>1. y \in Nat /\ Top \in Nat \ {0}
  OBVIOUS
<1>2. a \in Nat /\ b \in Nat
  BY Product
<1>3. t * y = a + b
  OBVIOUS
<1> HIDE DEF y, a, b
<1>4. x + a + b = x + t * y
  BY <1>2, <1>3
<1>5. (x + t * z) % Top = (x + t * y) % Top
  <2>1. \A T \in Nat \ {0}, i \in Nat, j \in Nat, n \in Nat : \A r : r = j % T =>
          (i + n * r) % T = (i + n * j) % T
    BY ONLY WrapsTimes
  <2>2. z = y % Top
    OBVIOUS
  <2> HIDE DEF z
  <2>3. Top \in Nat \ {0}
    BY <1>1
  <2>4. y \in Nat
    BY <1>1
  <2>5. \A i \in Nat, j \in Nat, n \in Nat : \A r : r = j % Top =>
          (i + n * r) % Top = (i + n * j) % Top
    BY ONLY <2>1, <2>3, Zenon
  <2>6. \A r : r = y % Top => (x + t * r) % Top = (x + t * y) % Top
    BY ONLY <2>4, <2>5, x \in Nat, t \in Nat, Zenon
  <2> QED BY ONLY <2>2, <2>6, Zenon
<1> QED BY <1>4, <1>5 DEF y, a, b, z

\* At the end of the set every version has been moved as often as it is named.
LEMMA SetMoved ==
  ASSUME NEW f \in Modules, SetEnd(f) <= Bytes(f), NEW g, NEW h, h.data = g.data, NEW shift \in Nat,
         NEW d \in Nat, Moved(f, g, shift, f.count, d)
  PROVE  Moved(f, h, (shift + d) % Top, 0, d)
<1> DEFINE ps == PointersOf(f)
           z == (shift + d) % Top
<1>1. \A b \in DOMAIN f.data :
        (\A i \in 1 .. f.count : Inside(f, ps[i]) => b \notin Writes(ps[i])) => h.data[b] = f.data[b]
  BY DEF Moved
<1>2. ASSUME NEW i \in 1 .. f.count, Inside(f, ps[i])
      PROVE  U64(h, DataAt(ps, i)) \in
               {0, (U64(f, DataAt(ps, i)) + Times(f, ps[i], f.count) * z + Times(f, ps[i], 0) * d) % Top}
  <2> DEFINE x == U64(f, DataAt(ps, i))
             t == Times(f, ps[i], f.count)
             n == Times(f, ps[i], 0)
  <2>1. x \in Nat /\ t \in Nat /\ n = 0
    <3>1. x \in 0 .. Top - 1 /\ t \in Nat
      BY <1>2, VersionWord
    <3>2. n = 0
      BY NoneCounted
    <3> HIDE DEF x, t, n
    <3> QED BY <3>1, <3>2
  <2>2. U64(g, DataAt(ps, i)) \in {0, (x + t * shift + t * d) % Top}
    BY <1>2 DEF Moved
  <2>3. U64(h, DataAt(ps, i)) = U64(g, DataAt(ps, i))
    BY SameWords
  <2> HIDE DEF x, t, n, ps
  <2>4. (x + t * shift + t * d) % Top = (x + t * z) % Top
    BY <2>1, ShiftMore
  <2>5. x + t * z + n * d = x + t * z
    <3> DEFINE a == t * z
    <3>1. shift + d \in Nat
      OBVIOUS
    <3>2. z \in Nat
      BY <3>1
    <3> HIDE DEF z
    <3>3. a \in Nat
      BY <2>1, <3>2, Product
    <3> HIDE DEF a
    <3>4. x + a + n * d = x + a
      BY <2>1, <3>3
    <3> QED BY <3>4 DEF a
  <2> HIDE DEF z
  <2> QED BY <2>2, <2>3, <2>4, <2>5 DEF x, t, n
<1> QED BY <1>1, <1>2 DEF Moved

\* A module that is not being followed does not depend on the kernel.
LEMMA AddedByNone ==
  ASSUME NEW g \in Module, NEW d \in Nat, NEW e \in Nat, AddedUp(g, 0, d)
  PROVE  AddedUp(g, 0, e)
<1>1. g.file \in Modules /\ g.shift \in Nat
  BY DEF Module
<1>2. OnlyVersions(g.file) => SetEnd(g.file) <= Bytes(g.file)
  BY DEF OnlyVersions
<1>3. OnlyVersions(g.file) /\ Moved(g.file, g, g.shift, 0, d) => Moved(g.file, g, g.shift, 0, e)
  BY <1>1, <1>2, MovedByNone
<1> QED BY <1>3 DEF AddedUp

\* Between the sets, nothing but the modules matters.
LEMMA VersionsQuiet ==
  ASSUME Typed, VersionsInv, pc \notin {"entry", "panic"}, pc' # "entry", modules' = modules
  PROVE  VersionsInv'
<1>1. modules \in Seq(Module)
  BY DEF Typed, TypeOK
<1> SUFFICES ASSUME NEW j \in 1 .. Len(modules)
             PROVE  OfFile(modules[j]) /\ AddedUp(modules[j], Pending(j)', Delta(kernel'.parsed))
  BY DEF VersionsInv
<1>2. OfFile(modules[j]) /\ AddedUp(modules[j], Pending(j), Delta(kernel.parsed))
  BY DEF VersionsInv
<1>3. Pending(j) = 0 /\ Pending(j)' = 0
  BY DEF Pending
<1>4. modules[j] \in Module
  BY <1>1, ElementOfSeq
<1>5. Delta(kernel.parsed) \in Nat /\ Delta(kernel'.parsed) \in Nat
  BY DeltaType
<1> QED BY <1>2, <1>3, <1>4, <1>5, AddedByNone

\* A module is added as it is in its file.
LEMMA VersionsLoaded ==
  ASSUME Typed, VersionsInv, NEW f \in Modules, LoadModule(f)
  PROVE  VersionsInv'
<1>1. modules \in Seq(Module) /\ kernel' = kernel
  BY DEF Typed, TypeOK, LoadModule
<1>2. pc \notin {"entry", "panic"} /\ pc' \in {"ok", "error"}
  BY DEF LoadModule, Idle
<1> DEFINE new == [data |-> f.data, offset |-> f.offset,
                   count |-> IF f.kind = "obj" THEN f.count ELSE 0,
                   relocated |-> FALSE, file |-> f, shift |-> 0]
<1>3. CASE modules' = modules
  BY <1>2, <1>3, VersionsQuiet
<1>4. CASE modules' # modules
  <2>1. modules' = Append(modules, new)
    BY <1>4 DEF LoadModule
  <2>2. /\ new.data = f.data /\ new.offset = f.offset /\ new.count \in {0, f.count}
        /\ new.file = f /\ new.shift = 0
    OBVIOUS
  <2> HIDE DEF new
  <2>3. /\ Len(modules') = Len(modules) + 1 /\ modules'[Len(modules) + 1] = new
        /\ \A j \in 1 .. Len(modules) : modules'[j] = modules[j]
    BY <1>1, <2>1
  <2>4. OfFile(new)
    BY <2>2 DEF OfFile
  <2>5. OnlyVersions(f) => Moved(f, new, 0, 0, Delta(kernel.parsed))
    BY <2>2, DeltaType, Unmoved DEF OnlyVersions
  <2>6. AddedUp(new, 0, Delta(kernel.parsed))
    BY <2>2, <2>5 DEF AddedUp
  <2>7. \A j \in 1 .. Len(modules) : OfFile(modules[j]) /\ AddedUp(modules[j], 0, Delta(kernel.parsed))
    BY <1>2 DEF VersionsInv, Pending
  <2>8. \A j : Pending(j)' = 0
    BY <1>2 DEF Pending
  <2>9. ASSUME NEW j \in 1 .. Len(modules')
        PROVE  OfFile(modules'[j]) /\ AddedUp(modules'[j], Pending(j)', Delta(kernel'.parsed))
    <3>1. j \in 1 .. Len(modules) \/ j = Len(modules) + 1
      BY <1>1, <2>3
    <3> QED BY <1>1, <2>3, <2>4, <2>6, <2>7, <2>8, <3>1
  <2> QED BY <1>2, <2>9 DEF VersionsInv
<1> QED BY <1>3, <1>4

\* The set of versions that is read is the file's own.
LEMMA VersionsRead ==
  ASSUME Typed, VersionsInv, ReadSet
  PROVE  VersionsInv'
<1>1. /\ modules \in Seq(Module) /\ m \in 1 .. Len(modules) /\ pc = "module"
      /\ modules[m].count > 0 /\ UNCHANGED <<kernel, modules, m>>
  BY DEF Typed, TypeOK, ReadSet
<1>2. CASE pc' # "entry"
  BY <1>1, <1>2, VersionsQuiet
<1>3. CASE pc' = "entry"
  <2> DEFINE g == modules[m]
             f == g.file
  <2>1. ptrs' = PointersOf(g) /\ k' = 1
    BY <1>3 DEF ReadSet
  <2>2. g \in Module
    BY <1>1, ElementOfSeq
  <2>3. f \in Modules
    BY <2>2 DEF Module
  <2>4. \A j \in 1 .. Len(modules) : OfFile(modules[j]) /\ AddedUp(modules[j], 0, Delta(kernel.parsed))
    BY <1>1 DEF VersionsInv, Pending
  <2>5. \A j \in 1 .. Len(modules) : Pending(j)' = 0
    BY <1>1, <2>1 DEF Pending
  <2>6. OnlyVersions(f) => PointersOf(g) = PointersOf(f)
    <3> SUFFICES ASSUME OnlyVersions(f) PROVE PointersOf(g) = PointersOf(f)
      OBVIOUS
    <3>1. OfFile(g) /\ AddedUp(g, 0, Delta(kernel.parsed))
      BY <1>1, <2>4
    <3>2. f.offset = g.offset /\ f.count = g.count
      BY <1>1, <3>1 DEF OfFile
    <3>3. Moved(f, g, g.shift, 0, Delta(kernel.parsed))
      BY <1>1, <3>1 DEF AddedUp
    <3> HIDE DEF f, g
    <3> QED BY <2>3, <3>2, <3>3, SetKept
  <2> HIDE DEF f, g
  <2> QED BY <1>1, <1>3, <2>1, <2>4, <2>5, <2>6 DEF VersionsInv, f, g
<1> QED BY <1>2, <1>3

\* One pointer of the set is followed.
LEMMA VersionsEntry ==
  ASSUME Typed, VersionsInv, PatchEntry
  PROVE  VersionsInv'
<1> DEFINE g == modules[m]
           f == g.file
           p == ptrs[k]
           n == k - 1
           d == Delta(kernel.parsed)
           r == IF Bound(g, p + 16) = "panic" THEN Fails("panic")
                ELSE IF ~Inside(g, p) THEN Same(0)
                ELSE Patched(g, U32(g, p), U64(g, p + 8))
           new == Set(g, p + 8, r.value)
           h == IF Inside(g, p) THEN new ELSE g
<1>1. /\ modules \in Seq(Module) /\ m \in 1 .. Len(modules) /\ k \in 1 .. Len(ptrs) /\ pc = "entry"
      /\ ptrs \in Seq(0 .. Top - 1)
  BY DEF Typed, TypeOK, PatchEntry
<1>2. g \in Module /\ g.count > 0 /\ OfFile(g) /\ AddedUp(g, n, d)
      /\ (OnlyVersions(f) => ptrs = PointersOf(f))
  BY <1>1, ElementOfSeq DEF VersionsInv, Pending
<1>3. f \in Modules /\ g.shift \in Nat /\ d \in Nat
  BY <1>2, DeltaType DEF Module
<1>4. Bytes(g) = Bytes(f) /\ f.offset = g.offset /\ f.count = g.count
  BY <1>2 DEF OfFile, Bytes
<1>5. \A j \in 1 .. Len(modules) :
        j # m => OfFile(modules[j]) /\ AddedUp(modules[j], 0, d)
  BY <1>1 DEF VersionsInv, Pending
<1>6. n \in Nat /\ n + 1 = k /\ (OnlyVersions(f) => n + 1 <= f.count /\ p = PointersOf(f)[n + 1])
  <2>1. DOMAIN PointersOf(f) = 1 .. f.count /\ f.count \in Nat
    BY <1>3, FilePointers
  <2>2. DOMAIN ptrs = 1 .. Len(ptrs)
    BY <1>1
  <2> QED BY <1>1, <1>2, <2>1, <2>2
<1>7. UNCHANGED <<kernel, m, ptrs>>
  BY DEF PatchEntry
<1>8. r.outcome \in {"ok", "failed", "panic"}
  BY PatchedOutcome DEF Fails, Same
<1>9. r.outcome = "ok" \/ Inside(g, p) => r.outcome = "panic" \/ r = Patched(g, U32(g, p), U64(g, p + 8)) \/ ~Inside(g, p)
  BY DEF Fails
<1>10. ~Inside(g, p) => r.outcome \in {"ok", "panic"}
  BY DEF Fails, Same
<1>11. ASSUME OnlyVersions(f)
       PROVE  /\ r.outcome \in {"ok", "panic"}
              /\ r.outcome = "ok" => Moved(f, h, g.shift, n + 1, d)
  <2>1. Moved(f, g, g.shift, n, d)
    BY <1>2, <1>11 DEF AddedUp
  <2>2. n + 1 <= f.count /\ p = PointersOf(f)[n + 1]
    BY <1>6, <1>11
  <2>3. CASE Inside(g, p)
    <3>1. CASE r.outcome = "panic"
      BY <3>1
    <3>2. CASE r.outcome # "panic"
      <4>1. r = Patched(g, U32(g, p), U64(g, p + 8))
        BY <1>9, <2>3, <3>2
      <4> HIDE DEF f, g, p, n, r
      <4>2. /\ r.outcome \in {"ok", "panic"}
            /\ r.outcome = "ok" => Moved(f, Set(g, p + 8, r.value), g.shift, n + 1, Delta(kernel.parsed))
        BY <1>2, <1>3, <1>4, <1>6, <1>11, <2>1, <2>2, <2>3, <4>1, VersionMoved
      <4> QED BY <2>3, <4>2
    <3> QED BY <3>1, <3>2
  <2>4. CASE ~Inside(g, p)
    <3>1. ~Inside(f, PointersOf(f)[n + 1])
      BY <1>4, <2>2, <2>4 DEF Inside
    <3> HIDE DEF f, g, p, n, d, r
    <3>2. \A q : Inside(f, q) => Times(f, q, n + 1) = Times(f, q, n)
      BY <1>6, <3>1, Counted
    <3>3. Moved(f, g, g.shift, n + 1, d)
      BY <2>1, <3>2 DEF Moved
    <3> QED BY <1>10, <2>4, <3>3
  <2> QED BY <2>3, <2>4
<1>12. CASE r.outcome # "ok"
  <2>1. pc' = r.outcome /\ modules' = modules /\ pc' \in {"failed", "panic"}
    <3>1. pc' = r.outcome /\ modules' = modules
      BY <1>12 DEF PatchEntry
    <3> HIDE DEF r
    <3> QED BY <1>8, <1>12, <3>1
  <2>2. \A j : Pending(j)' = 0
    BY <2>1 DEF Pending
  <2>3. pc' # "panic" => AddedUp(g, 0, d)
    <3> HIDE DEF f, g, r
    <3>1. pc' # "panic" => ~OnlyVersions(f)
      BY <1>11, <1>12, <2>1
    <3> QED BY <3>1 DEF AddedUp, f
  <2>4. \A j \in 1 .. Len(modules) :
          OfFile(modules[j]) /\ (~(pc' = "panic" /\ m = j) => AddedUp(modules[j], 0, d))
    <3> HIDE DEF d, r
    <3> QED BY <1>1, <1>2, <1>5, <2>3
  <2> QED BY <1>7, <2>1, <2>2, <2>4 DEF VersionsInv
<1>13. CASE r.outcome = "ok"
  <2>1. /\ modules' = IF Inside(g, p) THEN [modules EXCEPT ![m] = new] ELSE modules
        /\ k' = k + 1 /\ pc' = pc
    BY <1>13 DEF PatchEntry
  <2>2. /\ Len(modules') = Len(modules)
        /\ \A j \in 1 .. Len(modules) : j # m => modules'[j] = modules[j]
        /\ modules'[m] = h
    <3> HIDE DEF g, p, new
    <3>1. CASE Inside(g, p)
      BY <1>1, <2>1, <3>1
    <3>2. CASE ~Inside(g, p)
      BY <1>1, <2>1, <3>2 DEF g
    <3> QED BY <3>1, <3>2
  <2>3. /\ Len(h.data) = Len(g.data) /\ h.offset = g.offset /\ h.count = g.count
        /\ h.file = f /\ h.shift = g.shift
    <3> DEFINE v == r.value
    <3>1. /\ Len(Set(g, p + 8, v).data) = Len(g.data)
          /\ Set(g, p + 8, v).offset = g.offset /\ Set(g, p + 8, v).count = g.count
          /\ Set(g, p + 8, v).file = g.file /\ Set(g, p + 8, v).shift = g.shift
      <4> HIDE DEF g, v
      <4> QED BY <1>2, SetKeeps
    <3> HIDE DEF v, g
    <3> QED BY <3>1 DEF v
  <2> HIDE DEF r, new, h
  <2>4. OfFile(h)
    BY <1>2, <2>3 DEF OfFile, Bytes
  <2>5. AddedUp(h, n + 1, d)
    BY <1>11, <1>13, <2>3 DEF AddedUp
  <2>6. \A j \in 1 .. Len(modules) : Pending(j)' = IF j = m THEN n + 1 ELSE 0
    BY <1>1, <1>6, <1>7, <2>1 DEF Pending
  <2>7. d' = d
    BY <1>7
  <2> HIDE DEF d, n
  <2>8. \A j \in 1 .. Len(modules) :
          OfFile(modules'[j]) /\ AddedUp(modules'[j], Pending(j)', d)
    BY <1>1, <1>5, <2>2, <2>4, <2>5, <2>6
  <2>9. h.count > 0 /\ h.file = f
    BY <1>2, <2>3
  <2>10. \A j \in 1 .. Len(modules') :
           OfFile(modules'[j]) /\ AddedUp(modules'[j], Pending(j)', Delta(kernel'.parsed))
    BY <1>7, <2>2, <2>8 DEF d
  <2>11. modules'[m'].count > 0
         /\ (OnlyVersions(modules'[m'].file) => ptrs' = PointersOf(modules'[m'].file))
    BY <1>2, <1>7, <2>2, <2>9
  <2> QED BY <2>10, <2>11 DEF VersionsInv
<1> QED BY <1>12, <1>13

\* The set has been followed to its end.
LEMMA VersionsEnd ==
  ASSUME Typed, VersionsInv, EndModule
  PROVE  VersionsInv'
<1> DEFINE g == modules[m]
           f == g.file
           n == k - 1
           d == Delta(kernel.parsed)
           s == (g.shift + d) % Top
           h == [g EXCEPT !.relocated = TRUE, !.shift = s]
<1>1. /\ modules \in Seq(Module) /\ m \in 1 .. Len(modules) /\ k = Len(ptrs) + 1 /\ pc = "entry"
      /\ ptrs \in Seq(0 .. Top - 1)
  <2>1. /\ modules \in Seq(Module) /\ m \in 1 .. Len(modules) + 1 /\ m <= Len(modules)
        /\ ptrs \in Seq(0 .. Top - 1) /\ k \in 1 .. Len(ptrs) + 1 /\ k > Len(ptrs) /\ pc = "entry"
    BY DEF Typed, TypeOK, EndModule
  <2>2. Len(modules) \in Nat /\ Len(ptrs) \in Nat
    BY <2>1
  <2>3. k = Len(ptrs) + 1
    BY ONLY <2>1, <2>2
  <2>4. m \in 1 .. Len(modules)
    BY ONLY <2>1, <2>2
  <2> QED BY <2>1, <2>3, <2>4
<1>2. g \in Module /\ g.count > 0 /\ OfFile(g) /\ AddedUp(g, n, d)
      /\ (OnlyVersions(f) => ptrs = PointersOf(f))
  BY <1>1, ElementOfSeq DEF VersionsInv, Pending
<1>3. f \in Modules /\ g.shift \in Nat /\ d \in Nat
  BY <1>2, DeltaType DEF Module
<1>4. \A j \in 1 .. Len(modules) :
        j # m => OfFile(modules[j]) /\ AddedUp(modules[j], 0, d)
  BY <1>1 DEF VersionsInv, Pending
<1>5. OnlyVersions(f) => n = f.count
  <2>1. DOMAIN PointersOf(f) = 1 .. f.count /\ f.count \in Nat
    BY <1>3, FilePointers
  <2>2. DOMAIN ptrs = 1 .. Len(ptrs)
    BY <1>1
  <2> QED BY <1>1, <1>2, <2>1, <2>2
<1>6. /\ h.data = g.data /\ h.offset = g.offset /\ h.count = g.count
      /\ h.file = f /\ h.shift = s
  <2> HIDE DEF s
  <2> QED BY <1>2 DEF Module
<1>7. modules' = [modules EXCEPT ![m] = h] /\ kernel' = kernel /\ pc' = "module"
  BY DEF EndModule
<1> HIDE DEF h, s
<1>8. /\ Len(modules') = Len(modules)
      /\ \A j \in 1 .. Len(modules) : j # m => modules'[j] = modules[j]
      /\ modules'[m] = h
  BY <1>1, <1>7
<1>9. AddedUp(h, 0, d)
  <2> SUFFICES ASSUME OnlyVersions(f) PROVE Moved(f, h, s, 0, d)
    BY <1>6 DEF AddedUp
  <2>1. Moved(f, g, g.shift, f.count, d) /\ SetEnd(f) <= Bytes(f)
    BY <1>2, <1>5 DEF AddedUp, OnlyVersions
  <2> HIDE DEF f, g, d
  <2>2. Moved(f, h, (g.shift + d) % Top, 0, d)
    BY <1>3, <1>6, <2>1, SetMoved
  <2> QED BY <2>2 DEF s
<1>10. OfFile(h)
  BY <1>2, <1>6 DEF OfFile
<1>11. \A j : Pending(j)' = 0
  BY <1>7 DEF Pending
<1> HIDE DEF d
<1>12. \A j \in 1 .. Len(modules') : OfFile(modules'[j]) /\ AddedUp(modules'[j], Pending(j)', d)
  BY <1>4, <1>8, <1>9, <1>10, <1>11
<1> QED BY <1>7, <1>12 DEF VersionsInv, d

LEMMA VersionsStep ==
  ASSUME Typed, VersionsInv, [Next]_vars
  PROVE  VersionsInv'
<1>1. ASSUME NEW f \in Kernels, LoadKernel(f) PROVE VersionsInv'
  <2>1. pc \notin {"entry", "panic"} /\ pc' \in {"error", "panic", "ok"} /\ modules' = modules
    BY <1>1 DEF LoadKernel, Idle
  <2> QED BY <2>1, VersionsQuiet
<1>2. ASSUME NEW f \in Modules, LoadModule(f) PROVE VersionsInv'
  BY <1>2, VersionsLoaded
<1>3. CASE PatchDisabled
  BY <1>3, VersionsQuiet DEF PatchDisabled, Idle
<1>4. CASE StartPatch
  BY <1>4, VersionsQuiet DEF StartPatch, Idle
<1>5. CASE SkipModule
  BY <1>5, VersionsQuiet DEF SkipModule
<1>6. CASE ReadSet
  BY <1>6, VersionsRead
<1>7. CASE PatchEntry
  BY <1>7, VersionsEntry
<1>8. CASE EndModule
  BY <1>8, VersionsEnd
<1>9. CASE EndPatch
  BY <1>9, VersionsQuiet DEF EndPatch
<1>10. CASE UNCHANGED vars
  <2>1. UNCHANGED <<pc, kernel, modules, m, k, ptrs>>
    BY <1>10 DEF vars, call
  <2>2. \A j : Pending(j)' = Pending(j)
    BY <2>1 DEF Pending
  <2> QED BY <2>1, <2>2 DEF VersionsInv
<1> QED
  BY <1>1, <1>2, <1>3, <1>4, <1>5, <1>6, <1>7, <1>8, <1>9, <1>10 DEF Next

\* Every call of patch_modmetadata moves the versions once for each time the
\* set names them, whatever was called before.
THEOREM VersionsAreAddedUp == Spec => []VersionsAddUp
<1>1. Init => Typed /\ VersionsInv
  BY DEF Init, Typed, TypeOK, KernelFile, VersionsInv
<1>2. ASSUME Typed, VersionsInv PROVE VersionsAddUp
  <2> SUFFICES ASSUME NEW j \in 1 .. Len(modules), modules[j].count > 0,
                      OnlyVersions(modules[j].file), ~(pc \in {"entry", "panic"} /\ m = j)
               PROVE  LET f == modules[j].file
                          ps == PointersOf(f)
                      IN /\ \A b \in DOMAIN f.data \ UNION {Writes(ps[i]) : i \in Entries(f, ps)} :
                              modules[j].data[b] = f.data[b]
                         /\ \A i \in Entries(f, ps) :
                              LET times == Cardinality({n \in DOMAIN ps : ps[n] = ps[i]})
                              IN U64(modules[j], DataAt(ps, i)) \in
                                   {0, (U64(f, DataAt(ps, i)) + times * modules[j].shift) % Top}
    <3>1. DOMAIN modules = 1 .. Len(modules)
      BY <1>2 DEF Typed, TypeOK
    <3> QED BY <3>1, Zenon DEF VersionsAddUp
  <2> DEFINE g == modules[j]
             f == g.file
             d == Delta(kernel.parsed)
             ps == PointersOf(f)
             all == Entries(f, ps)
  <2>1. g \in Module
    BY <1>2, ElementOfSeq DEF Typed, TypeOK
  <2>2. f \in Modules /\ g.shift \in Nat /\ d \in Nat
    BY <2>1, DeltaType DEF Module
  <2>3. Moved(f, g, g.shift, 0, d) /\ SetEnd(f) <= Bytes(f)
    BY <1>2 DEF VersionsInv, AddedUp, Pending, OnlyVersions
  <2>4. DOMAIN ps = 1 .. f.count /\ \A i : i \in all <=> i \in 1 .. f.count /\ Inside(f, ps[i])
    BY <2>2, FilePointers DEF Entries
  <2>5. ASSUME NEW b \in DOMAIN f.data, \A i \in all : b \notin Writes(ps[i])
        PROVE  g.data[b] = f.data[b]
    BY <2>3, <2>4, <2>5 DEF Moved
  <2>6. ASSUME NEW i \in all
        PROVE  U64(g, DataAt(ps, i)) \in
                 {0, (U64(f, DataAt(ps, i)) + Cardinality({n \in DOMAIN ps : ps[n] = ps[i]}) * g.shift) % Top}
    <3> DEFINE X == U64(f, DataAt(ps, i)) + Times(f, ps[i], f.count) * g.shift
               t == Times(f, ps[i], 0)
    <3>1. i \in 1 .. f.count /\ Inside(f, ps[i])
      BY <2>4, <2>6
    <3>2. X \in Nat /\ t = 0
      BY <2>2, <2>3, <3>1, VersionWord, NoneCounted
    <3>3. U64(g, DataAt(ps, i)) \in {0, (X + t * d) % Top}
      BY <2>3, <3>1 DEF Moved
    <3>4. HitsTo(f, ps[i], f.count) = {n \in DOMAIN ps : ps[n] = ps[i]}
      BY <2>4 DEF HitsTo
    <3>5. X + t * d = X
      <4> HIDE DEF X, t, d
      <4> QED BY <2>2, <3>2
    <3>6. U64(g, DataAt(ps, i)) \in {0, X % Top}
      <4> HIDE DEF X, t, d
      <4> QED BY <3>3, <3>5
    <3> QED BY <3>4, <3>6 DEF Times
  <2> HIDE DEF f, g, ps, all
  <2>7. \A b \in DOMAIN f.data \ UNION {Writes(ps[i]) : i \in all} : g.data[b] = f.data[b]
    BY <2>5
  <2> QED BY <2>6, <2>7 DEF f, g, ps, all
<1> QED BY <1>1, <1>2, TypeStep, VersionsStep, PTL DEF Spec
---------------------------------------------------------------------------
(* What both loaders boot.                                                 *)

LEMMA NumbersByInduction ==
  ASSUME NEW S, 0 \in S, \A n \in Nat : n \in S => n + 1 \in S
  PROVE  \A n \in Nat : n \in S
<1> SUFFICES ASSUME NEW b \in Nat, b \notin S PROVE FALSE
  OBVIOUS
<1> DEFINE T == Nat \ S
           Smaller == OpToRel(<, Nat)
<1>1. IsWellFoundedOn(Smaller, Nat)
  BY NatLessThanWellFounded, Zenon
<1>2. T \subseteq Nat /\ T # {}
  OBVIOUS
<1>3. \A i, j \in Nat : i < j => <<i, j>> \in Smaller
  BY DEF OpToRel
<1> HIDE DEF T, Smaller
<1>4. PICK x \in T : \A y \in T : ~ (<<y, x>> \in Smaller)
  BY <1>1, <1>2, WFMin, Zenon
<1>5. \A y \in T : ~ (y < x)
  BY <1>2, <1>3, <1>4
<1>6. x \in Nat /\ x \notin S /\ x # 0
  BY <1>4 DEF T
<1>7. x - 1 \in Nat /\ x - 1 < x /\ (x - 1) + 1 = x
  BY ONLY <1>6
<1>8. x - 1 \in S
  BY <1>5, <1>7 DEF T
<1> QED BY <1>6, <1>7, <1>8

\* The partial sums of every list are defined.
LEMMA SumsDefined ==
  ASSUME NEW s
  PROVE  \A n \in Nat : \E sum :
           sum = [i \in 0 .. n |-> IF i = 0 THEN 0 ELSE sum[i - 1] + s[i]]
<1> DEFINE Sums(n, sum) == sum = [i \in 0 .. n |-> IF i = 0 THEN 0 ELSE sum[i - 1] + s[i]]
           S == {n \in Nat : \E sum : Sums(n, sum)}
<1>1. 0 \in S
  <2> DEFINE zero == [i \in 0 .. 0 |-> 0]
  <2>1. zero = [i \in 0 .. 0 |-> IF i = 0 THEN 0 ELSE zero[i - 1] + s[i]]
    OBVIOUS
  <2> QED BY <2>1
<1>2. ASSUME NEW n \in Nat, n \in S PROVE n + 1 \in S
  <2>1. PICK sum : Sums(n, sum)
    BY <1>2
  <2> DEFINE new == [i \in 0 .. n + 1 |-> IF i = 0 THEN 0 ELSE sum[i - 1] + s[i]]
  <2>2. \A i \in 0 .. n : new[i] = sum[i]
    BY <2>1
  <2>3. \A i \in 0 .. n + 1 : i # 0 => i - 1 \in 0 .. n
    OBVIOUS
  <2>4. \A i \in 0 .. n + 1 : i # 0 => sum[i - 1] = new[i - 1]
    BY <2>2, <2>3
  <2>5. Sums(n + 1, new)
    <3>1. \A i \in 0 .. n + 1 :
            (IF i = 0 THEN 0 ELSE sum[i - 1] + s[i]) = (IF i = 0 THEN 0 ELSE new[i - 1] + s[i])
      BY <2>4, Zenon
    <3>2. new = [i \in 0 .. n + 1 |-> IF i = 0 THEN 0 ELSE sum[i - 1] + s[i]]
      OBVIOUS
    <3> HIDE DEF new
    <3>3. new = [i \in 0 .. n + 1 |-> IF i = 0 THEN 0 ELSE new[i - 1] + s[i]]
      BY <3>1, <3>2
    <3> QED BY <3>3
  <2> HIDE DEF new, Sums
  <2>6. n + 1 \in Nat /\ \E sums : Sums(n + 1, sums)
    BY <2>5
  <2> QED BY <2>6
<1> HIDE DEF S
<1>3. \A n \in Nat : n \in S
  BY <1>1, <1>2, NumbersByInduction
<1> QED BY <1>3 DEF S

\* Added gives the partial sums.
LEMMA AddedFacts ==
  ASSUME NEW s, Len(s) \in Nat
  PROVE  /\ B!Added(s)[0] = 0
         /\ \A i \in 1 .. Len(s) : B!Added(s)[i] = B!Added(s)[i - 1] + s[i]
<1> DEFINE N == Len(s)
           sum == B!Added(s)
<1>1. \E f : f = [i \in 0 .. N |-> IF i = 0 THEN 0 ELSE f[i - 1] + s[i]]
  BY SumsDefined, Zenon
<1>2. sum = [i \in 0 .. N |-> IF i = 0 THEN 0 ELSE sum[i - 1] + s[i]]
  BY <1>1, Zenon DEF B!Added
<1>3. N \in Nat
  OBVIOUS
<1> HIDE DEF sum, N
<1>4. sum[0] = 0 /\ \A i \in 1 .. N : sum[i] = sum[i - 1] + s[i]
  BY ONLY <1>2, <1>3
<1> QED BY <1>4 DEF sum, N

\* f sums up the first n elements of s.
SumsUp(f, s, n) == \A i \in 1 .. n : f[i] = f[i - 1] + s[i]

\* Two running sums of the same that start alike are the same.
LEMMA SameSums ==
  ASSUME NEW n \in Nat, NEW f, NEW g, NEW s, f[0] = g[0], SumsUp(f, s, n), SumsUp(g, s, n)
  PROVE  \A i \in 0 .. n : f[i] = g[i]
<1> DEFINE S == {i \in Nat : i <= n => f[i] = g[i]}
<1>1. 0 \in S
  OBVIOUS
<1>2. ASSUME NEW i \in Nat, i \in S PROVE i + 1 \in S
  <2> SUFFICES ASSUME i + 1 <= n PROVE f[i + 1] = g[i + 1]
    OBVIOUS
  <2>1. i + 1 \in 1 .. n /\ (i + 1) - 1 = i /\ f[i] = g[i]
    BY <1>2
  <2>2. f[i + 1] = f[i] + s[i + 1]
    BY <2>1 DEF SumsUp
  <2>3. g[i + 1] = g[i] + s[i + 1]
    BY <2>1 DEF SumsUp
  <2> QED BY <2>1, <2>2, <2>3
<1> HIDE DEF S
<1>3. \A i \in Nat : i \in S
  BY <1>1, <1>2, NumbersByInduction
<1> QED BY <1>3 DEF S

\* The sum of a longer list.
LEMMA SumAppended ==
  ASSUME NEW s, NEW t, Len(s) \in Nat, Len(t) = Len(s) + 1,
         \A i \in 1 .. Len(s) : t[i] = s[i]
  PROVE  B!Sum(t) = B!Sum(s) + t[Len(s) + 1]
<1> DEFINE n == Len(s)
           f == B!Added(s)
           g == B!Added(t)
<1>1. f[0] = 0 /\ \A i \in 1 .. n : f[i] = f[i - 1] + s[i]
  BY AddedFacts
<1>2. Len(t) \in Nat
  OBVIOUS
<1>3. g[0] = 0 /\ \A i \in 1 .. Len(t) : g[i] = g[i - 1] + t[i]
  BY <1>2, AddedFacts
<1>4. n \in Nat /\ Len(t) = n + 1 /\ \A i \in 1 .. n : t[i] = s[i]
  OBVIOUS
<1>5. B!Sum(t) = g[n + 1] /\ B!Sum(s) = f[n]
  BY <1>4 DEF B!Sum
<1> HIDE DEF f, g, n
<1>6. SumsUp(f, s, n) /\ SumsUp(g, s, n)
  BY <1>1, <1>3, <1>4 DEF SumsUp
<1>7. \A i \in 0 .. n : f[i] = g[i]
  <2>1. f[0] = g[0] /\ n \in Nat
    BY <1>1, <1>3, <1>4
  <2> QED BY ONLY <1>6, <2>1, SameSums, Zenon
<1>8. g[n + 1] = g[n] + t[n + 1] /\ f[n] = g[n]
  BY <1>3, <1>4, <1>7
<1> QED BY <1>5, <1>8 DEF n

\* The sizes of the segments, then those of the modules.
LEMMA SizesAreAList ==
  ASSUME BootTypes
  PROVE  Len(B!Sizes) \in Nat /\ DOMAIN B!Sizes = 1 .. Len(B!Sizes)
<1> DEFINE SegSize(i) == B!RoundUp(boot.segments[i].of.segments[boot.segments[i].at].size)
           ModSize(i) == B!RoundUp(Len(boot.modules[i].data))
           a == Len(boot.segments)
           b == Len(boot.modules)
           T == {SegSize(i) : i \in 1 .. a} \cup {ModSize(i) : i \in 1 .. b}
           s == [i \in 1 .. a |-> SegSize(i)]
           t == [i \in 1 .. b |-> ModSize(i)]
<1>1. boot.segments \in Seq([of : Kernels, at : Nat]) /\ boot.modules \in Seq(Modules)
  BY DEF BootTypes
<1>2. a \in Nat /\ b \in Nat /\ DOMAIN boot.segments = 1 .. a /\ DOMAIN boot.modules = 1 .. b
  BY <1>1
<1>3. B!Sizes = s \o t
  BY <1>2, Zenon DEF B!Sizes
<1>4. (\A i \in 1 .. a : SegSize(i) \in T) /\ (\A i \in 1 .. b : ModSize(i) \in T)
  OBVIOUS
<1> HIDE DEF SegSize, ModSize, a, b, T
<1>5. s \in Seq(T)
  BY ONLY <1>2, <1>4
<1>6. t \in Seq(T)
  BY ONLY <1>2, <1>4
<1> HIDE DEF s, t
<1>7. s \o t \in Seq(T)
  BY ONLY <1>5, <1>6, ConcatProperties
<1>8. B!Sizes \in Seq(T)
  BY <1>3, <1>7, Zenon
<1> QED BY ONLY <1>8

\* The map has no gap and ends at the memory that is needed.
LEMMA MapHasNoGap ==
  ASSUME BootTypes
  PROVE  MapContiguous
<1> DEFINE s == B!Sizes
           N == Len(s)
           sum == B!Added(s)
           at == CHOOSE at : at = [i \in DOMAIN s |-> IF i = 1 THEN 0 ELSE at[i - 1] + s[i - 1]]
           map == [i \in DOMAIN s |-> [at |-> at[i], size |-> s[i]]]
<1>1. N \in Nat /\ DOMAIN s = 1 .. N
  BY SizesAreAList
<1>2. sum[0] = 0 /\ \A i \in 1 .. N : sum[i] = sum[i - 1] + s[i]
  BY <1>1, AddedFacts
<1>3. B!MemoryMap = map
  BY Zenon DEF B!MemoryMap
<1>4. B!TotalMemoryNeeded = sum[N]
  BY Zenon DEF B!TotalMemoryNeeded, B!Sum
<1> HIDE DEF s, N, sum
<1>5. \E a : a = [i \in DOMAIN s |-> IF i = 1 THEN 0 ELSE a[i - 1] + s[i - 1]]
  <2> DEFINE a == [i \in 1 .. N |-> sum[i - 1]]
  <2>1. \A i \in 1 .. N : sum[i - 1] = IF i = 1 THEN 0 ELSE a[i - 1] + s[i - 1]
    <3> SUFFICES ASSUME NEW i \in 1 .. N PROVE sum[i - 1] = IF i = 1 THEN 0 ELSE a[i - 1] + s[i - 1]
      OBVIOUS
    <3>1. CASE i = 1
      BY <1>2, <3>1
    <3>2. CASE i # 1
      <4>1. i - 1 \in 1 .. N
        BY <1>1, <3>2
      <4>2. a[i - 1] = sum[(i - 1) - 1]
        BY <4>1
      <4>3. sum[i - 1] = sum[(i - 1) - 1] + s[i - 1]
        BY <1>2, <4>1
      <4> QED BY <3>2, <4>2, <4>3
    <3> QED BY <3>1, <3>2
  <2>2. a = [i \in 1 .. N |-> IF i = 1 THEN 0 ELSE a[i - 1] + s[i - 1]]
    <3> DEFINE c == [i \in 1 .. N |-> IF i = 1 THEN 0 ELSE a[i - 1] + s[i - 1]]
    <3>1. \A i \in 1 .. N : a[i] = c[i]
      BY <2>1
    <3> QED BY <3>1
  <2> HIDE DEF a
  <2> QED BY <1>1, <2>2, Zenon
<1>6. at = [i \in DOMAIN s |-> IF i = 1 THEN 0 ELSE at[i - 1] + s[i - 1]]
  BY <1>5, Zenon
<1> HIDE DEF at
<1>7. /\ 1 \in 1 .. N => at[1] = 0
      /\ \A i \in 1 .. N : i # 1 => at[i] = at[i - 1] + s[i - 1]
  BY ONLY <1>1, <1>6
<1>8. \A i \in 1 .. N : at[i] = sum[i - 1]
  <2> SUFFICES ASSUME 1 \in 1 .. N PROVE \A i \in 1 .. N : at[i] = sum[i - 1]
    BY <1>1
  <2> DEFINE n == N - 1
             f == [i \in 0 .. n |-> at[i + 1]]
  <2>1. n \in Nat
    BY <1>1
  <2>2. \A i \in 1 .. n : f[i] = f[i - 1] + s[i]
    <3> SUFFICES ASSUME NEW i \in 1 .. n PROVE f[i] = f[i - 1] + s[i]
      OBVIOUS
    <3>1. i + 1 \in 1 .. N /\ i + 1 # 1 /\ (i + 1) - 1 = i /\ i - 1 \in 0 .. n /\ i \in 0 .. n
      BY <1>1
    <3>2. f[i] = at[i + 1] /\ f[i - 1] = at[i]
      BY <3>1
    <3>3. at[i + 1] = at[i] + s[i]
      BY <1>7, <3>1
    <3> QED BY <3>2, <3>3
  <2>3. f[0] = sum[0]
    BY <1>2, <1>7, <2>1
  <2>4. \A i \in 1 .. n : sum[i] = sum[i - 1] + s[i]
    BY <1>1, <1>2
  <2>5. \A i \in 0 .. n : f[i] = at[i + 1]
    OBVIOUS
  <2> HIDE DEF f
  <2>6. \A i \in 0 .. n : f[i] = sum[i]
    <3> HIDE DEF n
    <3>1. SumsUp(f, s, n) /\ SumsUp(sum, s, n)
      BY <2>2, <2>4 DEF SumsUp
    <3> QED BY ONLY <2>1, <2>3, <3>1, SameSums, Zenon
  <2> SUFFICES ASSUME NEW i \in 1 .. N PROVE at[i] = sum[i - 1]
    OBVIOUS
  <2>7. i - 1 \in 0 .. n /\ (i - 1) + 1 = i
    BY <1>1
  <2> QED BY <2>5, <2>6, <2>7
<1>9. DOMAIN map = 1 .. N /\ Len(map) = N
  BY <1>1
<1>10. \A i \in 1 .. N : map[i].at = at[i] /\ map[i].size = s[i]
  BY <1>1
<1> HIDE DEF map
<1>11. ASSUME NEW i \in 1 .. N
       PROVE  map[i].at + map[i].size = IF i = N THEN sum[N] ELSE map[i + 1].at
  <2>1. CASE i = N
    BY <1>2, <1>8, <1>10, <2>1
  <2>2. CASE i # N
    <3>1. i + 1 \in 1 .. N /\ i + 1 # 1 /\ (i + 1) - 1 = i
      BY <1>1, <2>2
    <3>2. at[i + 1] = at[i] + s[i]
      BY <1>7, <3>1
    <3> QED BY <1>10, <2>2, <3>1, <3>2
  <2> QED BY <2>1, <2>2
<1> QED BY <1>3, <1>4, <1>9, <1>11, Zenon DEF MapContiguous

LEMMA UpTo ==
  ASSUME NEW n \in Nat
  PROVE  Cardinality(1 .. n) = n
BY FS_Interval

\* The segments that are taken are the first ones.
LEMMA TakenFirst ==
  ASSUME NEW f \in Kernels
  PROVE  \E c \in 0 .. Len(f.segments) : B!Taken(f) = 1 .. c /\ Cardinality(B!Taken(f)) = c
<1> DEFINE n == Len(f.segments)
           S == B!Taken(f)
           Good(j) == f.segments[j].inside /\ ~B!BelowBase(f.segments[j])
<1>1. n \in Nat /\ DOMAIN f.segments = 1 .. n
  OBVIOUS
<1>2. S = {i \in 1 .. n : \A j \in 1 .. i : Good(j)}
  BY <1>1, Zenon DEF B!Taken
<1> HIDE DEF n, S, Good
<1>3. \A i \in S : \A j \in 1 .. i : j \in S
  BY <1>1, <1>2
<1>4. S \subseteq 1 .. n
  BY <1>2
<1>5. \E c \in 0 .. n : S = 1 .. c
  <2>1. CASE S = {}
    BY <1>1, <2>1
  <2>2. CASE S # {}
    <3>1. PICK c \in S : \A j \in S : j <= c
      BY <1>1, <1>4, <2>2, Greatest
    <3>2. S \subseteq 1 .. c /\ 1 .. c \subseteq S
      BY <1>1, <1>3, <1>4, <3>1
    <3>3. c \in 0 .. n
      BY <1>1, <1>4, <3>1
    <3> QED BY <3>2, <3>3
  <2> QED BY <2>1, <2>2
<1>6. PICK c \in 0 .. n : S = 1 .. c
  BY <1>5
<1>7. c \in Nat
  BY <1>1
<1>8. Cardinality(1 .. c) = c
  BY <1>7, UpTo
<1> QED BY <1>6, <1>8 DEF n, S

\* What a load of module/loader.rs leaves in each field.
WholeFile(f) == f.elf /\ B!Taken(f) = DOMAIN f.segments
TakenOf(f) == [i \in B!Taken(f) |-> [of |-> f, at |-> i]]

LEMMA BootFields ==
  ASSUME BootTypes, NEW f \in Kernels, B!LoadKernel(f)
  PROVE  /\ boot'.data = f /\ boot'.loaded = WholeFile(f) /\ boot'.modules = boot.modules
         /\ boot'.segments = IF f.elf THEN boot.segments \o TakenOf(f) ELSE boot.segments
         /\ boot'.symtab = IF WholeFile(f) /\ f.symbols # <<>> THEN f ELSE boot.symtab
         /\ boot'.strtab = IF WholeFile(f) /\ f.symbols # <<>> /\ f.strings THEN f ELSE boot.strtab
         /\ WholeFile(f) => /\ boot'.entry = f /\ boot'.linked = f
                            /\ boot'.tables = IF f.header THEN f ELSE NoFile
         /\ boot' \in [data : KernelFile, entry : KernelFile, tables : KernelFile, linked : KernelFile,
                       symtab : KernelFile, strtab : KernelFile,
                       segments : {boot'.segments}, modules : Seq(Modules), loaded : BOOLEAN]
<1> DEFINE Rec(T) == [data : KernelFile, entry : KernelFile, tables : KernelFile, linked : KernelFile,
                      symtab : KernelFile, strtab : KernelFile,
                      segments : T, modules : Seq(Modules), loaded : BOOLEAN]
<1>1. boot \in Rec({boot.segments}) /\ f \in KernelFile /\ NoFile \in KernelFile
  BY DEF BootTypes, KernelFile
<1>2. CASE ~f.elf
  <2>1. boot' = [boot EXCEPT !.data = f, !.loaded = FALSE]
    BY <1>2, Zenon DEF B!LoadKernel, B!Refused
  <2>2. ~WholeFile(f) /\ WholeFile(f) = FALSE
    BY <1>2 DEF WholeFile
  <2> QED BY <1>1, <1>2, <2>1, <2>2
<1>3. CASE f.elf
  <2> DEFINE T == {boot.segments \o TakenOf(f)}
             r == [boot EXCEPT !.data = f, !.loaded = FALSE, !.entry = f, !.tables = NoFile,
                    !.segments = @ \o TakenOf(f)]
  <2>1. B!Refused(f) = r
    BY <1>3, Zenon DEF B!Refused, TakenOf
  <2>2. r \in Rec(T)
    BY <1>1
  <2>3. /\ r.data = f /\ r.entry = f /\ r.tables = NoFile /\ r.linked = boot.linked
        /\ r.symtab = boot.symtab /\ r.strtab = boot.strtab /\ r.segments = boot.segments \o TakenOf(f)
        /\ r.modules = boot.modules /\ r.loaded = FALSE
    BY <1>1
  <2> HIDE DEF r
  <2>4. CASE WholeFile(f)
    <3> DEFINE q == [r EXCEPT !.loaded = TRUE, !.linked = f,
                     !.tables = IF f.header THEN f ELSE @,
                     !.symtab = IF f.symbols # <<>> THEN f ELSE @,
                     !.strtab = IF f.symbols # <<>> /\ f.strings THEN f ELSE @]
    <3>1. boot' = B!Accepted(f)
      BY <2>4, Zenon DEF B!LoadKernel, WholeFile
    <3>2. B!Accepted(f) = q
      BY <2>1, Zenon DEF B!Accepted
    <3>3. WholeFile(f) = TRUE /\ f.elf = TRUE
      BY <1>3, <2>4 DEF WholeFile
    <3>4. q \in Rec(T)
      BY <1>1, <2>2
    <3>5. /\ q.data = f /\ q.entry = f /\ q.linked = f /\ q.segments = boot.segments \o TakenOf(f)
          /\ q.tables = (IF f.header THEN f ELSE NoFile)
          /\ q.modules = boot.modules /\ q.loaded = TRUE
          /\ q.symtab = (IF f.symbols # <<>> THEN f ELSE boot.symtab)
          /\ q.strtab = (IF f.symbols # <<>> /\ f.strings THEN f ELSE boot.strtab)
      BY <2>2, <2>3
    <3> HIDE DEF q
    <3> QED BY <2>4, <3>1, <3>2, <3>3, <3>4, <3>5
  <2>5. CASE ~WholeFile(f)
    <3>1. boot' = r
      BY <2>1, <2>5, Zenon DEF B!LoadKernel, WholeFile
    <3>2. WholeFile(f) = FALSE /\ f.elf = TRUE
      BY <1>3, <2>5 DEF WholeFile
    <3> QED BY <2>2, <2>3, <2>5, <3>1, <3>2
  <2> QED BY <2>4, <2>5
<1> QED BY <1>2, <1>3

\* Where the two offsets differ.
LEMMA DeltasDiffer ==
  ASSUME NEW f \in Kernels
  PROVE  B!Delta(f) = Delta(f) + IF f.segments # <<>> /\ ~DeltaUnderflows(f) THEN KernelPhys ELSE 0
<1>1. CASE f.segments = <<>>
  BY <1>1 DEF B!Delta, Delta, DeltaUnderflows
<1>2. CASE f.segments # <<>> /\ f.segments[1].vaddr < KernBase
  BY <1>2 DEF B!Delta, Delta, DeltaUnderflows
<1>3. CASE f.segments # <<>> /\ ~(f.segments[1].vaddr < KernBase)
  BY <1>3 DEF B!Delta, Delta, DeltaUnderflows
<1> QED BY <1>1, <1>2, <1>3

BootInv ==
  /\ BootTypes /\ SegmentsKept /\ TablesPaired
  /\ boot.loaded => BootedWhole
  /\ boot.loaded /\ Parses(boot.data) => SameKernel

LEMMA BootStart ==
  ASSUME InitBoth
  PROVE  BootInv
<1>1. boot = [data |-> NoFile, entry |-> NoFile, tables |-> NoFile, linked |-> NoFile,
              symtab |-> NoFile, strtab |-> NoFile, segments |-> <<>>, modules |-> <<>>, loaded |-> FALSE]
      /\ tried = <<>>
  BY Zenon DEF InitBoth, B!Init
<1> DEFINE s == [i \in DOMAIN tried |-> Cardinality(Held(tried[i]))]
<1>2. NoFile \in KernelFile
  BY DEF KernelFile
<1>3. BootTypes
  <2> HIDE DEF s
  <2> QED BY <1>1, <1>2 DEF BootTypes
<1>4. Len(s) = 0
  BY <1>1
<1>5. B!Sum(s) = 0
  BY <1>4, AddedFacts DEF B!Sum
<1>6. Len(boot.segments) = 0 /\ boot.loaded = FALSE /\ boot.symtab = NoFile
  BY <1>1
<1>7. SegmentsKept
  BY <1>5, <1>6, Zenon DEF SegmentsKept
<1>8. TablesPaired
  BY <1>6 DEF TablesPaired, NoFile
<1> QED BY <1>3, <1>6, <1>7, <1>8 DEF BootInv

\* The segments taken of one file, as a list.
LEMMA TakenList ==
  ASSUME NEW f \in Kernels
  PROVE  /\ TakenOf(f) \in Seq([of : Kernels, at : Nat]) /\ Len(TakenOf(f)) = Cardinality(B!Taken(f))
         /\ \A i \in 1 .. Len(TakenOf(f)) : TakenOf(f)[i] = [of |-> f, at |-> i]
         /\ B!Taken(f) = DOMAIN f.segments => Len(TakenOf(f)) = Len(f.segments)
<1>1. PICK c \in 0 .. Len(f.segments) : B!Taken(f) = 1 .. c /\ Cardinality(B!Taken(f)) = c
  BY TakenFirst
<1>2. c \in Nat /\ Len(f.segments) \in Nat /\ DOMAIN f.segments = 1 .. Len(f.segments)
  OBVIOUS
<1>3. TakenOf(f) = [i \in 1 .. c |-> [of |-> f, at |-> i]]
  BY <1>1, Zenon DEF TakenOf
<1>4. TakenOf(f) \in Seq([of : Kernels, at : Nat])
  BY <1>2, <1>3
<1>5. Len(TakenOf(f)) = c /\ \A i \in 1 .. c : TakenOf(f)[i] = [of |-> f, at |-> i]
  BY <1>2, <1>3
<1>6. ASSUME B!Taken(f) = DOMAIN f.segments PROVE c = Len(f.segments)
  <2>1. 1 .. c = 1 .. Len(f.segments)
    BY <1>1, <1>2, <1>6, Zenon
  <2>2. Cardinality(1 .. c) = c /\ Cardinality(1 .. Len(f.segments)) = Len(f.segments)
    BY <1>2, UpTo, Zenon
  <2> QED BY <2>1, <2>2, Zenon
<1> QED BY <1>1, <1>5, <1>4, <1>6

\* A kernel given to both loaders.
LEMMA BothLoaded ==
  ASSUME BootInv, NEW f \in Kernels, LoadKernelBoth(f)
  PROVE  BootInv'
<1> DEFINE Seg == [of : Kernels, at : Nat]
           a == boot.segments
           b == TakenOf(f)
           s == [i \in DOMAIN tried |-> Cardinality(Held(tried[i]))]
           t == [i \in DOMAIN tried' |-> Cardinality(Held(tried'[i]))]
<1>1. BootTypes /\ B!LoadKernel(f) /\ LoadKernel(f) /\ tried' = Append(tried, f)
  BY Zenon DEF BootInv, LoadKernelBoth
<1>2. /\ boot'.data = f /\ boot'.loaded = WholeFile(f) /\ boot'.modules = boot.modules
      /\ boot'.segments = IF f.elf THEN a \o b ELSE a
      /\ boot'.symtab = IF WholeFile(f) /\ f.symbols # <<>> THEN f ELSE boot.symtab
      /\ boot'.strtab = IF WholeFile(f) /\ f.symbols # <<>> /\ f.strings THEN f ELSE boot.strtab
      /\ WholeFile(f) => /\ boot'.entry = f /\ boot'.linked = f
                         /\ boot'.tables = IF f.header THEN f ELSE NoFile
  BY <1>1, BootFields
<1>3. boot' \in [data : KernelFile, entry : KernelFile, tables : KernelFile, linked : KernelFile,
                 symtab : KernelFile, strtab : KernelFile,
                 segments : {boot'.segments}, modules : Seq(Modules), loaded : BOOLEAN]
  BY <1>1, BootFields
<1>4. a \in Seq(Seg) /\ tried \in Seq(Kernels)
  BY <1>1 DEF BootTypes
<1>5. /\ b \in Seq(Seg) /\ Len(b) = Cardinality(B!Taken(f))
      /\ \A i \in 1 .. Len(b) : b[i] = [of |-> f, at |-> i]
      /\ B!Taken(f) = DOMAIN f.segments => Len(b) = Len(f.segments)
  BY TakenList
<1>6. /\ tried' \in Seq(Kernels) /\ Len(tried') = Len(tried) + 1
      /\ \A i \in 1 .. Len(tried) : tried'[i] = tried[i]
      /\ tried'[Len(tried) + 1] = f
  BY <1>1, <1>4, AppendProperties
<1> HIDE DEF Seg, a, b
<1>7. /\ a \o b \in Seq(Seg) /\ Len(a \o b) = Len(a) + Len(b)
      /\ \A i \in 1 .. Len(a) + Len(b) : (a \o b)[i] = IF i <= Len(a) THEN a[i] ELSE b[i - Len(a)]
  <2>1. a \in Seq(Seg) /\ b \in Seq(Seg)
    BY <1>4, <1>5
  <2> QED BY ONLY <2>1, ConcatProperties
<1>8. Len(a) \in Nat /\ Len(b) \in Nat /\ Len(tried) \in Nat
  BY <1>4, <1>5
<1>9. BootTypes'
  <2>1. boot'.segments \in Seq(Seg)
    BY <1>2, <1>4, <1>7
  <2>2. boot' \in [data : KernelFile, entry : KernelFile, tables : KernelFile, linked : KernelFile,
                   symtab : KernelFile, strtab : KernelFile,
                   segments : Seq(Seg), modules : Seq(Modules), loaded : BOOLEAN]
    BY ONLY <1>3, <2>1
  <2>3. boot'.data \in Kernels
    BY <1>2
  <2> QED BY <1>6, <2>2, <2>3, Zenon DEF BootTypes, Seg
<1>10. SegmentsKept'
  <2>1. DOMAIN tried = 1 .. Len(tried) /\ DOMAIN tried' = 1 .. Len(tried')
    BY <1>4, <1>6
  <2>2. Len(s) = Len(tried) /\ Len(t) = Len(s) + 1
    BY <1>6, <1>8, <2>1
  <2>3. \A i \in 1 .. Len(s) : t[i] = s[i]
    <3>1. \A i \in 1 .. Len(tried) : i \in DOMAIN tried /\ i \in DOMAIN tried' /\ tried'[i] = tried[i]
      BY <1>6, <1>8, <2>1
    <3> QED BY <2>2, <3>1
  <2>4. t[Len(s) + 1] = Cardinality(Held(f))
    <3>1. Len(tried) + 1 \in DOMAIN tried'
      BY <1>6, <1>8, <2>1
    <3>2. t[Len(tried) + 1] = Cardinality(Held(tried'[Len(tried) + 1]))
      BY <3>1
    <3> QED BY <1>6, <2>2, <3>2
  <2>5. Len(a) = B!Sum(s)
    BY Zenon DEF BootInv, SegmentsKept, a
  <2> HIDE DEF s, t
  <2>6. B!Sum(t) = B!Sum(s) + t[Len(s) + 1]
    BY <1>8, <2>2, <2>3, SumAppended
  <2>7. Len(boot'.segments) = Len(a) + Cardinality(Held(f))
    <3>1. CASE f.elf
      <4>1. Held(f) = B!Taken(f)
        BY <3>1 DEF Held
      <4> QED BY <1>2, <1>5, <1>7, <3>1, <4>1
    <3>2. CASE ~f.elf
      <4>1. Cardinality(Held(f)) = 0
        BY <3>2, FS_EmptySet DEF Held
      <4> QED BY <1>2, <1>8, <3>2, <4>1
    <3> QED BY <3>1, <3>2
  <2>8. Len(boot'.segments) = B!Sum(t)
    BY <2>4, <2>5, <2>6, <2>7
  <2> QED BY <2>8, Zenon DEF SegmentsKept, t
<1>11. TablesPaired'
  <2>1. boot.symtab.strings => boot.strtab = boot.symtab
    BY Zenon DEF BootInv, TablesPaired
  <2>2. boot'.symtab.strings => boot'.strtab = boot'.symtab
    BY <1>2, <2>1
  <2> QED BY <2>2 DEF TablesPaired
<1>12. ASSUME boot'.loaded PROVE BootedWhole'
  <2>1. WholeFile(f)
    BY <1>2, <1>12
  <2>2. f.elf /\ B!Taken(f) = DOMAIN f.segments /\ DOMAIN f.segments = 1 .. Len(f.segments) /\ Len(f.segments) \in Nat
    BY <2>1 DEF WholeFile
  <2>3. boot'.segments = a \o b /\ Len(b) = Len(f.segments)
    BY <1>2, <1>5, <2>2
  <2>4. Len(boot'.segments) - Len(f.segments) = Len(a)
    BY ONLY <1>7, <1>8, <2>2, <2>3
  <2>5. ASSUME NEW i \in 1 .. Len(f.segments) PROVE boot'.segments[Len(a) + i] = [of |-> f, at |-> i]
    <3>1. Len(a) + i \in 1 .. Len(a) + Len(b) /\ ~(Len(a) + i <= Len(a)) /\ (Len(a) + i) - Len(a) = i
      BY ONLY <1>8, <2>2, <2>3, i \in 1 .. Len(f.segments)
    <3>2. (a \o b)[Len(a) + i] = b[i]
      BY <1>7, <3>1
    <3> QED BY <1>5, <2>3, <3>2
  <2>6. boot'.entry = f /\ boot'.linked = f /\ boot'.tables = IF f.header THEN f ELSE NoFile
    BY <1>2, <2>1
  <2>7. /\ boot'.entry = boot'.data /\ boot'.linked = boot'.data
        /\ boot'.tables = IF boot'.data.header THEN boot'.data ELSE NoFile
    BY <1>2, <2>6
  <2>8. \A i \in DOMAIN f.segments :
          boot'.segments[(Len(boot'.segments) - Len(f.segments)) + i] = [of |-> f, at |-> i]
    BY <2>2, <2>4, <2>5
  <2>9. boot'.data = f
    BY <1>2
  <2> QED BY <2>7, <2>8, <2>9, Zenon DEF BootedWhole
<1>13. ASSUME boot'.loaded, Parses(f) PROVE SameKernel'
  <2>1. kernel' = [data |-> f, parsed |-> f,
                   symbols |-> IF f.symbols # <<>> THEN f ELSE kernel.symbols,
                   header |-> IF f.header THEN f ELSE NoFile]
    BY <1>1, <1>13, Zenon DEF LoadKernel
  <2>2. kernel'.parsed = f /\ kernel'.header = IF f.header THEN f ELSE NoFile
    BY <2>1
  <2>3. boot'.tables = IF f.header THEN f ELSE NoFile
    BY <1>2, <1>13
  <2>4. kernel'.parsed = f /\ kernel'.header = boot'.tables /\ boot'.data = f
    BY <1>2, <2>2, <2>3
  <2>5. B!Delta(f) = Delta(f) + IF f.segments # <<>> /\ ~DeltaUnderflows(f) THEN KernelPhys ELSE 0
    BY DeltasDiffer
  <2> QED BY <2>4, <2>5, Zenon DEF SameKernel
<1>14. boot'.data = f
  BY <1>2
<1> QED BY <1>9, <1>10, <1>11, <1>12, <1>13, <1>14, Zenon DEF BootInv

\* No other step touches what a load has left, or the files it is of.
LEMMA BootKept ==
  ASSUME BootInv, kernel' = kernel, tried' = tried,
         boot' = boot \/ \E f \in Modules : boot' = [boot EXCEPT !.modules = Append(@, f)]
  PROVE  BootInv'
<1>1. boot \in [data : KernelFile, entry : KernelFile, tables : KernelFile, linked : KernelFile,
                symtab : KernelFile, strtab : KernelFile,
                segments : Seq([of : Kernels, at : Nat]), modules : Seq(Modules), loaded : BOOLEAN]
  BY Zenon DEF BootInv, BootTypes
<1>2. /\ boot' \in [data : KernelFile, entry : KernelFile, tables : KernelFile, linked : KernelFile,
                    symtab : KernelFile, strtab : KernelFile,
                    segments : Seq([of : Kernels, at : Nat]), modules : Seq(Modules), loaded : BOOLEAN]
      /\ boot'.data = boot.data /\ boot'.entry = boot.entry /\ boot'.tables = boot.tables
      /\ boot'.linked = boot.linked /\ boot'.symtab = boot.symtab /\ boot'.strtab = boot.strtab
      /\ boot'.segments = boot.segments /\ boot'.loaded = boot.loaded
  <2>1. CASE boot' = boot
    BY <1>1, <2>1, Zenon
  <2>2. ASSUME NEW f \in Modules, boot' = [boot EXCEPT !.modules = Append(@, f)]
        PROVE  <1>2!1
    <3> DEFINE ms == Append(boot.modules, f)
    <3>1. boot.modules \in Seq(Modules)
      BY <1>1
    <3>2. ms \in Seq(Modules)
      BY <3>1, AppendProperties
    <3>3. boot' = [boot EXCEPT !.modules = ms]
      BY <2>2, Zenon
    <3> QED BY ONLY <1>1, <3>2, <3>3
  <2> QED BY <2>1, <2>2
<1>3. BootTypes'
  BY <1>2, Zenon DEF BootInv, BootTypes
<1>4. SegmentsKept'
  BY <1>2, Zenon DEF BootInv, SegmentsKept
<1>5. TablesPaired'
  BY <1>2, Zenon DEF BootInv, TablesPaired
<1>6. ASSUME boot'.loaded PROVE BootedWhole'
  BY <1>2, <1>6, ZenonT(60) DEF BootInv, BootedWhole
<1>7. ASSUME boot'.loaded, Parses(boot'.data) PROVE SameKernel'
  BY <1>2, <1>7, Zenon DEF BootInv, SameKernel
<1> QED BY <1>3, <1>4, <1>5, <1>6, <1>7, Zenon DEF BootInv

LEMMA BootStep ==
  ASSUME BootInv, [NextBoth]_<<vars, boot, tried>>
  PROVE  BootInv'
<1>1. ASSUME NEW f \in Kernels, LoadKernelBoth(f) PROVE BootInv'
  BY <1>1, BothLoaded
<1>2. ASSUME NEW f \in Modules, LoadModuleBoth(f) PROVE BootInv'
  <2>1. kernel' = kernel /\ tried' = tried
    BY <1>2, Zenon DEF LoadModuleBoth, LoadModule
  <2>2. boot' = boot \/ boot' = [boot EXCEPT !.modules = Append(@, f)]
    BY <1>2, Zenon DEF LoadModuleBoth, B!AddModule
  <2> QED BY <2>1, <2>2, BootKept
<1>3. CASE Patching
  <2>1. kernel' = kernel
    BY <1>3, Zenon DEF Patching, PatchDisabled, StartPatch, SkipModule, ReadSet, PatchEntry, EndModule, EndPatch
  <2>2. boot' = boot /\ tried' = tried
    BY <1>3 DEF Patching
  <2> QED BY <2>1, <2>2, BootKept
<1>4. CASE UNCHANGED <<vars, boot, tried>>
  <2>1. kernel' = kernel /\ boot' = boot /\ tried' = tried
    BY <1>4 DEF vars
  <2> QED BY <2>1, BootKept
<1> QED BY <1>1, <1>2, <1>3, <1>4 DEF NextBoth

\* Whatever both loaders were given, module/loader.rs boots the kernel that
\* loaded last as a whole, and module/mod.rs the same one, and its list of
\* segments holds what every load before got as far as.
THEOREM LastIsLoaded == SpecBoth => []LoadedIsLast
<1>1. InitBoth => BootInv
  BY BootStart
<1>2. BootInv /\ [NextBoth]_<<vars, boot, tried>> => BootInv'
  BY BootStep
<1>3. BootInv => LoadedIsLast
  BY MapHasNoGap DEF BootInv, LoadedIsLast
<1> QED BY <1>1, <1>2, <1>3, PTL DEF SpecBoth

\* A client of both loaders uses module/mod.rs as its own specification says:
\* each of its steps is a step of ModuleLoader or leaves it alone.
THEOREM BothLoadersLoad == SpecBoth => Spec
<1>1. InitBoth => Init
  BY DEF InitBoth
<1>2. ASSUME [NextBoth]_<<vars, boot, tried>> PROVE [Next]_vars
  <2>1. ASSUME NEW f \in Kernels, LoadKernelBoth(f) PROVE Next
    BY <2>1, Zenon DEF LoadKernelBoth, Next
  <2>2. ASSUME NEW f \in Modules, LoadModuleBoth(f) PROVE Next
    BY <2>2, Zenon DEF LoadModuleBoth, Next
  <2>3. CASE Patching
    BY <2>3, Zenon DEF Patching, Next
  <2>4. CASE UNCHANGED <<vars, boot, tried>>
    BY <2>4, Zenon
  <2> QED BY <1>2, <2>1, <2>2, <2>3, <2>4, Zenon DEF NextBoth
<1> QED BY <1>1, <1>2, PTL DEF SpecBoth, Spec

\* So what holds of module/mod.rs by itself holds of it under such a client.
THEOREM BothLoadersKeep ==
  SpecBoth => [](TypeOK /\ OneKernel /\ PatchExact /\ StopsAtFailure /\ SuccessMeansInside /\ VersionsAddUp)
BY BothLoadersLoad, LoaderTypes, KernelIsOne, PatchIsExact, FailureStops, SuccessIsInside,
   VersionsAreAddedUp, PTL
=============================================================================
