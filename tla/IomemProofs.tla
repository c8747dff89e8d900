---------------------------- MODULE IomemProofs ----------------------------
(***************************************************************************)
(* Theorems about IomemRegions, for any tree of resources Linux may print  *)
(* and any search: the regions left when the subtraction ends hold the     *)
(* bytes of System RAM that nothing but the kernel's image is nested over, *)
(* in ascending order; the memory table has them; the search misses none.  *)
(***************************************************************************)
EXTENDS IomemRegions, TLAPS, SequenceTheorems, FiniteSetTheorems, WellFoundedInduction

\* What a range list covers, after the operations of the loops.
LEMMA AppendIn ==
  ASSUME NEW s \in Seq(Ranges), NEW r \in Ranges, NEW b
  PROVE  In(b, Append(s, r)) <=> In(b, s) \/ Covers(r, b)
<1>1. /\ DOMAIN Append(s, r) = 1 .. Len(s) + 1 /\ DOMAIN s = 1 .. Len(s) /\ Len(s) \in Nat
      /\ \A i \in 1 .. Len(s) : Append(s, r)[i] = s[i]
      /\ Append(s, r)[Len(s) + 1] = r
  BY AppendProperties
<1>2. DOMAIN Append(s, r) = DOMAIN s \union {Len(s) + 1} /\ Len(s) + 1 \notin DOMAIN s
  BY <1>1
<1> QED BY <1>1, <1>2 DEF In, Covers

LEMMA ConcatIn ==
  ASSUME NEW s \in Seq(Ranges), NEW t \in Seq(Ranges), NEW b
  PROVE  In(b, s \o t) <=> In(b, s) \/ In(b, t)
<1>1. /\ DOMAIN (s \o t) = 1 .. Len(s) + Len(t)
      /\ DOMAIN s = 1 .. Len(s) /\ DOMAIN t = 1 .. Len(t)
      /\ Len(s) \in Nat /\ Len(t) \in Nat
      /\ \A i \in 1 .. Len(s) + Len(t) :
           (s \o t)[i] = IF i <= Len(s) THEN s[i] ELSE t[i - Len(s)]
  BY ConcatProperties
<1>2. ASSUME In(b, s \o t) PROVE In(b, s) \/ In(b, t)
  <2> PICK i \in 1 .. Len(s) + Len(t) : Covers((s \o t)[i], b)
    BY <1>1, <1>2 DEF In, Covers
  <2>1. CASE i <= Len(s)
    BY <1>1, <2>1 DEF In, Covers
  <2>2. CASE i > Len(s)
    <3>1. i - Len(s) \in DOMAIN t /\ (s \o t)[i] = t[i - Len(s)]
      BY <1>1, <2>2
    <3> QED BY <3>1 DEF In, Covers
  <2> QED BY <1>1, <2>1, <2>2
<1>3. ASSUME In(b, s) PROVE In(b, s \o t)
  <2> PICK i \in DOMAIN s : Covers(s[i], b)
    BY <1>3 DEF In, Covers
  <2>1. i \in DOMAIN (s \o t) /\ (s \o t)[i] = s[i]
    BY <1>1
  <2> QED BY <2>1 DEF In, Covers
<1>4. ASSUME In(b, t) PROVE In(b, s \o t)
  <2> PICK i \in DOMAIN t : Covers(t[i], b)
    BY <1>4 DEF In, Covers
  <2>1. i + Len(s) \in DOMAIN (s \o t) /\ (s \o t)[i + Len(s)] = t[i]
    BY <1>1
  <2> QED BY <2>1 DEF In, Covers
<1> QED BY <1>2, <1>3, <1>4

LEMMA DrainedIn ==
  ASSUME NEW s \in Seq(Ranges), s # <<>>, NEW b
  PROVE  /\ Head(s) \in Ranges /\ Tail(s) \in Seq(Ranges)
         /\ In(b, s) <=> Covers(Head(s), b) \/ In(b, Tail(s))
<1>1. /\ Head(s) \in Ranges /\ Tail(s) \in Seq(Ranges) /\ Head(s) = s[1]
      /\ DOMAIN s = 1 .. Len(s) /\ DOMAIN Tail(s) = 1 .. Len(s) - 1
      /\ Len(s) \in Nat \ {0}
      /\ \A i \in 1 .. Len(s) - 1 : Tail(s)[i] = s[i + 1]
  BY HeadTailProperties
<1>2. ASSUME In(b, s) PROVE Covers(Head(s), b) \/ In(b, Tail(s))
  <2> PICK i \in DOMAIN s : Covers(s[i], b)
    BY <1>2 DEF In, Covers
  <2>1. CASE i = 1
    BY <1>1, <2>1
  <2>2. CASE i # 1
    <3>1. i - 1 \in DOMAIN Tail(s) /\ Tail(s)[i - 1] = s[i]
      BY <1>1, <2>2
    <3> QED BY <3>1 DEF In, Covers
  <2> QED BY <2>1, <2>2
<1>3. ASSUME In(b, Tail(s)) PROVE In(b, s)
  <2> PICK i \in DOMAIN Tail(s) : Covers(Tail(s)[i], b)
    BY <1>3 DEF In, Covers
  <2>1. i + 1 \in DOMAIN s /\ Tail(s)[i] = s[i + 1]
    BY <1>1
  <2> QED BY <2>1 DEF In, Covers
<1>4. ASSUME Covers(Head(s), b) PROVE In(b, s)
  BY <1>1, <1>4 DEF In, Covers
<1> QED BY <1>1, <1>2, <1>3, <1>4

\* And what of it stays ascending.
LEMMA AppendAscending ==
  ASSUME NEW s \in Seq(Ranges), NEW r \in Ranges, Ascending(s),
         \A i \in DOMAIN s : s[i].end < r.start
  PROVE  Ascending(Append(s, r))
<1>1. /\ DOMAIN Append(s, r) = 1 .. Len(s) + 1 /\ DOMAIN s = 1 .. Len(s) /\ Len(s) \in Nat
      /\ \A i \in 1 .. Len(s) : Append(s, r)[i] = s[i]
      /\ Append(s, r)[Len(s) + 1] = r
  BY AppendProperties
<1> SUFFICES ASSUME NEW i \in 1 .. Len(s) + 1, NEW j \in 1 .. Len(s) + 1, i < j
             PROVE  Append(s, r)[i].end < Append(s, r)[j].start
  BY <1>1 DEF Ascending
<1>2. CASE j = Len(s) + 1
  <2>1. i \in 1 .. Len(s)
    BY <1>1, <1>2
  <2> QED BY <1>1, <1>2, <2>1
<1>3. CASE j # Len(s) + 1
  <2>1. i \in 1 .. Len(s) /\ j \in 1 .. Len(s)
    BY <1>1, <1>3
  <2> QED BY <1>1, <2>1 DEF Ascending
<1> QED BY <1>2, <1>3

LEMMA ConcatAscending ==
  ASSUME NEW s \in Seq(Ranges), NEW t \in Seq(Ranges), Ascending(s), Ascending(t),
         \A i \in DOMAIN s, j \in DOMAIN t : s[i].end < t[j].start
  PROVE  Ascending(s \o t)
<1>1. /\ DOMAIN (s \o t) = 1 .. Len(s) + Len(t)
      /\ DOMAIN s = 1 .. Len(s) /\ DOMAIN t = 1 .. Len(t)
      /\ Len(s) \in Nat /\ Len(t) \in Nat
      /\ \A i \in 1 .. Len(s) + Len(t) :
           (s \o t)[i] = IF i <= Len(s) THEN s[i] ELSE t[i - Len(s)]
  BY ConcatProperties
<1> SUFFICES ASSUME NEW i \in 1 .. Len(s) + Len(t), NEW j \in 1 .. Len(s) + Len(t), i < j
             PROVE  (s \o t)[i].end < (s \o t)[j].start
  BY <1>1 DEF Ascending
<1>2. CASE j <= Len(s)
  <2>1. /\ i \in DOMAIN s /\ j \in DOMAIN s
        /\ (s \o t)[i] = s[i] /\ (s \o t)[j] = s[j]
    BY <1>1, <1>2
  <2> QED BY <2>1 DEF Ascending
<1>3. CASE i <= Len(s) /\ j > Len(s)
  <2>1. /\ i \in DOMAIN s /\ j - Len(s) \in DOMAIN t
        /\ (s \o t)[i] = s[i] /\ (s \o t)[j] = t[j - Len(s)]
    BY <1>1, <1>3
  <2> QED BY <2>1
<1>4. CASE i > Len(s)
  <2>1. /\ i - Len(s) \in DOMAIN t /\ j - Len(s) \in DOMAIN t /\ i - Len(s) < j - Len(s)
        /\ (s \o t)[i] = t[i - Len(s)] /\ (s \o t)[j] = t[j - Len(s)]
    BY <1>1, <1>4
  <2> QED BY <2>1 DEF Ascending
<1> QED BY <1>1, <1>2, <1>3, <1>4

LEMMA DrainedAscending ==
  ASSUME NEW s \in Seq(Ranges), s # <<>>, Ascending(s)
  PROVE  /\ Ascending(Tail(s))
         /\ \A j \in DOMAIN Tail(s) : Head(s).end < Tail(s)[j].start
         /\ \A j \in DOMAIN Tail(s) : \E i \in DOMAIN s : Tail(s)[j] = s[i]
<1>1. /\ Head(s) = s[1] /\ DOMAIN s = 1 .. Len(s) /\ DOMAIN Tail(s) = 1 .. Len(s) - 1
      /\ Len(s) \in Nat \ {0}
      /\ \A i \in 1 .. Len(s) - 1 : Tail(s)[i] = s[i + 1]
  BY HeadTailProperties
<1>2. \A j \in DOMAIN Tail(s) : j + 1 \in DOMAIN s /\ Tail(s)[j] = s[j + 1]
  BY <1>1
<1>3. \A j \in DOMAIN Tail(s) : Head(s).end < Tail(s)[j].start
  BY <1>1, <1>2 DEF Ascending
<1>4. Ascending(Tail(s))
  <2> SUFFICES ASSUME NEW i \in DOMAIN Tail(s), NEW j \in DOMAIN Tail(s), i < j
               PROVE  Tail(s)[i].end < Tail(s)[j].start
    BY DEF Ascending
  <2>1. i + 1 \in DOMAIN s /\ j + 1 \in DOMAIN s /\ i + 1 < j + 1
    BY <1>1, <1>2
  <2> QED BY <1>2, <2>1 DEF Ascending
<1> QED BY <1>2, <1>3, <1>4
---------------------------------------------------------------------------
LEMMA OneRange ==
  ASSUME NEW r \in Ranges
  PROVE  /\ <<r>> \in Seq(Ranges) /\ DOMAIN <<r>> = {1} /\ <<r>>[1] = r
         /\ Ascending(<<r>>)
         /\ \A b : In(b, <<r>>) <=> Covers(r, b)
<1>1. <<r>> \in Seq(Ranges) /\ DOMAIN <<r>> = {1} /\ <<r>>[1] = r
  OBVIOUS
<1>2. Ascending(<<r>>)
  BY <1>1 DEF Ascending
<1>3. \A b : In(b, <<r>>) <=> Covers(r, b)
  BY <1>1 DEF In, Covers
<1> QED BY <1>1, <1>2, <1>3

LEMMA NoRange ==
  /\ <<>> \in Seq(Ranges) /\ DOMAIN <<>> = {}
  /\ Ascending(<<>>) /\ \A b : ~In(b, <<>>)
<1>1. <<>> \in Seq(Ranges) /\ DOMAIN <<>> = {}
  OBVIOUS
<1> QED BY <1>1 DEF Ascending, In

\* subtract_ranges, for one range: the bytes of r that s does not have, in
\* ascending pieces of r.
LEMMA PiecesExact ==
  ASSUME NEW r \in Ranges, NEW s \in Ranges
  PROVE  /\ Pieces(r, s) \in Seq(Ranges)
         /\ Ascending(Pieces(r, s))
         /\ \A i \in DOMAIN Pieces(r, s) :
              r.start <= Pieces(r, s)[i].start /\ Pieces(r, s)[i].end <= r.end
         /\ \A b \in 0 .. MaxAddr : In(b, Pieces(r, s)) <=> Covers(r, b) /\ ~Covers(s, b)
<1>1. /\ MaxAddr \in Nat
      /\ r.start \in 0 .. MaxAddr /\ r.end \in 0 .. MaxAddr /\ r.start <= r.end
      /\ s.start \in 0 .. MaxAddr /\ s.end \in 0 .. MaxAddr /\ s.start <= s.end
  BY IomemAssumption DEF Ranges
<1>2. CASE ~Overlaps(r, s)
  <2>1. Pieces(r, s) = <<r>>
    BY <1>2 DEF Pieces
  <2>2. \A b \in 0 .. MaxAddr : Covers(r, b) => ~Covers(s, b)
    BY <1>1, <1>2 DEF Overlaps, Covers
  <2> QED BY <1>1, <2>1, <2>2, OneRange
<1>3. CASE Overlaps(r, s)
  <2> DEFINE lo == R(r.start, s.start - 1)
             hi == R(s.end + 1, r.end)
             A == IF s.start > r.start THEN <<lo>> ELSE <<>>
             B == IF s.end < r.end THEN <<hi>> ELSE <<>>
  <2>1. Pieces(r, s) = A \o B
    BY <1>3 DEF Pieces
  <2>2. s.start > r.start => lo \in Ranges /\ lo.start = r.start /\ lo.end = s.start - 1
    BY <1>1 DEF Ranges, R
  <2>3. s.end < r.end => hi \in Ranges /\ hi.start = s.end + 1 /\ hi.end = r.end
    BY <1>1 DEF Ranges, R
  <2>4. /\ A \in Seq(Ranges) /\ Ascending(A)
        /\ \A i \in DOMAIN A : s.start > r.start /\ A[i] = lo
        /\ \A b : In(b, A) <=> s.start > r.start /\ Covers(lo, b)
    <3>1. CASE s.start > r.start
      <4>1. A = <<lo>>
        BY <3>1
      <4> HIDE DEF A, lo
      <4> QED BY <2>2, <3>1, <4>1, OneRange
    <3>2. CASE ~(s.start > r.start)
      <4>1. A = <<>>
        BY <3>2
      <4> HIDE DEF A, lo
      <4> QED BY <3>2, <4>1, NoRange
    <3> QED BY <3>1, <3>2
  <2>5. /\ B \in Seq(Ranges) /\ Ascending(B)
        /\ \A i \in DOMAIN B : s.end < r.end /\ B[i] = hi
        /\ \A b : In(b, B) <=> s.end < r.end /\ Covers(hi, b)
    <3>1. CASE s.end < r.end
      <4>1. B = <<hi>>
        BY <3>1
      <4> HIDE DEF B, hi
      <4> QED BY <2>3, <3>1, <4>1, OneRange
    <3>2. CASE ~(s.end < r.end)
      <4>1. B = <<>>
        BY <3>2
      <4> HIDE DEF B, hi
      <4> QED BY <3>2, <4>1, NoRange
    <3> QED BY <3>1, <3>2
  <2> HIDE DEF A, B, lo, hi
  <2>6. \A i \in DOMAIN A, j \in DOMAIN B : A[i].end < B[j].start
    BY <1>1, <2>2, <2>3, <2>4, <2>5
  <2>7. Ascending(A \o B)
    BY <2>4, <2>5, <2>6, ConcatAscending
  <2>8. A \o B \in Seq(Ranges)
    BY <2>4, <2>5, ConcatProperties
  <2>9. \A i \in DOMAIN (A \o B) : r.start <= (A \o B)[i].start /\ (A \o B)[i].end <= r.end
    <3>1. \A i \in DOMAIN (A \o B) :
            \/ s.start > r.start /\ (A \o B)[i] = lo
            \/ s.end < r.end /\ (A \o B)[i] = hi
      <4>1. /\ DOMAIN (A \o B) = 1 .. Len(A) + Len(B)
            /\ DOMAIN A = 1 .. Len(A) /\ DOMAIN B = 1 .. Len(B)
            /\ Len(A) \in Nat /\ Len(B) \in Nat
            /\ \A i \in 1 .. Len(A) + Len(B) :
                 (A \o B)[i] = IF i <= Len(A) THEN A[i] ELSE B[i - Len(A)]
        BY <2>4, <2>5, ConcatProperties
      <4> TAKE i \in DOMAIN (A \o B)
      <4>2. CASE i <= Len(A)
        <5>1. i \in DOMAIN A /\ (A \o B)[i] = A[i]
          BY <4>1, <4>2
        <5> QED BY <2>4, <5>1
      <4>3. CASE ~(i <= Len(A))
        <5>1. i - Len(A) \in DOMAIN B /\ (A \o B)[i] = B[i - Len(A)]
          BY <4>1, <4>3
        <5> QED BY <2>5, <5>1
      <4> QED BY <4>2, <4>3
    <3>2. r.end >= s.start /\ r.start <= s.end
      BY <1>3 DEF Overlaps
    <3>3. ASSUME NEW i \in DOMAIN (A \o B)
          PROVE  r.start <= (A \o B)[i].start /\ (A \o B)[i].end <= r.end
      <4>1. CASE s.start > r.start /\ (A \o B)[i] = lo
        BY ONLY <1>1, <2>2, <3>2, <4>1
      <4>2. CASE s.end < r.end /\ (A \o B)[i] = hi
        BY ONLY <1>1, <2>3, <3>2, <4>2
      <4> QED BY <3>1, <4>1, <4>2
    <3> QED BY <3>3
  <2>10. \A b \in 0 .. MaxAddr : In(b, A \o B) <=> Covers(r, b) /\ ~Covers(s, b)
    <3> TAKE b \in 0 .. MaxAddr
    <3>1. In(b, A \o B) <=> \/ s.start > r.start /\ Covers(lo, b)
                            \/ s.end < r.end /\ Covers(hi, b)
      BY <2>4, <2>5, ConcatIn
    <3>2. s.start > r.start => (Covers(lo, b) <=> r.start <= b /\ b <= s.start - 1)
      BY <2>2 DEF Covers
    <3>3. s.end < r.end => (Covers(hi, b) <=> s.end + 1 <= b /\ b <= r.end)
      BY <2>3 DEF Covers
    <3>4. Covers(r, b) /\ ~Covers(s, b) <=>
            r.start <= b /\ b <= r.end /\ (b < s.start \/ s.end < b)
      BY <1>1 DEF Covers
    <3>5. r.end >= s.start /\ r.start <= s.end
      BY <1>3 DEF Overlaps
    <3> QED BY <1>1, <3>1, <3>2, <3>3, <3>4, <3>5
  <2> QED BY <2>1, <2>7, <2>8, <2>9, <2>10
<1> QED BY <1>2, <1>3
---------------------------------------------------------------------------
LEMMA EntryFields ==
  ASSUME NEW e \in Entry
  PROVE  e.indent \in Nat /\ e.start \in 0 .. MaxAddr /\ e.end \in 0 .. MaxAddr
BY IomemAssumption DEF Entry

LEMMA LineFields ==
  ASSUME RegionTypes
  PROVE  /\ DOMAIN lines = 1 .. Len(lines) /\ Len(lines) \in Nat /\ MaxAddr \in Nat
         /\ \A i \in DOMAIN lines :
              /\ lines[i].indent \in Nat
              /\ lines[i].start \in 0 .. MaxAddr /\ lines[i].end \in 0 .. MaxAddr
<1>1. lines \in Seq(Entry)
  BY DEF RegionTypes
<1>2. DOMAIN lines = 1 .. Len(lines) /\ Len(lines) \in Nat
  BY <1>1
<1>3. \A i \in DOMAIN lines : lines[i] \in Entry
  BY <1>1, <1>2, ElementOfSeq
<1> QED BY <1>2, <1>3, EntryFields, IomemAssumption

\* A nested line lies in the last root, of which top tells.
LEMMA InLastRoot ==
  ASSUME RegionTypes, Tree, NEW e \in Entry, TreeLine(e), e.indent # 0
  PROVE  \E j \in DOMAIN lines :
           /\ Root(j) /\ lines[j].start <= e.start /\ e.end <= lines[j].end
           /\ \A k \in j + 1 .. Len(lines) : ~Root(k)
           /\ top = (lines[j].desc = "ram")
<1>1. /\ DOMAIN lines = 1 .. Len(lines) /\ Len(lines) \in Nat
      /\ e.indent \in Nat /\ e.start \in Nat /\ e.end \in Nat
  BY LineFields, EntryFields
<1>2. \A i \in DOMAIN lines :
        lines[i].indent \in Nat /\ lines[i].start \in Nat /\ lines[i].end \in Nat
  BY LineFields
<1>3. PICK i \in DOMAIN lines :
        /\ lines[i].start <= e.start /\ e.end <= lines[i].end
        /\ \A j \in i + 1 .. Len(lines) : lines[j].indent >= e.indent
  BY <1>1 DEF TreeLine
<1>4. PICK j \in 1 .. i :
        /\ Root(j) /\ lines[j].start <= lines[i].start /\ lines[i].end <= lines[j].end
        /\ \A k \in j + 1 .. i : ~Root(k)
  BY DEF Tree
<1>5. j \in DOMAIN lines
  BY <1>1
<1>6. ASSUME NEW k \in j + 1 .. Len(lines) PROVE ~Root(k)
  <2>1. CASE k <= i
    BY <1>1, <1>4, <2>1
  <2>2. CASE k > i
    <3>1. k \in i + 1 .. Len(lines) /\ k \in DOMAIN lines
      BY <1>1, <1>5, <2>2
    <3>2. lines[k].indent >= e.indent /\ lines[k].indent \in Nat
      BY <1>2, <1>3, <3>1
    <3> QED BY <1>1, <3>2 DEF Root
  <2> QED BY <1>1, <1>5, <2>1, <2>2
<1>7. top = (lines[j].desc = "ram")
  BY <1>4, <1>5, <1>6 DEF Tree
<1>8. lines[j].start <= e.start /\ e.end <= lines[j].end
  BY <1>1, <1>2, <1>3, <1>4, <1>5
<1> QED BY <1>4, <1>5, <1>6, <1>7, <1>8

\* The lines after one more is read.
LEMMA LineRead ==
  ASSUME RegionTypes, NEW e \in Entry, ReadLine(e)
  PROVE  /\ DOMAIN lines = 1 .. Len(lines) /\ Len(lines) \in Nat
         /\ DOMAIN lines' = 1 .. Len(lines) + 1 /\ Len(lines') = Len(lines) + 1
         /\ lines' \in Seq(Entry)
         /\ \A i \in DOMAIN lines : i \in DOMAIN lines' /\ lines'[i] = lines[i]
         /\ lines'[Len(lines) + 1] = e
         /\ \A i \in DOMAIN lines' : i \in DOMAIN lines \/ i = Len(lines) + 1
         /\ \A i \in DOMAIN lines : Root(i)' <=> Root(i)
         /\ \A i \in DOMAIN lines' : i = Len(lines) + 1 => (Root(i)' <=> e.indent = 0)
<1>1. lines \in Seq(Entry) /\ lines' = Append(lines, e)
  BY DEF RegionTypes, ReadLine
<1>2. /\ lines' \in Seq(Entry) /\ Len(lines') = Len(lines) + 1
      /\ DOMAIN lines = 1 .. Len(lines) /\ Len(lines) \in Nat
      /\ DOMAIN lines' = 1 .. Len(lines) + 1
      /\ \A i \in 1 .. Len(lines) : lines'[i] = lines[i]
      /\ lines'[Len(lines) + 1] = e
  BY <1>1, AppendProperties
<1>3. /\ \A i \in DOMAIN lines : i \in DOMAIN lines'
      /\ \A i \in DOMAIN lines' : i \in DOMAIN lines \/ i = Len(lines) + 1
  BY <1>2
<1>4. \A i \in DOMAIN lines : lines'[i] = lines[i]
  BY <1>2
<1>5. \A i \in DOMAIN lines : Root(i)' <=> Root(i)
  BY <1>4 DEF Root
<1>6. \A i \in DOMAIN lines' : i = Len(lines) + 1 => (Root(i)' <=> e.indent = 0)
  BY <1>2 DEF Root
<1> QED BY ONLY <1>2, <1>3, <1>4, <1>5, <1>6

LEMMA TreeStep ==
  ASSUME RegionTypes, Tree, NEW e \in Entry, ReadLine(e)
  PROVE  Tree'
<1> DEFINE n == Len(lines)
<1>1. /\ DOMAIN lines = 1 .. n /\ n \in Nat
      /\ DOMAIN lines' = 1 .. n + 1 /\ Len(lines') = n + 1
      /\ \A i \in DOMAIN lines : i \in DOMAIN lines' /\ lines'[i] = lines[i]
      /\ lines'[n + 1] = e
      /\ \A i \in DOMAIN lines' : i \in DOMAIN lines \/ i = n + 1
      /\ \A i \in DOMAIN lines : Root(i)' <=> Root(i)
      /\ \A i \in DOMAIN lines' : i = n + 1 => (Root(i)' <=> e.indent = 0)
  BY LineRead
<1> HIDE DEF n
<1>2. TreeLine(e) /\ top' = (IF e.indent = 0 THEN e.desc = "ram" ELSE top)
  BY DEF ReadLine
<1>3. \A i \in DOMAIN lines : e.indent = 0 => lines[i].end < e.start
  <2>1. \A i \in DOMAIN lines : lines[i].indent \in Nat
    BY LineFields
  <2>2. \A i \in DOMAIN lines : e.indent = 0 => lines[i].indent >= e.indent
    BY <2>1
  <2> QED BY <1>2, <2>2 DEF TreeLine
<1>4. ASSUME NEW i \in DOMAIN lines'
      PROVE  \E j \in 1 .. i :
               /\ Root(j)' /\ lines'[j].start <= lines'[i].start /\ lines'[i].end <= lines'[j].end
               /\ \A k \in j + 1 .. i : ~Root(k)'
  <2>1. CASE i \in DOMAIN lines
    <3>1. PICK j \in 1 .. i :
            /\ Root(j) /\ lines[j].start <= lines[i].start /\ lines[i].end <= lines[j].end
            /\ \A k \in j + 1 .. i : ~Root(k)
      BY <2>1 DEF Tree
    <3>2. j \in DOMAIN lines /\ \A k \in j + 1 .. i : k \in DOMAIN lines
      BY <1>1, <2>1
    <3>3. Root(j)' /\ \A k \in j + 1 .. i : ~Root(k)'
      BY <1>1, <3>1, <3>2
    <3>4. lines'[j].start <= lines'[i].start /\ lines'[i].end <= lines'[j].end
      BY <1>1, <2>1, <3>1, <3>2
    <3> QED BY <3>3, <3>4
  <2>2. CASE i = n + 1 /\ e.indent = 0
    <3>1. i \in 1 .. i /\ Root(i)' /\ \A k \in i + 1 .. i : ~Root(k)'
      BY <1>1, <2>2
    <3>2. lines'[i].start <= lines'[i].start /\ lines'[i].end <= lines'[i].end
      BY <1>1, <2>2, IomemAssumption DEF Entry
    <3> QED BY <3>1, <3>2
  <2>3. CASE i = n + 1 /\ e.indent # 0
    <3>1. PICK j \in DOMAIN lines :
            /\ Root(j) /\ lines[j].start <= e.start /\ e.end <= lines[j].end
            /\ \A k \in j + 1 .. n : ~Root(k)
      BY <1>2, <2>3, InLastRoot DEF n
    <3>2. j \in 1 .. i /\ Root(j)'
      BY <1>1, <2>3, <3>1
    <3>3. lines'[j].start <= lines'[i].start /\ lines'[i].end <= lines'[j].end
      BY <1>1, <2>3, <3>1
    <3>4. ASSUME NEW k \in j + 1 .. i PROVE ~Root(k)'
      <4>1. CASE k = n + 1
        BY <1>1, <2>3, <4>1
      <4>2. CASE k # n + 1
        <5>1. k \in j + 1 .. n /\ k \in DOMAIN lines
          BY <1>1, <2>3, <4>2
        <5> QED BY <1>1, <3>1, <5>1
      <4> QED BY <4>1, <4>2
    <3> QED BY <3>2, <3>3, <3>4
  <2> QED BY <1>1, <2>1, <2>2, <2>3
<1>5. ASSUME NEW i \in DOMAIN lines', NEW j \in DOMAIN lines', Root(i)', Root(j)', i < j
      PROVE  lines'[i].end < lines'[j].start
  <2>1. i \in DOMAIN lines
    BY <1>1, <1>5
  <2>2. CASE j = n + 1
    <3>1. e.indent = 0
      BY <1>1, <1>5, <2>2
    <3> QED BY <1>1, <1>3, <2>1, <2>2, <3>1
  <2>3. CASE j \in DOMAIN lines
    BY <1>1, <1>5, <2>1, <2>3 DEF Tree
  <2> QED BY <1>1, <2>2, <2>3
<1>6. ASSUME NEW j \in DOMAIN lines', Root(j)', \A k \in j + 1 .. n + 1 : ~Root(k)'
      PROVE  top' = (lines'[j].desc = "ram")
  <2>1. CASE j = n + 1
    BY <1>1, <1>2, <1>6, <2>1
  <2>2. CASE j \in DOMAIN lines
    <3>1. n + 1 \in j + 1 .. n + 1 /\ \A k \in j + 1 .. n : k \in j + 1 .. n + 1 /\ k \in DOMAIN lines
      BY <1>1, <2>2
    <3>2. e.indent # 0 /\ Root(j) /\ \A k \in j + 1 .. n : ~Root(k)
      BY <1>1, <1>6, <2>2, <3>1
    <3>3. top = (lines[j].desc = "ram")
      BY <2>2, <3>2 DEF Tree, n
    <3> QED BY <1>1, <1>2, <2>2, <3>2, <3>3
  <2> QED BY <1>1, <2>1, <2>2
<1> QED BY <1>1, <1>4, <1>5, <1>6 DEF Tree
---------------------------------------------------------------------------
\* Which bytes a line makes RAM, and which it makes occupied.
LEMMA BytesRead ==
  ASSUME RegionTypes, NEW e \in Entry, ReadLine(e), NEW b
  PROVE  /\ RamByte(b)' <=> RamByte(b) \/ (e.indent = 0 /\ e.desc = "ram" /\ Covers(e, b))
         /\ Nested(b)' <=> Nested(b) \/ (e.indent # 0 /\ e.desc # "keeper" /\ Covers(e, b))
<1> DEFINE n == Len(lines)
<1>1. /\ \A i \in DOMAIN lines : i \in DOMAIN lines' /\ lines'[i] = lines[i]
      /\ n + 1 \in DOMAIN lines' /\ lines'[n + 1] = e
      /\ \A i \in DOMAIN lines' : i \in DOMAIN lines \/ i = n + 1
  BY LineRead
<1> HIDE DEF n
<1>2. RamByte(b)' <=> \E i \in DOMAIN lines' :
        lines'[i].indent = 0 /\ lines'[i].desc = "ram" /\ Covers(lines'[i], b)
  BY DEF RamByte, Root, Covers
<1>3. RamByte(b) <=> \E i \in DOMAIN lines :
        lines[i].indent = 0 /\ lines[i].desc = "ram" /\ Covers(lines[i], b)
  BY DEF RamByte, Root
<1>4. Nested(b)' <=> \E i \in DOMAIN lines' :
        lines'[i].indent # 0 /\ lines'[i].desc # "keeper" /\ Covers(lines'[i], b)
  BY DEF Nested, Root, Covers
<1>5. Nested(b) <=> \E i \in DOMAIN lines :
        lines[i].indent # 0 /\ lines[i].desc # "keeper" /\ Covers(lines[i], b)
  BY DEF Nested, Root
<1>6. RamByte(b)' <=> RamByte(b) \/ (e.indent = 0 /\ e.desc = "ram" /\ Covers(e, b))
  BY ONLY <1>1, <1>2, <1>3
<1>7. Nested(b)' <=> Nested(b) \/ (e.indent # 0 /\ e.desc # "keeper" /\ Covers(e, b))
  BY ONLY <1>1, <1>4, <1>5
<1> QED BY <1>6, <1>7

LEMMA FromLinesAppend ==
  ASSUME RegionTypes, NEW e \in Entry, ReadLine(e), NEW s \in Seq(Ranges), NEW t,
         FromLines(s), t = s \/ (R(e.start, e.end) \in Ranges /\ t = Append(s, R(e.start, e.end)))
  PROVE  \A k \in DOMAIN t : \E i \in DOMAIN lines' : t[k].end = lines'[i].end
<1>1. /\ \A i \in DOMAIN lines : i \in DOMAIN lines' /\ lines'[i] = lines[i]
      /\ Len(lines) + 1 \in DOMAIN lines' /\ lines'[Len(lines) + 1] = e
  BY LineRead
<1>2. \A k \in DOMAIN s : \E i \in DOMAIN lines' : s[k].end = lines'[i].end
  BY <1>1 DEF FromLines
<1>3. ASSUME R(e.start, e.end) \in Ranges, t = Append(s, R(e.start, e.end)), NEW k \in DOMAIN t
      PROVE  \E i \in DOMAIN lines' : t[k].end = lines'[i].end
  <2>1. /\ DOMAIN t = 1 .. Len(s) + 1 /\ DOMAIN s = 1 .. Len(s) /\ Len(s) \in Nat
        /\ \A i \in 1 .. Len(s) : t[i] = s[i]
        /\ t[Len(s) + 1] = R(e.start, e.end)
    BY <1>3, AppendProperties
  <2>2. CASE k = Len(s) + 1
    <3>1. t[k].end = e.end
      BY <2>1, <2>2 DEF R
    <3> QED BY <1>1, <3>1
  <2>3. CASE k # Len(s) + 1
    <3>1. k \in 1 .. Len(s)
      BY <2>1, <2>3
    <3>2. k \in DOMAIN s /\ t[k] = s[k]
      BY <2>1, <3>1
    <3> QED BY <1>2, <3>2
  <2> QED BY <2>2, <2>3
<1> QED BY <1>2, <1>3

\* Every range taken from the file ends below a new root.
LEMMA EndsBelow ==
  ASSUME RegionTypes, NEW e \in Entry, ReadLine(e), e.indent = 0, NEW s \in Seq(Ranges), FromLines(s)
  PROVE  /\ \A i \in DOMAIN lines : lines[i].end < e.start
         /\ \A k \in DOMAIN s : s[k].end < e.start
         /\ \A b \in 0 .. MaxAddr : Covers(e, b) => ~In(b, s) /\ ~RamByte(b) /\ ~Nested(b)
<1>1. \A i \in DOMAIN lines : lines[i].end < e.start
  <2>1. \A i \in DOMAIN lines : lines[i].indent >= e.indent
    BY LineFields
  <2> QED BY <2>1 DEF ReadLine, TreeLine
<1>2. \A k \in DOMAIN s : s[k].end < e.start
  BY <1>1 DEF FromLines
<1>3. ASSUME NEW b \in 0 .. MaxAddr, Covers(e, b)
      PROVE  ~In(b, s) /\ ~RamByte(b) /\ ~Nested(b)
  <2>1. e.start <= b /\ e.start \in Nat /\ b \in Nat
    BY <1>3, EntryFields, IomemAssumption DEF Covers
  <2>2. \A i \in DOMAIN lines : ~Covers(lines[i], b)
    BY <1>1, <2>1, LineFields DEF Covers
  <2>3. \A k \in DOMAIN s : s[k].end \in Nat
    <3>1. \A k \in DOMAIN s : s[k] \in Ranges
      BY ElementOfSeq
    <3> QED BY <3>1, IomemAssumption DEF Ranges
  <2>4. \A k \in DOMAIN s : ~(b <= s[k].end)
    BY <1>2, <2>1, <2>3
  <2> QED BY <2>2, <2>4 DEF In, RamByte, Nested
<1> QED BY <1>1, <1>2, <1>3

\* A line read keeps types and invariant.
LEMMA ReadStep ==
  ASSUME RegionTypes, ReadInv, NEW e \in Entry, ReadLine(e)
  PROVE  RegionTypes' /\ ReadInv'
<1> DEFINE r == R(e.start, e.end)
<1>1. /\ pc' = pc /\ res' = res /\ next' = next
      /\ available' = (IF e.indent = 0 /\ e.desc = "ram" THEN Append(available, r) ELSE available)
      /\ reserved' = (IF IsReserved(e) THEN Append(reserved, r) ELSE reserved)
      /\ e.start <= e.end
  BY DEF ReadLine, TreeLine
<1>2. r \in Ranges /\ \A b : Covers(r, b) <=> Covers(e, b)
  BY <1>1, EntryFields DEF R, Ranges, Covers
<1>3. r.start = e.start
  BY DEF R
<1> HIDE DEF r
<1>4. available \in Seq(Ranges) /\ reserved \in Seq(Ranges)
  BY DEF RegionTypes
<1>5. FromLines(available) /\ FromLines(reserved) /\ Ascending(available) /\ Tree
  BY DEF ReadInv
<1>6. RegionTypes'
  <2>1. available' \in Seq(Ranges) /\ reserved' \in Seq(Ranges)
    BY <1>1, <1>2, <1>4, AppendProperties
  <2>2. lines' \in Seq(Entry)
    BY LineRead
  <2>3. res' \in 1 .. Len(reserved') + 1
    <3>1. res = 1 /\ Len(reserved') \in Nat
      BY <2>1 DEF ReadInv
    <3> QED BY <1>1, <3>1
  <2> QED BY <1>1, <2>1, <2>2, <2>3 DEF RegionTypes
<1>7. FromLines(available)' /\ FromLines(reserved)'
  <2>1. \A k \in DOMAIN available' : \E i \in DOMAIN lines' : available'[k].end = lines'[i].end
    BY <1>1, <1>2, <1>4, <1>5, FromLinesAppend DEF r
  <2>2. \A k \in DOMAIN reserved' : \E i \in DOMAIN lines' : reserved'[k].end = lines'[i].end
    <3>1. reserved' = reserved \/ (r \in Ranges /\ reserved' = Append(reserved, r))
      BY ONLY <1>1, <1>2
    <3> QED BY <1>4, <1>5, <3>1, FromLinesAppend DEF r
  <2> QED BY <2>1, <2>2 DEF FromLines
<1>8. Ascending(available)'
  <2>1. CASE e.indent = 0 /\ e.desc = "ram"
    <3>1. \A k \in DOMAIN available : available[k].end < r.start
      BY <1>3, <1>4, <1>5, <2>1, EndsBelow
    <3>2. Ascending(Append(available, r))
      BY <1>2, <1>4, <1>5, <3>1, AppendAscending
    <3>3. available' = Append(available, r)
      BY <1>1, <2>1
    <3>4. Ascending(available')
      BY <3>2, <3>3
    <3> QED BY <3>4 DEF Ascending
  <2>2. CASE ~(e.indent = 0 /\ e.desc = "ram")
    BY <1>1, <1>5, <2>2 DEF Ascending
  <2> QED BY <2>1, <2>2
<1>9. ASSUME NEW b \in 0 .. MaxAddr
      PROVE  In(b, available)' <=> RamByte(b)'
  <2>1. In(b, available)' <=> In(b, available) \/ (e.indent = 0 /\ e.desc = "ram" /\ Covers(e, b))
    <3>1. In(b, Append(available, r)) <=> In(b, available) \/ Covers(e, b)
      BY <1>2, <1>4, AppendIn
    <3>2. In(b, available') <=> In(b, available) \/ (e.indent = 0 /\ e.desc = "ram" /\ Covers(e, b))
      BY <1>1, <3>1
    <3> QED BY <3>2 DEF In
  <2>2. In(b, available) <=> RamByte(b)
    BY DEF ReadInv
  <2> QED BY <2>1, <2>2, BytesRead
<1>10. ASSUME NEW b \in 0 .. MaxAddr, RamByte(b)'
       PROVE  In(b, reserved)' <=> Nested(b)'
  <2>1. In(b, reserved)' <=> In(b, reserved) \/ (IsReserved(e) /\ Covers(e, b))
    <3>1. In(b, Append(reserved, r)) <=> In(b, reserved) \/ Covers(e, b)
      BY <1>2, <1>4, AppendIn
    <3>2. In(b, reserved') <=> In(b, reserved) \/ (IsReserved(e) /\ Covers(e, b))
      BY <1>1, <3>1
    <3> QED BY <3>2 DEF In
  <2>2. Nested(b)' <=> Nested(b) \/ (e.indent # 0 /\ e.desc # "keeper" /\ Covers(e, b))
    BY BytesRead
  <2>3. RamByte(b) \/ (e.indent = 0 /\ e.desc = "ram" /\ Covers(e, b))
    BY <1>10, BytesRead
  <2>4. RamByte(b) => (In(b, reserved) <=> Nested(b))
    BY DEF ReadInv
  <2>5. CASE e.indent = 0
    <3>1. Covers(e, b) => ~In(b, reserved) /\ ~RamByte(b) /\ ~Nested(b)
      BY <1>4, <1>5, <2>5, EndsBelow
    <3>2. e.desc = "ram" => ~IsReserved(e)
      BY <2>5 DEF IsReserved
    <3> QED BY <2>1, <2>2, <2>3, <2>4, <2>5, <3>1, <3>2
  <2>6. CASE e.indent # 0
    <3>1. RamByte(b) /\ (In(b, reserved) <=> Nested(b))
      BY <2>3, <2>4, <2>6
    <3>2. Covers(e, b) => (IsReserved(e) <=> e.desc # "keeper")
      <4>1. SUFFICES ASSUME Covers(e, b) PROVE top = TRUE
        <5>1. e.indent > 0
          BY <2>6, EntryFields
        <5> QED BY <2>6, <4>1, <5>1 DEF IsReserved
      <4>2. PICK j \in DOMAIN lines :
              /\ Root(j) /\ lines[j].start <= e.start /\ e.end <= lines[j].end
              /\ top = (lines[j].desc = "ram")
        BY <1>5, <2>6, InLastRoot DEF ReadLine
      <4>3. PICK i \in DOMAIN lines : Root(i) /\ lines[i].desc = "ram" /\ Covers(lines[i], b)
        BY <3>1 DEF RamByte
      <4>4. Covers(lines[j], b)
        BY <4>1, <4>2, LineFields, EntryFields DEF Covers
      <4>5. i = j
        <5>1. i < j => lines[i].end < lines[j].start
          BY <1>5, <4>2, <4>3 DEF Tree
        <5>2. j < i => lines[j].end < lines[i].start
          BY <1>5, <4>2, <4>3 DEF Tree
        <5> QED BY <4>3, <4>4, <5>1, <5>2, LineFields DEF Covers
      <4> QED BY <4>2, <4>3, <4>5
    <3> QED BY <2>1, <2>2, <2>6, <3>1, <3>2
  <2> QED BY <2>5, <2>6
<1>11. Tree'
  BY <1>5, TreeStep
<1>12. next' = <<>> /\ res' = 1
  BY <1>1 DEF ReadInv
<1> QED BY <1>6, <1>7, <1>8, <1>9, <1>10, <1>11, <1>12 DEF ReadInv
---------------------------------------------------------------------------
LEMMA FreeMeans ==
  ASSUME RegionTypes, NEW b
  PROVE  Free(b) <=> RamByte(b) /\ ~Nested(b)
<1>1. \A i \in DOMAIN lines : lines[i].indent > 0 <=> lines[i].indent # 0
  BY LineFields
<1> QED BY <1>1 DEF Free, RamByte, Nested, Root, Covers

\* Where there is RAM, the reserved ranges are what is nested in it.
LEMMA EndStep ==
  ASSUME RegionTypes, ReadInv, EndOfFile
  PROVE  SubtractInv'
<1>1. UNCHANGED <<lines, reserved, available, res, next>>
  BY DEF EndOfFile, reading
<1>2. SubtractInv
  <2>1. /\ next = <<>> /\ res = 1 /\ Ascending(available)
        /\ \A b \in 0 .. MaxAddr : In(b, available) <=> RamByte(b)
        /\ \A b \in 0 .. MaxAddr : RamByte(b) => (In(b, reserved) <=> Nested(b))
    BY DEF ReadInv
  <2>2. DOMAIN next = {} /\ Ascending(next) /\ \A b : ~In(b, next)
    BY <2>1, NoRange
  <2>3. ASSUME NEW b \in 0 .. MaxAddr
        PROVE  Free(b) <=> (In(b, next) \/ In(b, available)) /\ Spared(b)
    <3>1. DOMAIN reserved = 1 .. Len(reserved)
      BY DEF RegionTypes
    <3>2. Spared(b) <=> ~In(b, reserved)
      BY <2>1, <3>1 DEF Spared, In, Covers
    <3> QED BY <2>1, <2>2, <3>2, FreeMeans
  <2> QED BY <2>1, <2>2, <2>3 DEF SubtractInv
<1> QED BY <1>1, <1>2 DEF SubtractInv, Free, In, Spared, Ascending, Covers

LEMMA DrainStep ==
  ASSUME RegionTypes, SubtractInv, Drain
  PROVE  RegionTypes' /\ SubtractInv'
<1> DEFINE h == Head(available)
           t == Tail(available)
           s == reserved[res]
           p == Pieces(h, s)
<1>1. /\ res <= Len(reserved) /\ available # <<>>
      /\ next' = next \o p /\ available' = t
      /\ UNCHANGED <<pc, lines, reserved, res>>
  BY DEF Drain, reading
<1>2. /\ available \in Seq(Ranges) /\ reserved \in Seq(Ranges) /\ next \in Seq(Ranges)
      /\ res \in 1 .. Len(reserved) + 1 /\ lines \in Seq(Entry)
  BY DEF RegionTypes
<1>3. s \in Ranges /\ res \in 1 .. Len(reserved)
  <2>1. res \in 1 .. Len(reserved)
    BY <1>1, <1>2
  <2> QED BY <1>2, <2>1, ElementOfSeq
<1>4. h \in Ranges /\ t \in Seq(Ranges)
  BY <1>1, <1>2, HeadTailProperties
<1>5. \A b : In(b, available) <=> Covers(h, b) \/ In(b, t)
  BY <1>1, <1>2, DrainedIn
<1>6. /\ Ascending(next) /\ Ascending(available)
      /\ \A i \in DOMAIN next, j \in DOMAIN available : next[i].end < available[j].start
      /\ \A b \in 0 .. MaxAddr : Free(b) <=> (In(b, next) \/ In(b, available)) /\ Spared(b)
      /\ \A b \in 0 .. MaxAddr : In(b, next) => res <= Len(reserved) /\ ~Covers(s, b)
  BY DEF SubtractInv
<1>7. /\ Ascending(t) /\ \A j \in DOMAIN t : h.end < t[j].start
      /\ \A j \in DOMAIN t : \E i \in DOMAIN available : t[j] = available[i]
  BY <1>1, <1>2, <1>6, DrainedAscending
<1>8. 1 \in DOMAIN available /\ h = available[1]
  BY <1>1, <1>2, HeadTailProperties
<1> HIDE DEF h, t, s
<1>9. /\ p \in Seq(Ranges) /\ Ascending(p)
      /\ \A i \in DOMAIN p : h.start <= p[i].start /\ p[i].end <= h.end
      /\ \A b \in 0 .. MaxAddr : In(b, p) <=> Covers(h, b) /\ ~Covers(s, b)
  BY <1>3, <1>4, PiecesExact
<1> HIDE DEF p
<1>10. \A b : In(b, next \o p) <=> In(b, next) \/ In(b, p)
  BY <1>2, <1>9, ConcatIn
<1>11. RegionTypes'
  <2>1. next \o p \in Seq(Ranges)
    BY <1>2, <1>9, ConcatProperties
  <2> QED BY <1>1, <1>2, <1>4, <2>1 DEF RegionTypes
<1>12. /\ h.start \in Nat /\ h.end \in Nat
       /\ \A i \in DOMAIN next : next[i].end \in Nat
       /\ \A i \in DOMAIN p : p[i].start \in Nat /\ p[i].end \in Nat
       /\ \A j \in DOMAIN t : t[j].start \in Nat
  <2>1. \A r \in Ranges : r.start \in Nat /\ r.end \in Nat
    BY IomemAssumption DEF Ranges
  <2> QED BY <1>2, <1>4, <1>9, <2>1, ElementOfSeq
<1>13. \A i \in DOMAIN next, j \in DOMAIN p : next[i].end < p[j].start
  BY <1>6, <1>8, <1>9, <1>12
<1>14. Ascending(next \o p)
  BY <1>2, <1>6, <1>9, <1>13, ConcatAscending
<1>15. \A i \in DOMAIN (next \o p), j \in DOMAIN t : (next \o p)[i].end < t[j].start
  <2> SUFFICES ASSUME NEW i \in DOMAIN (next \o p), NEW j \in DOMAIN t
               PROVE  (next \o p)[i].end < t[j].start
    OBVIOUS
  <2>1. /\ DOMAIN (next \o p) = 1 .. Len(next) + Len(p)
        /\ DOMAIN next = 1 .. Len(next) /\ DOMAIN p = 1 .. Len(p)
        /\ Len(next) \in Nat /\ Len(p) \in Nat
        /\ \A k \in 1 .. Len(next) + Len(p) :
             (next \o p)[k] = IF k <= Len(next) THEN next[k] ELSE p[k - Len(next)]
    BY <1>2, <1>9, ConcatProperties
  <2>2. CASE i <= Len(next)
    <3>1. i \in DOMAIN next /\ (next \o p)[i] = next[i]
      BY <2>1, <2>2
    <3> QED BY <1>6, <1>7, <3>1
  <2>3. CASE ~(i <= Len(next))
    <3>1. i - Len(next) \in DOMAIN p /\ (next \o p)[i] = p[i - Len(next)]
      BY <2>1, <2>3
    <3> QED BY <1>7, <1>9, <1>12, <3>1
  <2> QED BY <2>2, <2>3
<1>16. ASSUME NEW b \in 0 .. MaxAddr
       PROVE  /\ Free(b) <=> (In(b, next \o p) \/ In(b, t)) /\ Spared(b)
              /\ In(b, next \o p) => res <= Len(reserved) /\ ~Covers(s, b)
  <2>1. Spared(b) => ~Covers(s, b)
    <3>1. res \in res .. Len(reserved)
      BY <1>3
    <3> QED BY <3>1 DEF Spared, s
  <2> QED BY <1>1, <1>5, <1>6, <1>9, <1>10, <2>1
<1>17. \A b : (Free(b)' <=> Free(b)) /\ (Spared(b)' <=> Spared(b))
  BY <1>1 DEF Free, Spared, Covers
<1>18. SubtractInv'
  <2>1. \A b : /\ In(b, next)' <=> In(b, next \o p)
               /\ In(b, available)' <=> In(b, t)
    BY <1>1 DEF In
  <2>2. Ascending(next)' /\ Ascending(available)'
    <3>1. Ascending(next') /\ Ascending(available')
      BY <1>1, <1>7, <1>14
    <3> QED BY <3>1 DEF Ascending
  <2>3. \A b : Covers(reserved[res], b)' <=> Covers(s, b)
    BY <1>1 DEF Covers, s
  <2> QED BY <1>1, <1>15, <1>16, <1>17, <2>1, <2>2, <2>3 DEF SubtractInv
<1> QED BY <1>11, <1>18

LEMMA NextReservedStep ==
  ASSUME RegionTypes, SubtractInv, NextReserved
  PROVE  RegionTypes' /\ SubtractInv'
<1>1. /\ res <= Len(reserved) /\ available = <<>>
      /\ available' = next /\ next' = <<>> /\ res' = res + 1
      /\ UNCHANGED <<pc, lines, reserved>>
  BY DEF NextReserved, reading
<1>2. /\ available \in Seq(Ranges) /\ reserved \in Seq(Ranges) /\ next \in Seq(Ranges)
      /\ res \in 1 .. Len(reserved) + 1 /\ lines \in Seq(Entry)
  BY DEF RegionTypes
<1>3. res \in 1 .. Len(reserved) /\ Len(reserved) \in Nat
  BY <1>1, <1>2
<1>4. /\ Ascending(next)
      /\ \A b \in 0 .. MaxAddr : Free(b) <=> (In(b, next) \/ In(b, available)) /\ Spared(b)
      /\ \A b \in 0 .. MaxAddr : In(b, next) => res <= Len(reserved) /\ ~Covers(reserved[res], b)
  BY DEF SubtractInv
<1>5. RegionTypes'
  <2>1. res' \in 1 .. Len(reserved) + 1 /\ <<>> \in Seq(Ranges)
    BY <1>1, <1>3
  <2> QED BY <1>1, <1>2, <2>1 DEF RegionTypes
<1>6. next' = <<>> /\ DOMAIN next' = {} /\ Ascending(next') /\ \A b : ~In(b, next')
  BY <1>1, NoRange
<1>7. \A b : ~In(b, available)
  BY <1>1, NoRange
<1>8. \A b : Spared(b) <=> ~Covers(reserved[res], b) /\ Spared(b)'
  <2> TAKE b
  <2>1. \A k \in res .. Len(reserved) : k = res \/ k \in res + 1 .. Len(reserved)
    BY <1>3
  <2>2. \A k \in res + 1 .. Len(reserved) : k \in res .. Len(reserved)
    BY <1>3
  <2>3. res \in res .. Len(reserved)
    BY <1>3
  <2>4. Spared(b)' <=> \A k \in res + 1 .. Len(reserved) : ~Covers(reserved[k], b)
    BY <1>1 DEF Spared, Covers
  <2> QED BY <2>1, <2>2, <2>3, <2>4 DEF Spared
<1>9. \A b : Free(b)' <=> Free(b)
  BY <1>1 DEF Free
<1>10. \A b : (In(b, available)' <=> In(b, next)) /\ ~In(b, next)'
  <2>1. \A b : In(b, available)' <=> In(b, next)
    BY <1>1 DEF In
  <2>2. \A b : ~In(b, next)'
    BY <1>6 DEF In
  <2> QED BY <2>1, <2>2
<1>11. Ascending(next)' /\ Ascending(available)'
  <2>1. Ascending(available')
    BY <1>1, <1>4
  <2> QED BY <1>6, <2>1 DEF Ascending
<1>12. \A b \in 0 .. MaxAddr :
         /\ Free(b)' <=> (In(b, next)' \/ In(b, available)') /\ Spared(b)'
         /\ ~In(b, next)'
  BY <1>4, <1>7, <1>8, <1>9, <1>10
<1> QED BY <1>5, <1>6, <1>11, <1>12 DEF SubtractInv

LEMMA SubtractedStep ==
  ASSUME RegionTypes, SubtractInv, Subtracted
  PROVE  AvailableExact'
<1>1. res > Len(reserved) /\ UNCHANGED <<lines, available>>
  BY DEF Subtracted, reading
<1>2. /\ reserved \in Seq(Ranges) /\ available \in Seq(Ranges)
      /\ res \in 1 .. Len(reserved) + 1 /\ Len(reserved) \in Nat
  BY DEF RegionTypes
<1>3. \A b \in 0 .. MaxAddr : In(b, available) <=> Free(b)
  <2>1. \A b : Spared(b)
    BY <1>1, <1>2 DEF Spared
  <2>2. ~(res <= Len(reserved))
    BY <1>1, <1>2
  <2> QED BY <2>1, <2>2 DEF SubtractInv
<1>4. \A i \in 1 .. Len(available) - 1 : available[i].end < available[i + 1].start
  <2>1. Len(available) \in Nat /\ DOMAIN available = 1 .. Len(available)
    BY <1>2
  <2>2. \A i \in 1 .. Len(available) - 1 :
          i \in DOMAIN available /\ i + 1 \in DOMAIN available /\ i < i + 1
    BY <2>1
  <2>3. Ascending(available)
    BY DEF SubtractInv
  <2> QED BY <2>2, <2>3 DEF Ascending
<1>5. \A b : (In(b, available)' <=> In(b, available)) /\ (Free(b)' <=> Free(b))
  BY <1>1 DEF In, Free
<1> QED BY <1>1, <1>3, <1>4, <1>5 DEF AvailableExact
---------------------------------------------------------------------------
LEMMA RegionStep == RegionInv /\ [Next]_vars => RegionInv'
<1> SUFFICES ASSUME RegionInv, [Next]_vars PROVE RegionInv'
  OBVIOUS
<1>1. /\ RegionTypes /\ AvailableExact
      /\ pc = "read" => ReadInv
      /\ pc = "subtract" => SubtractInv
  BY DEF RegionInv
<1>2. ASSUME NEW e \in Entry, ReadLine(e) PROVE RegionInv'
  <2>1. pc = "read" /\ pc' = "read"
    BY <1>2 DEF ReadLine
  <2>2. RegionTypes' /\ ReadInv'
    BY <1>1, <1>2, <2>1, ReadStep
  <2>3. AvailableExact'
    BY <2>1 DEF AvailableExact, Built
  <2> QED BY <2>1, <2>2, <2>3 DEF RegionInv
<1>3. CASE EndOfFile
  <2>1. pc = "read" /\ pc' = "subtract"
    BY <1>3 DEF EndOfFile
  <2>2. SubtractInv'
    BY <1>1, <1>3, <2>1, EndStep
  <2>3. RegionTypes'
    BY <1>1, <1>3 DEF EndOfFile, reading, RegionTypes
  <2>4. AvailableExact'
    BY <2>1 DEF AvailableExact, Built
  <2> QED BY <2>1, <2>2, <2>3, <2>4 DEF RegionInv
<1>4. CASE Drain
  <2>1. pc = "subtract" /\ pc' = "subtract"
    BY <1>4 DEF Drain
  <2>2. RegionTypes' /\ SubtractInv'
    BY <1>1, <1>4, <2>1, DrainStep
  <2>3. AvailableExact'
    BY <2>1 DEF AvailableExact, Built
  <2> QED BY <2>1, <2>2, <2>3 DEF RegionInv
<1>5. CASE NextReserved
  <2>1. pc = "subtract" /\ pc' = "subtract"
    BY <1>5 DEF NextReserved
  <2>2. RegionTypes' /\ SubtractInv'
    BY <1>1, <1>5, <2>1, NextReservedStep
  <2>3. AvailableExact'
    BY <2>1 DEF AvailableExact, Built
  <2> QED BY <2>1, <2>2, <2>3 DEF RegionInv
<1>6. CASE Subtracted
  <2>1. pc = "subtract" /\ pc' = "ready"
    BY <1>6 DEF Subtracted
  <2>2. AvailableExact'
    BY <1>1, <1>6, <2>1, SubtractedStep
  <2>3. RegionTypes'
    BY <1>1, <1>6 DEF Subtracted, reading, RegionTypes
  <2> QED BY <2>1, <2>2, <2>3 DEF RegionInv
<1>7. CASE StartSearch \/ CompareAvoided \/ EndRegion \/ AlignFree
  <2>1. /\ pc \in {"ready", "search"} /\ pc' \in {"search", "found"}
        /\ UNCHANGED <<lines, available, reserved, res, next>>
    <3>1. CASE StartSearch \/ CompareAvoided \/ EndRegion
      BY <3>1 DEF StartSearch, CompareAvoided, EndRegion, reading
    <3>2. CASE AlignFree
      BY <3>2, Zenon DEF AlignFree, reading
    <3> QED BY <1>7, <3>1, <3>2
  <2>2. RegionTypes'
    BY <1>1, <2>1 DEF RegionTypes
  <2>3. AvailableExact'
    BY <1>1, <2>1 DEF AvailableExact, Built, In, Free
  <2> QED BY <2>1, <2>2, <2>3 DEF RegionInv
<1>8. CASE UNCHANGED vars
  <2>1. UNCHANGED <<pc, lines, top, available, reserved, res, next>>
    BY <1>8 DEF vars, reading
  <2>2. RegionTypes'
    BY <1>1, <2>1 DEF RegionTypes
  <2>3. AvailableExact'
    BY <1>1, <2>1 DEF AvailableExact, Built, In, Free
  <2>4. pc' = "read" => ReadInv'
    BY <1>1, <2>1
      DEF ReadInv, Tree, Root, FromLines, Ascending, In, RamByte, Nested, Covers
  <2>5. pc' = "subtract" => SubtractInv'
    BY <1>1, <2>1 DEF SubtractInv, Free, In, Spared, Ascending, Covers
  <2> QED BY <2>2, <2>3, <2>4, <2>5 DEF RegionInv
<1> QED BY <1>2, <1>3, <1>4, <1>5, <1>6, <1>7, <1>8 DEF Next

LEMMA RegionsAlways == Spec => []RegionInv
<1>1. Init => RegionInv
  <2> SUFFICES ASSUME Init PROVE RegionInv
    OBVIOUS
  <2>1. /\ pc = "read" /\ lines = <<>> /\ available = <<>> /\ reserved = <<>>
        /\ next = <<>> /\ res = 1
    BY DEF Init
  <2>2. RegionTypes
    BY <2>1 DEF RegionTypes
  <2>3. /\ DOMAIN lines = {} /\ DOMAIN available = {} /\ DOMAIN reserved = {}
    BY <2>1
  <2>4. ReadInv
    BY <2>1, <2>3 DEF ReadInv, Tree, FromLines, Ascending, In, RamByte, Nested
  <2>5. AvailableExact
    BY <2>1 DEF AvailableExact, Built
  <2> QED BY <2>1, <2>2, <2>4, <2>5 DEF RegionInv
<1> QED BY <1>1, RegionStep, PTL DEF Spec

\* build_available_regions, for every tree of resources Linux may print: the
\* regions boot() plans in are the System RAM nothing but the image of the
\* running kernel is nested over, ascending and disjoint.
THEOREM AvailableIsExact == Spec => []AvailableExact
<1>1. RegionInv => AvailableExact
  BY DEF RegionInv
<1> QED BY <1>1, RegionsAlways, PTL
---------------------------------------------------------------------------
(* The memory table.                                                       *)

\* A set of numbers has a least one.
LEMMA LeastNumber ==
  ASSUME NEW T, T \subseteq Nat, T # {}
  PROVE  \E x \in T : \A y \in T : x <= y
<1> DEFINE Smaller == OpToRel(<, Nat)
<1>1. IsWellFoundedOn(Smaller, Nat)
  BY NatLessThanWellFounded, Zenon
<1>2. \A i, j \in Nat : i < j => <<i, j>> \in Smaller
  BY DEF OpToRel
<1> HIDE DEF Smaller
<1>3. PICK x \in T : \A y \in T : ~ (<<y, x>> \in Smaller)
  BY <1>1, WFMin, Zenon
<1>4. \A y \in T : ~ (y < x)
  BY <1>2, <1>3
<1> QED BY <1>3, <1>4

LEMMA NumbersByInduction ==
  ASSUME NEW S, 0 \in S, \A n \in Nat : n \in S => n + 1 \in S
  PROVE  \A n \in Nat : n \in S
<1> SUFFICES ASSUME NEW b \in Nat, b \notin S PROVE FALSE
  OBVIOUS
<1>1. PICK x \in Nat \ S : \A y \in Nat \ S : x <= y
  BY LeastNumber
<1>2. x - 1 \in Nat /\ (x - 1) + 1 = x /\ ~(x <= x - 1)
  BY <1>1
<1> QED BY <1>1, <1>2
---------------------------------------------------------------------------
LEMMA Beginnings ==
  ASSUME NEW S, S \subseteq Nat, IsFiniteSet(S)
  PROVE  \A k \in Nat : k <= Cardinality(S) =>
           \E L \in SUBSET S : Cardinality(L) = k /\ \A x \in L : \A y \in S \ L : x < y
<1> DEFINE C == Cardinality(S)
           Begins(k, L) == L \in SUBSET S /\ Cardinality(L) = k /\ \A x \in L : \A y \in S \ L : x < y
           K == {k \in Nat : k <= C => \E L : Begins(k, L)}
<1>1. C \in Nat
  BY FS_CardinalityType
<1> HIDE DEF C
<1>2. 0 \in K
  <2>1. Begins(0, {})
    BY FS_EmptySet
  <2> HIDE DEF Begins
  <2> QED BY <2>1
<1>3. ASSUME NEW k \in Nat, k \in K PROVE k + 1 \in K
  <2> SUFFICES ASSUME k + 1 <= C PROVE \E L : Begins(k + 1, L)
    OBVIOUS
  <2>1. PICK L : Begins(k, L)
    BY <1>1, <1>3
  <2>2. IsFiniteSet(L) /\ L \subseteq S /\ Cardinality(L) = k
    BY <2>1, FS_Subset
  <2>3. S \ L # {}
    <3>1. L # S
      BY <1>1, <2>2 DEF C
    <3> QED BY <2>2, <3>1
  <2>4. PICK m \in S \ L : \A y \in S \ L : m <= y
    BY <2>3, LeastNumber
  <2>5. Cardinality(L \union {m}) = k + 1
    BY <2>2, <2>4, FS_AddElement
  <2>6. ASSUME NEW x \in L \union {m}, NEW y \in S \ (L \union {m}) PROVE x < y
    <3>1. CASE x \in L
      BY <2>1, <3>1
    <3>2. CASE x = m
      <4>1. m <= y /\ m # y /\ m \in Nat /\ y \in Nat
        BY <2>4
      <4> QED BY <3>2, <4>1
    <3> QED BY <3>1, <3>2
  <2>7. L \union {m} \in SUBSET S
    BY <2>2, <2>4
  <2>8. Begins(k + 1, L \union {m})
    BY ONLY <2>5, <2>6, <2>7
  <2> QED BY <2>8
<1> HIDE DEF K
<1>4. \A k \in Nat : k \in K
  BY <1>2, <1>3, NumbersByInduction
<1> QED BY <1>4 DEF K, C

LEMMA NthFacts ==
  ASSUME NEW S, S \subseteq Nat, IsFiniteSet(S), NEW k \in 1 .. Cardinality(S)
  PROVE  Nth(S, k) \in S /\ Cardinality({j \in S : j <= Nth(S, k)}) = k
<1>1. Cardinality(S) \in Nat
  BY FS_CardinalityType
<1>2. k - 1 \in Nat /\ k - 1 <= Cardinality(S) /\ k - 1 # Cardinality(S) /\ (k - 1) + 1 = k
  BY <1>1
<1>3. PICK L \in SUBSET S : Cardinality(L) = k - 1 /\ \A x \in L : \A y \in S \ L : x < y
  <2>1. \A h \in Nat : h <= Cardinality(S) =>
          \E L \in SUBSET S : Cardinality(L) = h /\ \A x \in L : \A y \in S \ L : x < y
    BY Beginnings
  <2> QED BY ONLY <1>2, <2>1
<1>4. IsFiniteSet(L)
  BY FS_Subset
<1>5. S \ L # {}
  <2>1. L # S
    BY <1>2, <1>3
  <2> QED BY <1>3, <2>1
<1>6. PICK m \in S \ L : \A y \in S \ L : m <= y
  BY <1>5, LeastNumber
<1>7. {j \in S : j <= m} = L \union {m}
  <2>1. \A j \in L : j <= m /\ j \in S
    BY <1>3, <1>6
  <2>2. \A j \in S : j <= m => j \in L \/ j = m
    BY <1>6
  <2> QED BY <1>6, <2>1, <2>2
<1>8. Cardinality(L \union {m}) = k
  BY <1>2, <1>3, <1>4, <1>6, FS_AddElement
<1>9. \E i \in S : Cardinality({j \in S : j <= i}) = k
  BY <1>6, <1>7, <1>8
<1> QED BY <1>9, Zenon DEF Nth

\* Every number of the set has its place.
LEMMA NthReaches ==
  ASSUME NEW S, S \subseteq Nat, IsFiniteSet(S), NEW i \in S
  PROVE  \E k \in 1 .. Cardinality(S) : Nth(S, k) = i
<1> DEFINE Up(x) == {j \in S : j <= x}
           k == Cardinality(Up(i))
<1>1. \A x \in S : Up(x) \in SUBSET S
  OBVIOUS
<1>2. \A x \in S : IsFiniteSet(Up(x)) /\ Cardinality(Up(x)) \in Nat /\ Cardinality(Up(x)) <= Cardinality(S)
  BY <1>1, FS_Subset, FS_CardinalityType
<1>3. i \in Up(i)
  OBVIOUS
<1>4. Cardinality(Up(i)) # 0
  BY <1>2, <1>3, FS_EmptySet
<1>5. k \in 1 .. Cardinality(S)
  <2>1. Cardinality(S) \in Nat
    BY FS_CardinalityType
  <2> QED BY <1>2, <1>4, <2>1
<1>6. Nth(S, k) \in S /\ Cardinality(Up(Nth(S, k))) = k
  BY <1>5, NthFacts
<1>7. ASSUME NEW x \in S, NEW y \in S, x < y PROVE Cardinality(Up(x)) # Cardinality(Up(y))
  <2>0. x \in Nat /\ y \in Nat /\ \A j \in S : j \in Nat
    OBVIOUS
  <2>1. Up(x) \in SUBSET Up(y) /\ y \in Up(y) /\ y \notin Up(x)
    <3>1. \A j \in S : j <= x => j <= y
      BY <1>7, <2>0
    <3>2. y \in Up(y)
      BY <2>0
    <3>3. y \notin Up(x)
      BY <1>7, <2>0
    <3> QED BY <3>1, <3>2, <3>3
  <2> HIDE DEF Up
  <2>2. Up(x) # Up(y)
    BY <2>1
  <2> QED BY <1>2, <2>1, <2>2, FS_Subset
<1>8. Nth(S, k) = i
  <2> DEFINE x == Nth(S, k)
  <2>1. x \in S /\ Cardinality(Up(x)) = Cardinality(Up(i))
    BY <1>6
  <2> HIDE DEF x, k, Up
  <2>2. ~(x < i) /\ ~(i < x)
    BY <1>7, <2>1
  <2>3. x = i
    BY <2>1, <2>2
  <2> QED BY <2>3 DEF x
<1> QED BY <1>5, <1>8

\* The k-th number comes before those with more than k numbers up to them.
LEMMA NthBefore ==
  ASSUME NEW S, S \subseteq Nat, IsFiniteSet(S), NEW k \in 1 .. Cardinality(S), NEW i \in S,
         k < Cardinality({j \in S : j <= i})
  PROVE  Nth(S, k) < i
<1> DEFINE Up(x) == {j \in S : j <= x}
           x == Nth(S, k)
<1>1. x \in S /\ Cardinality(Up(x)) = k
  BY NthFacts
<1> HIDE DEF x
<1>2. ASSUME ~(x < i) PROVE FALSE
  <2>1. \A j \in S : j <= i => j <= x
    BY <1>1, <1>2
  <2>2. Up(i) \in SUBSET Up(x)
    BY <2>1
  <2>3. IsFiniteSet(Up(x)) /\ Up(x) \in SUBSET S
    BY FS_Subset
  <2> HIDE DEF Up
  <2>4. Cardinality(Up(i)) <= Cardinality(Up(x)) /\ Cardinality(Up(i)) \in Nat /\ Cardinality(Up(x)) \in Nat
    BY <2>2, <2>3, FS_Subset, FS_CardinalityType
  <2>5. k < Cardinality(Up(i))
    BY DEF Up
  <2> QED BY <1>1, <2>4, <2>5
<1> QED BY <1>2 DEF x

\* A line read starts at or after those before it: it is outside them, or in
\* the nearest one with less indentation, which starts after the others.
LEMMA LinesAscendStep ==
  ASSUME RegionTypes, LinesAscend, NEW e \in Entry, ReadLine(e)
  PROVE  LinesAscend'
<1>1. /\ DOMAIN lines = 1 .. Len(lines) /\ Len(lines) \in Nat
      /\ DOMAIN lines' = 1 .. Len(lines) + 1
      /\ \A i \in DOMAIN lines : lines'[i] = lines[i]
      /\ lines'[Len(lines) + 1] = e
  BY LineRead
<1>2. MaxAddr \in Nat /\ \A i \in DOMAIN lines :
        lines[i].indent \in Nat /\ lines[i].start \in 0 .. MaxAddr /\ lines[i].end \in 0 .. MaxAddr
  BY LineFields
<1>3. e.indent \in Nat /\ e.start \in 0 .. MaxAddr /\ e.end \in 0 .. MaxAddr
  BY EntryFields
<1>4. /\ e.start <= e.end
      /\ \A i \in DOMAIN lines : lines[i].indent >= e.indent => lines[i].end < e.start
      /\ e.indent > 0 => \E i \in DOMAIN lines :
           /\ lines[i].start <= e.start
           /\ \A j \in i + 1 .. Len(lines) : lines[j].indent >= e.indent
  BY DEF ReadLine, TreeLine
<1>5. \A i \in DOMAIN lines :
        lines[i].start <= lines[i].end /\ \A j \in 1 .. i - 1 : lines[j].start <= lines[i].start
  BY DEF LinesAscend
<1>6. ASSUME NEW j \in 1 .. Len(lines) PROVE lines[j].start <= e.start
  <2>1. CASE lines[j].indent >= e.indent
    BY <1>1, <1>2, <1>3, <1>4, <1>5, <2>1
  <2>2. CASE lines[j].indent < e.indent
    <3>1. e.indent > 0
      BY <1>1, <1>2, <1>3, <2>2
    <3>2. PICK i \in 1 .. Len(lines) :
            /\ lines[i].start <= e.start
            /\ \A k \in i + 1 .. Len(lines) : lines[k].indent >= e.indent
      BY <1>1, <1>4, <3>1
    <3>3. j <= i
      BY <1>1, <1>2, <1>3, <2>2, <3>2
    <3>4. j = i \/ lines[j].start <= lines[i].start
      BY <1>1, <1>5, <3>3
    <3>5. lines[j].start \in Nat /\ lines[i].start \in Nat /\ e.start \in Nat
      BY <1>1, <1>2, <1>3
    <3> QED BY <3>2, <3>4, <3>5
  <2> QED BY <1>1, <1>2, <1>3, <2>1, <2>2
<1>7. ASSUME NEW i \in 1 .. Len(lines) + 1
      PROVE  lines'[i].start <= lines'[i].end /\ \A j \in 1 .. i - 1 : lines'[j].start <= lines'[i].start
  <2>1. CASE i = Len(lines) + 1
    <3>1. \A j \in 1 .. i - 1 : j \in 1 .. Len(lines) /\ lines'[j] = lines[j]
      BY <1>1, <2>1
    <3> QED BY <1>1, <1>4, <1>6, <2>1, <3>1
  <2>2. CASE i # Len(lines) + 1
    <3>1. i \in DOMAIN lines /\ \A j \in 1 .. i - 1 : j \in DOMAIN lines
      BY <1>1, <2>2
    <3> QED BY <1>1, <1>5, <3>1
  <2> QED BY <2>1, <2>2
<1> QED BY <1>1, <1>7 DEF LinesAscend

LEMMA TypedPlaces ==
  ASSUME RegionTypes
  PROVE  /\ Typed \subseteq DOMAIN lines /\ Typed \subseteq Nat /\ IsFiniteSet(Typed)
         /\ \A k \in 1 .. Cardinality(Typed) : Nth(Typed, k) \in Typed
<1>1. DOMAIN lines = 1 .. Len(lines) /\ Len(lines) \in Nat
  BY LineFields
<1>2. Typed \subseteq DOMAIN lines /\ Typed \subseteq Nat /\ Typed \in SUBSET (1 .. Len(lines))
  BY <1>1 DEF Typed
<1>3. IsFiniteSet(Typed)
  <2>1. IsFiniteSet(1 .. Len(lines))
    BY <1>1, FS_Interval
  <2> QED BY <1>2, <2>1, FS_Subset
<1> QED BY <1>2, <1>3, NthFacts

\* The table has the line, or is full of lines that start before it.
LEMMA LineInTable ==
  ASSUME RegionTypes, LinesAscend, Readable = {}, NEW i \in DOMAIN lines, TypeOf(lines[i].desc) # 0
  PROVE  \/ \E k \in DOMAIN SmapRows : SmapRows[k] = Row(lines[i])
         \/ Len(SmapRows) = MaxRows /\ \A k \in DOMAIN SmapRows : SmapRows[k].start <= lines[i].start
<1> DEFINE C == Cardinality(Typed)
           D == (1 .. C) \intersect (1 .. MaxRows)
           u == Cardinality({j \in Typed : j <= i})
<1>1. /\ DOMAIN lines = 1 .. Len(lines) /\ Len(lines) \in Nat /\ MaxRows \in Nat
      /\ i \in Typed /\ Typed \subseteq DOMAIN lines /\ Typed \subseteq Nat
  BY LineFields, TypedPlaces, IomemAssumption DEF Typed
<1>2. IsFiniteSet(Typed)
  BY TypedPlaces
<1>3. C \in Nat
  BY <1>2, FS_CardinalityType
<1>4. SmapRows = [k \in D |-> Row(lines[Nth(Typed, k)])]
  BY DEF SmapRows, FirstRows
<1>5. \A k \in 1 .. C : Nth(Typed, k) \in Typed
  BY TypedPlaces
<1>6. PICK n \in 1 .. C : Nth(Typed, n) = i
  BY <1>1, <1>2, NthReaches
<1>7. u = n
  BY <1>1, <1>2, <1>6, NthFacts
<1>8. CASE n <= MaxRows
  <2>1. n \in D
    BY <1>8
  <2> HIDE DEF D
  <2>2. n \in DOMAIN SmapRows /\ SmapRows[n] = Row(lines[i])
    BY <1>4, <1>6, <2>1
  <2> QED BY <2>2
<1>9. CASE MaxRows < n
  <2>1. D = 1 .. MaxRows
    BY <1>1, <1>3, <1>9
  <2>2. DOMAIN SmapRows = 1 .. MaxRows
    BY <1>4, <2>1
  <2>3. Len(SmapRows) = MaxRows
    BY <1>1, <2>2
  <2>4. ASSUME NEW k \in 1 .. MaxRows PROVE SmapRows[k].start <= lines[i].start
    <3>1. k \in 1 .. C /\ k < u /\ k \in D
      BY <1>1, <1>3, <1>7, <1>9, <2>1
    <3>2. Nth(Typed, k) < i /\ Nth(Typed, k) \in Typed
      BY <1>1, <1>2, <1>5, <3>1, NthBefore
    <3>3. Nth(Typed, k) \in 1 .. i - 1
      BY <1>1, <3>2
    <3>4. lines[Nth(Typed, k)].start <= lines[i].start
      BY <3>3 DEF LinesAscend
    <3>5. SmapRows[k].start = lines[Nth(Typed, k)].start
      <4>1. SmapRows[k] = Row(lines[Nth(Typed, k)])
        BY <1>4, <3>1
      <4> QED BY <4>1 DEF Row
    <3> QED BY <3>4, <3>5
  <2> QED BY <2>2, <2>3, <2>4
<1> QED BY <1>1, <1>3, <1>8, <1>9

LEMMA TableCovers ==
  ASSUME RegionInv, LinesAscend, Readable = {}
  PROVE  SmapCoversAvailable
<1> SUFFICES ASSUME Built, NEW b \in 0 .. MaxAddr, In(b, available)
             PROVE  \/ \E k \in DOMAIN SmapRows :
                         SmapRows[k].type = 1 /\ SmapRows[k].start <= b /\ b <= SmapRows[k].end
                    \/ Len(SmapRows) = MaxRows /\ \A k \in DOMAIN SmapRows : SmapRows[k].start <= b
  BY DEF SmapCoversAvailable
<1>1. RegionTypes /\ Free(b)
  BY DEF RegionInv, AvailableExact
<1>2. PICK i \in DOMAIN lines : lines[i].desc = "ram" /\ lines[i].start <= b /\ b <= lines[i].end
  BY <1>1 DEF Free
<1>3. TypeOf(lines[i].desc) = 1
  BY <1>2 DEF TypeOf
<1> DEFINE row == Row(lines[i])
<1>4. row.type = 1 /\ row.start <= b /\ b <= row.end /\ row.start = lines[i].start
  BY <1>2, <1>3 DEF Row
<1>5. \/ \E k \in DOMAIN SmapRows : SmapRows[k] = row
      \/ Len(SmapRows) = MaxRows /\ \A k \in DOMAIN SmapRows : SmapRows[k].start <= row.start
  BY <1>1, <1>3, <1>4, LineInTable
<1> HIDE DEF row
<1>6. ASSUME NEW k \in DOMAIN SmapRows, SmapRows[k] = row
      PROVE  SmapRows[k].type = 1 /\ SmapRows[k].start <= b /\ b <= SmapRows[k].end
  BY <1>4, <1>6
<1>7. ASSUME Len(SmapRows) = MaxRows, \A k \in DOMAIN SmapRows : SmapRows[k].start <= row.start
      PROVE  \A k \in DOMAIN SmapRows : SmapRows[k].start <= b
  <2> SUFFICES ASSUME NEW k \in DOMAIN SmapRows PROVE SmapRows[k].start <= b
    OBVIOUS
  <2>1. SmapRows[k].start <= row.start
    BY <1>7
  <2>2. row.start \in Nat /\ b \in Nat
    BY <1>1, <1>4, LineFields
  <2>3. SmapRows[k].start \in Nat
    <3>1. DOMAIN SmapRows = (1 .. Cardinality(Typed)) \intersect (1 .. MaxRows)
          /\ SmapRows[k] = Row(lines[Nth(Typed, k)])
      BY DEF SmapRows, FirstRows
    <3>2. Nth(Typed, k) \in DOMAIN lines
      BY <1>1, <3>1, TypedPlaces
    <3>3. SmapRows[k].start = lines[Nth(Typed, k)].start
      BY <3>1 DEF Row
    <3> QED BY <1>1, <3>2, <3>3, LineFields
  <2> QED BY <1>4, <2>1, <2>2, <2>3
<1> QED BY <1>5, <1>6, <1>7

\* Whatever boot() may put a segment into, the table for the FreeBSD kernel has as
\* RAM, for any lines and any length of the table, although the two read the file by
\* different rules. /sys/firmware/memmap must not be readable: Linux writes 0x.
THEOREM TableCoversRegions ==
  ASSUME Readable = {}
  PROVE  Spec => []SmapCoversAvailable
<1>1. Init => LinesAscend
  BY DEF Init, LinesAscend
<1>2. RegionInv /\ LinesAscend /\ [Next]_vars => LinesAscend'
  <2> SUFFICES ASSUME RegionInv, LinesAscend, [Next]_vars PROVE LinesAscend'
    OBVIOUS
  <2>1. CASE \E e \in Entry : ReadLine(e)
    BY <2>1, LinesAscendStep DEF RegionInv
  <2>2. CASE ~\E e \in Entry : ReadLine(e)
    <3>1. lines' = lines
      BY <2>2, Zenon DEF Next, EndOfFile, Drain, NextReserved, Subtracted, StartSearch, CompareAvoided,
           EndRegion, AlignFree, vars, reading
    <3> QED BY <3>1 DEF LinesAscend
  <2> QED BY <2>1, <2>2
<1>3. RegionInv /\ LinesAscend => SmapCoversAvailable
  BY TableCovers
<1>4. Spec => []RegionInv
  BY RegionsAlways
<1> QED BY <1>1, <1>2, <1>3, <1>4, PTL DEF Spec

---------------------------------------------------------------------------
(* The search for free regions.                                            *)

\* Rounding up gives the least multiple that is not below.
LEMMA AlignUpFacts ==
  ASSUME NEW v \in Nat, NEW a \in Nat \ {0}
  PROVE  /\ AlignUp(v, a) \in Nat /\ AlignUp(v, a) % a = 0 /\ v <= AlignUp(v, a)
         /\ \A s \in Nat : s % a = 0 /\ v <= s => AlignUp(v, a) <= s
<1> DEFINE k == (v + a - 1) \div a
<1>1. v + a - 1 \in Nat
  OBVIOUS
<1>2. k \in Nat /\ k * a <= v + a - 1 /\ v + a - 1 < k * a + a
  BY <1>1
<1>3. AlignUp(v, a) = k * a
  BY DEF AlignUp
<1> HIDE DEF k
<1>4. k * a \in Nat /\ (k * a) % a = 0
  BY <1>2
<1>5. ASSUME NEW s \in Nat, s % a = 0, v <= s PROVE k * a <= s
  <2>1. s \div a \in Nat /\ s = (s \div a) * a
    BY <1>5
  <2>2. PICK q \in Nat : s = q * a
    BY <2>1
  <2>3. k * a < (q + 1) * a
    BY <1>2, <1>5, <2>2
  <2>4. k < q + 1
    BY <1>2, <2>3
  <2>5. k * a <= q * a
    BY <1>2, <2>4
  <2> QED BY <2>2, <2>5
<1> QED BY <1>2, <1>3, <1>4, <1>5

\* A region is offered if it is large enough; the others stay.
LEMMA OfferFacts ==
  ASSUME free \in Seq(Ranges), NEW s \in Nat, NEW e \in Int, e <= MaxAddr, Offer(s, e)
  PROVE  /\ free' \in Seq(Ranges)
         /\ \A i \in DOMAIN free' : (i \in DOMAIN free /\ free'[i] = free[i])
                                    \/ (free'[i] = R(s, e) /\ Large(s, e))
         /\ \A i \in DOMAIN free : i \in DOMAIN free' /\ free'[i] = free[i]
         /\ Large(s, e) => \E i \in DOMAIN free' : free'[i] = R(s, e)
<1>1. CASE Large(s, e)
  <2>1. R(s, e) \in Ranges
    <3>1. s <= e /\ MaxAddr \in Nat
      BY <1>1, IomemAssumption DEF Large
    <3> QED BY <3>1 DEF R, Ranges
  <2>2. free' = Append(free, R(s, e))
    BY <1>1 DEF Offer
  <2>3. /\ Append(free, R(s, e)) \in Seq(Ranges)
        /\ DOMAIN Append(free, R(s, e)) = 1 .. Len(free) + 1 /\ DOMAIN free = 1 .. Len(free) /\ Len(free) \in Nat
        /\ \A i \in 1 .. Len(free) : Append(free, R(s, e))[i] = free[i]
        /\ Append(free, R(s, e))[Len(free) + 1] = R(s, e)
    BY <2>1, AppendProperties
  <2> QED BY <1>1, <2>2, <2>3
<1>2. CASE ~Large(s, e)
  <2>1. free' = free
    BY <1>2 DEF Offer
  <2> QED BY <1>2, <2>1
<1> QED BY <1>1, <1>2

\* The parts of a range.
LEMMA RangeFields ==
  ASSUME NEW s \in Seq(Ranges), NEW i \in DOMAIN s
  PROVE  /\ s[i] \in Ranges /\ s[i].start \in Nat /\ s[i].end \in Nat
         /\ s[i].start <= s[i].end /\ s[i].end <= MaxAddr /\ MaxAddr \in Nat
<1>1. s[i] \in Ranges
  OBVIOUS
<1>2. MaxAddr \in Nat
  BY IomemAssumption
<1> QED BY <1>1, <1>2 DEF Ranges

LEMMA AvoidTypes ==
  ASSUME QueryTypes
  PROVE  avoid \in Seq(Ranges)
<1>1. AvoidLists \subseteq Seq(Ranges) /\ <<>> \in Seq(Ranges)
  BY IomemAssumption
<1>2. avoid \in AvoidLists \union {<<>>}
  BY DEF QueryTypes
<1> HIDE DEF Ranges
<1> QED BY ONLY <1>1, <1>2

\* Aligning keeps, in some order, the regions that stay large enough.
LEMMA AlignFreeFacts ==
  ASSUME free \in Seq(Ranges), AlignFree
  PROVE  /\ free' \in Seq(Ranges)
         /\ \A i \in DOMAIN free' : \E k \in Kept : free'[i] = Aligned(free[k])
         /\ \A k \in Kept : \E i \in DOMAIN free' : free'[i] = Aligned(free[k])
<1> DEFINE C == Cardinality(Kept)
<1>1. /\ DOMAIN free = 1 .. Len(free) /\ Len(free) \in Nat /\ Kept \in SUBSET (1 .. Len(free))
  BY DEF Kept
<1>2. C \in Nat
  <2>1. IsFiniteSet(1 .. Len(free))
    BY <1>1, FS_Interval
  <2>2. IsFiniteSet(Kept)
    BY <1>1, <2>1, FS_Subset
  <2> QED BY <2>2, FS_CardinalityType
<1>3. PICK order \in Bijection(1 .. C, Kept) : free' = [i \in 1 .. C |-> Aligned(free[order[i]])]
  BY DEF AlignFree
<1>4. /\ \A i \in 1 .. C : order[i] \in Kept
      /\ \A k \in Kept : \E i \in 1 .. C : order[i] = k
  BY DEF Bijection, Injection, Surjection
<1>5. \A k \in Kept : Aligned(free[k]) \in Ranges
  <2> SUFFICES ASSUME NEW k \in Kept PROVE Aligned(free[k]) \in Ranges
    OBVIOUS
  <2>1. k \in DOMAIN free /\ Large(Aligned(free[k]).start, free[k].end)
    BY DEF Kept
  <2>2. /\ free[k].start \in Nat /\ free[k].end \in Nat /\ free[k].end <= MaxAddr /\ MaxAddr \in Nat
    BY <2>1, RangeFields
  <2>3. AlignUp(free[k].start, Alignment) \in Nat
    BY <2>2, AlignUpFacts, IomemAssumption
  <2>4. AlignUp(free[k].start, Alignment) <= free[k].end
    BY <2>1 DEF Large, Aligned, R
  <2> QED BY <2>2, <2>3, <2>4 DEF Aligned, R, Ranges
<1> HIDE DEF C
<1>6. free' \in Seq(Ranges)
  BY <1>2, <1>3, <1>4, <1>5
<1>7. DOMAIN free' = 1 .. C
  BY <1>3
<1> QED BY <1>3, <1>4, <1>6, <1>7

\* The types of the search are kept.
LEMMA QueryTypesStep ==
  ASSUME RegionTypes, QueryTypes, [Next]_vars
  PROVE  QueryTypes'
<1>0. /\ available \in Seq(Ranges) /\ DOMAIN available = 1 .. Len(available) /\ Len(available) \in Nat
      /\ avoid \in Seq(Ranges) /\ DOMAIN avoid = 1 .. Len(avoid) /\ Len(avoid) \in Nat
  <2>1. available \in Seq(Ranges) /\ avoid \in Seq(Ranges)
    BY AvoidTypes DEF RegionTypes
  <2> HIDE DEF Ranges
  <2> QED BY <2>1
<1>1. /\ top \in BOOLEAN
      /\ avoid \in AvoidLists \union {<<>>}
      /\ pc \in {"read", "subtract", "ready"} => region = 1 /\ av = 1 /\ free = <<>>
      /\ pc = "search" => region \in 1 .. Len(available) + 1
      /\ av \in 1 .. Len(avoid) + 1 /\ free_start \in Nat /\ free \in Seq(Ranges)
  BY DEF QueryTypes
<1>2. ASSUME pc \in {"read", "subtract", "ready"}, pc' \in {"read", "subtract", "ready"},
             UNCHANGED query, top' \in BOOLEAN
      PROVE  QueryTypes'
  <2>1. UNCHANGED <<avoid, region, av, free_start, free>>
    BY <1>2 DEF query
  <2>2. pc' # "search"
    BY <1>2
  <2> QED BY <1>1, <1>2, <2>1, <2>2 DEF QueryTypes
<1>3. ASSUME NEW e \in Entry, ReadLine(e) PROVE QueryTypes'
  <2>1. pc = "read" /\ pc' = pc /\ UNCHANGED query
    BY <1>3 DEF ReadLine
  <2>2. top' \in BOOLEAN
    BY <1>1, <1>3 DEF ReadLine
  <2> QED BY <1>2, <2>1, <2>2
<1>4. CASE EndOfFile \/ Drain \/ NextReserved \/ Subtracted
  <2>1. pc \in {"read", "subtract"} /\ pc' \in {"subtract", "ready"} /\ UNCHANGED query /\ top' = top
    BY <1>4 DEF EndOfFile, Drain, NextReserved, Subtracted, reading
  <2> QED BY <1>1, <1>2, <2>1
<1>5. CASE StartSearch
  <2>1. /\ pc = "ready" /\ pc' = "search" /\ available # <<>> /\ avoid' \in AvoidLists
        /\ free_start' = available[1].start
        /\ UNCHANGED <<top, available, region, av, free>>
    BY <1>5 DEF StartSearch, reading
  <2>2. region = 1 /\ av = 1 /\ free = <<>>
    BY <1>1, <2>1
  <2>3. 1 \in DOMAIN available
    BY <1>0, <2>1
  <2>4. free_start' \in Nat
    BY <1>0, <2>1, <2>3, RangeFields
  <2>5. avoid' \in Seq(Ranges)
    BY <2>1, IomemAssumption
  <2>6. Len(avoid') \in Nat
    BY <2>5
  <2> HIDE DEF Ranges
  <2>7. av' \in 1 .. Len(avoid') + 1 /\ region' \in 1 .. Len(available') + 1
    BY <1>0, <2>1, <2>2, <2>6
  <2>8. free' \in Seq(Ranges) /\ avoid' \in AvoidLists \union {<<>>} /\ top' \in BOOLEAN
    BY <1>1, <2>1
  <2>9. pc' \notin {"read", "subtract", "ready"}
    BY <2>1
  <2> QED BY <2>4, <2>7, <2>8, <2>9 DEF QueryTypes
<1>6. CASE CompareAvoided
  <2> DEFINE a == avoid[av]
  <2>1. /\ pc = "search" /\ region <= Len(available) /\ av <= Len(avoid) /\ av' = av + 1
        /\ \/ Offer(free_start, a.start - 1) /\ free_start' = a.end + 1
           \/ UNCHANGED <<free, free_start>>
        /\ UNCHANGED <<pc, top, available, avoid, region>>
    BY <1>6 DEF CompareAvoided, reading, PastAvoided
  <2>2. av \in DOMAIN avoid
    BY <1>0, <1>1, <2>1
  <2>3. /\ a.start \in Nat /\ a.end \in Nat /\ a.start <= a.end /\ a.end <= MaxAddr /\ MaxAddr \in Nat
    BY <1>0, <2>2, RangeFields
  <2> HIDE DEF a
  <2>4. free' \in Seq(Ranges) /\ free_start' \in Nat
    <3>1. CASE Offer(free_start, a.start - 1) /\ free_start' = a.end + 1
      <4>1. a.start - 1 \in Int /\ a.start - 1 <= MaxAddr
        BY <2>3
      <4>2. free' \in Seq(Ranges)
        BY <1>1, <3>1, <4>1, OfferFacts
      <4> QED BY <2>3, <3>1, <4>2
    <3>2. CASE UNCHANGED <<free, free_start>>
      BY <1>1, <3>2
    <3> QED BY <2>1, <3>1, <3>2
  <2>5. av' \in 1 .. Len(avoid) + 1
    BY <1>0, <1>1, <2>1
  <2>6. pc' = "search" /\ region' \in 1 .. Len(available') + 1 /\ avoid' = avoid /\ top' = top
    BY <1>1, <2>1
  <2> QED BY <1>1, <2>4, <2>5, <2>6 DEF QueryTypes
<1>7. CASE EndRegion
  <2>1. /\ pc = "search" /\ region <= Len(available)
        /\ Offer(free_start, available[region].end)
        /\ region' = region + 1 /\ av' = 1
        /\ free_start' = IF region < Len(available) THEN available[region + 1].start ELSE 0
        /\ UNCHANGED <<pc, top, available, avoid>>
    BY <1>7 DEF EndRegion, reading
  <2>2. region \in DOMAIN available /\ (region < Len(available) => region + 1 \in DOMAIN available)
        /\ region' \in 1 .. Len(available) + 1
    BY <1>0, <1>1, <2>1
  <2>3. available[region].end \in Int /\ available[region].end <= MaxAddr
    BY <1>0, <2>2, RangeFields
  <2>4. free' \in Seq(Ranges)
    BY <1>1, <2>1, <2>3, OfferFacts
  <2>5. free_start' \in Nat
    BY <1>0, <2>1, <2>2, RangeFields
  <2>6. av' \in 1 .. Len(avoid') + 1
    BY <1>0, <2>1
  <2>7. pc' = "search" /\ region' \in 1 .. Len(available') + 1 /\ avoid' = avoid /\ top' = top
    BY <2>1, <2>2
  <2> QED BY <1>1, <2>4, <2>5, <2>6, <2>7 DEF QueryTypes
<1>8. CASE AlignFree
  <2>1. free' \in Seq(Ranges)
    BY <1>1, <1>8, AlignFreeFacts
  <2>2. pc' = "found" /\ UNCHANGED <<top, available, avoid, region, av, free_start>>
    BY <1>8, Zenon DEF AlignFree, reading
  <2> QED BY <1>1, <2>1, <2>2 DEF QueryTypes
<1>9. CASE UNCHANGED vars
  <2>1. UNCHANGED <<pc, top, available, avoid, region, av, free_start, free>>
    BY <1>9 DEF vars, reading, query
  <2> QED BY <1>1, <2>1 DEF QueryTypes
<1> QED BY <1>3, <1>4, <1>5, <1>6, <1>7, <1>8, <1>9 DEF Next

LEMMA QueryTypesAlways == Spec => []QueryTypes
<1>1. Init => QueryTypes
  <2> SUFFICES ASSUME Init PROVE QueryTypes
    OBVIOUS
  <2>1. /\ pc = "read" /\ top = FALSE /\ avoid = <<>> /\ region = 1 /\ av = 1 /\ free_start = 0 /\ free = <<>>
    BY DEF Init
  <2>2. <<>> \in Seq(Ranges) /\ 1 \in 1 .. Len(<<>>) + 1
    OBVIOUS
  <2> QED BY <2>1, <2>2 DEF QueryTypes
<1>2. RegionInv => RegionTypes
  BY DEF RegionInv
<1> QED BY <1>1, <1>2, RegionsAlways, QueryTypesStep, PTL DEF Spec

\* The type invariant: lines, regions and what is found are ranges of the file's
\* addresses, and the search stays inside both lists it walks.
THEOREM RegionsAreTyped == Spec => []TypeOK
<1>1. RegionInv /\ QueryTypes => TypeOK
  BY DEF RegionInv, RegionTypes, QueryTypes, TypeOK
<1> QED BY <1>1, RegionsAlways, QueryTypesAlways, PTL

\* What SearchInv says, for a search that may say anything.
LEMMA SearchInvMeans ==
  ASSUME SearchInv, pc = "search", AvoidInOrder
  PROVE  /\ \A i \in DOMAIN free : Open(free[i].start, free[i].end)
         /\ region <= Len(available) =>
              /\ available[region].start <= free_start
              /\ \A i \in 1 .. av - 1, b \in free_start .. available[region].end : ~Covers(avoid[i], b)
         /\ \A s \in 0 .. MaxAddr, j \in DOMAIN available :
              BlockIn(s, available[j]) /\ Open(s, s + Required - 1) =>
                Offered(s) \/ region < j \/ (region = j /\ free_start <= s)
BY DEF SearchInv

\* One range offered: it is open, and the blocks in it are offered from then on.
LEMMA OfferStep ==
  ASSUME free \in Seq(Ranges), NEW s \in Nat, NEW e \in Int, e <= MaxAddr, Offer(s, e),
         \A i \in DOMAIN free : Open(free[i].start, free[i].end),
         Large(s, e) => Open(s, e)
  PROVE  /\ \A i \in DOMAIN free' : Open(free'[i].start, free'[i].end)
         /\ \A b : Offered(b) => Offered(b)'
         /\ \A b \in Nat : s <= b /\ b + Required - 1 <= e => Offered(b)'
<1>1. /\ \A i \in DOMAIN free' : (i \in DOMAIN free /\ free'[i] = free[i])
                                 \/ (free'[i] = R(s, e) /\ Large(s, e))
      /\ \A i \in DOMAIN free : i \in DOMAIN free' /\ free'[i] = free[i]
      /\ Large(s, e) => \E i \in DOMAIN free' : free'[i] = R(s, e)
  BY OfferFacts
<1>2. R(s, e).start = s /\ R(s, e).end = e
  BY DEF R
<1>3. ASSUME NEW i \in DOMAIN free' PROVE Open(free'[i].start, free'[i].end)
  BY <1>1, <1>2
<1>4. ASSUME NEW b, Offered(b) PROVE Offered(b)'
  BY <1>1, <1>4 DEF Offered, BlockIn
<1>5. ASSUME NEW b \in Nat, s <= b, b + Required - 1 <= e PROVE Offered(b)'
  <2>1. Required \in Nat \ {0}
    BY IomemAssumption
  <2>2. Large(s, e)
    BY <1>5, <2>1 DEF Large
  <2>3. PICK i \in DOMAIN free' : free'[i] = R(s, e)
    BY <1>1, <2>2
  <2> QED BY <1>2, <1>5, <2>3 DEF Offered, BlockIn
<1> QED BY <1>3, <1>4, <1>5

\* The lists the search walks, at the places where it is.
LEMMA SearchPlaces ==
  ASSUME RegionTypes, QueryTypes, pc = "search", region <= Len(available)
  PROVE  /\ free \in Seq(Ranges) /\ free_start \in Nat /\ MaxAddr \in Nat
         /\ DOMAIN available = 1 .. Len(available) /\ Len(available) \in Nat
         /\ DOMAIN avoid = 1 .. Len(avoid) /\ Len(avoid) \in Nat
         /\ region \in DOMAIN available /\ av \in 1 .. Len(avoid) + 1
         /\ \A i \in DOMAIN available :
              /\ available[i].start \in Nat /\ available[i].end \in Nat
              /\ available[i].start <= available[i].end /\ available[i].end <= MaxAddr
         /\ \A i \in DOMAIN avoid :
              /\ avoid[i].start \in Nat /\ avoid[i].end \in Nat
              /\ avoid[i].start <= avoid[i].end /\ avoid[i].end <= MaxAddr
<1>1. available \in Seq(Ranges) /\ avoid \in Seq(Ranges)
  BY AvoidTypes DEF RegionTypes
<1>2. /\ \A i \in DOMAIN available :
              /\ available[i].start \in Nat /\ available[i].end \in Nat
              /\ available[i].start <= available[i].end /\ available[i].end <= MaxAddr
      /\ \A i \in DOMAIN avoid :
              /\ avoid[i].start \in Nat /\ avoid[i].end \in Nat
              /\ avoid[i].start <= avoid[i].end /\ avoid[i].end <= MaxAddr
  BY <1>1, RangeFields
<1>3. MaxAddr \in Nat
  BY IomemAssumption
<1>4. /\ free \in Seq(Ranges) /\ free_start \in Nat
      /\ region \in 1 .. Len(available) + 1 /\ av \in 1 .. Len(avoid) + 1
  BY DEF QueryTypes
<1> HIDE DEF Ranges
<1>5. /\ DOMAIN available = 1 .. Len(available) /\ Len(available) \in Nat
      /\ DOMAIN avoid = 1 .. Len(avoid) /\ Len(avoid) \in Nat
  BY <1>1
<1> QED BY <1>2, <1>3, <1>4, <1>5

\* The search begins: every block is still to come.
LEMMA StartSearchStep ==
  ASSUME RegionTypes, QueryTypes, StartSearch
  PROVE  SearchInv'
<1>1. /\ pc = "ready" /\ available # <<>> /\ free_start' = available[1].start
      /\ UNCHANGED <<available, region, av, free>>
  BY DEF StartSearch, reading
<1>2. region = 1 /\ av = 1 /\ free = <<>>
  BY <1>1 DEF QueryTypes
<1>3. available \in Seq(Ranges)
  BY DEF RegionTypes
<1>4. DOMAIN available = 1 .. Len(available) /\ Len(available) \in Nat
  BY <1>3
<1>5. 1 \in DOMAIN available
  BY <1>1, <1>4
<1>6. available[1].start \in Nat
  BY <1>3, <1>5, RangeFields
<1>7. DOMAIN free' = {} /\ region' = 1 /\ av' = 1 /\ available' = available
  BY <1>1, <1>2
<1>8. \A s \in 0 .. MaxAddr, j \in DOMAIN available' :
        BlockIn(s, available'[j]) => region' < j \/ (region' = j /\ free_start' <= s)
  BY <1>1, <1>4, <1>7 DEF BlockIn
<1>9. available'[region'].start <= free_start' /\ 1 .. av' - 1 = {}
  BY <1>1, <1>6, <1>7
<1> QED BY <1>7, <1>8, <1>9 DEF SearchInv

\* A byte open to the search is in the list, and in none of what is avoided.
LEMMA OpenMeans ==
  ASSUME NEW s \in Nat, NEW e \in Int
  PROVE  Open(s, e) <=>
           \A b \in s .. e : /\ \E i \in DOMAIN available : Covers(available[i], b)
                             /\ \A i \in DOMAIN avoid : ~Covers(avoid[i], b)
BY DEF Open, In, Covers

\* The invariant at the next step, from what it says of the values there.
LEMMA SearchInvTogether ==
  ASSUME UNCHANGED <<available, avoid>>,
         AvoidInOrder =>
           /\ \A i \in DOMAIN free' : Open(free'[i].start, free'[i].end)
           /\ region' <= Len(available) =>
                /\ available[region'].start <= free_start'
                /\ \A i \in 1 .. av' - 1, b \in free_start' .. available[region'].end : ~Covers(avoid[i], b)
           /\ \A s \in 0 .. MaxAddr, j \in DOMAIN available :
                BlockIn(s, available[j]) /\ Open(s, s + Required - 1) =>
                  Offered(s)' \/ region' < j \/ (region' = j /\ free_start' <= s)
  PROVE  SearchInv'
<1>1. AvoidInOrder' <=> AvoidInOrder
  BY DEF AvoidInOrder, Ascending, Overlaps
<1> QED BY <1>1 DEF SearchInv, Open, In, BlockIn, Offered

\* One avoided range: what lies before it is offered, and the search goes on after it.
LEMMA CompareStep ==
  ASSUME RegionTypes, QueryTypes, SearchInv, CompareAvoided
  PROVE  SearchInv'
<1> DEFINE r == available[region]
           a == avoid[av]
<1>1. /\ pc = "search" /\ region <= Len(available) /\ av <= Len(avoid) /\ av' = av + 1
      /\ IF Overlaps(a, r) /\ a.start >= r.start /\ a.start <= r.end
         THEN Offer(free_start, a.start - 1) /\ free_start' = a.end + 1
         ELSE UNCHANGED <<free, free_start>>
      /\ UNCHANGED <<available, avoid, region>>
  BY DEF CompareAvoided, reading, PastAvoided
<1>2. /\ free \in Seq(Ranges) /\ free_start \in Nat /\ MaxAddr \in Nat
      /\ DOMAIN available = 1 .. Len(available) /\ Len(available) \in Nat
      /\ DOMAIN avoid = 1 .. Len(avoid) /\ Len(avoid) \in Nat
      /\ region \in DOMAIN available /\ av \in 1 .. Len(avoid) + 1
      /\ r.start \in Nat /\ r.end \in Nat /\ r.start <= r.end /\ r.end <= MaxAddr
      /\ \A i \in DOMAIN avoid :
           avoid[i].start \in Nat /\ avoid[i].end \in Nat /\ avoid[i].start <= avoid[i].end /\ avoid[i].end <= MaxAddr
  BY <1>1, SearchPlaces
<1>3. av \in DOMAIN avoid /\ \A i \in 1 .. av - 1 : i \in DOMAIN avoid /\ i < av
  BY <1>1, <1>2
<1>4. a.start \in Nat /\ a.end \in Nat /\ a.start <= a.end /\ a.end <= MaxAddr
  BY <1>2, <1>3
<1> SUFFICES ASSUME AvoidInOrder
             PROVE  /\ \A i \in DOMAIN free' : Open(free'[i].start, free'[i].end)
                    /\ r.start <= free_start'
                    /\ \A i \in 1 .. av' - 1, b \in free_start' .. r.end : ~Covers(avoid[i], b)
                    /\ \A s \in 0 .. MaxAddr, j \in DOMAIN available :
                         BlockIn(s, available[j]) /\ Open(s, s + Required - 1) =>
                           Offered(s)' \/ region < j \/ (region = j /\ free_start' <= s)
  BY <1>1, SearchInvTogether
<1>5. /\ \A i \in DOMAIN free : Open(free[i].start, free[i].end)
      /\ r.start <= free_start
      /\ \A i \in 1 .. av - 1, b \in free_start .. r.end : ~Covers(avoid[i], b)
      /\ \A s \in 0 .. MaxAddr, j \in DOMAIN available :
           BlockIn(s, available[j]) /\ Open(s, s + Required - 1) =>
             Offered(s) \/ region < j \/ (region = j /\ free_start <= s)
  BY <1>1, SearchInvMeans
<1>6. \A i, j \in DOMAIN avoid : i < j => avoid[i].end < avoid[j].start
  BY DEF AvoidInOrder, Ascending
<1>7. Overlaps(a, r) => a.start >= r.start /\ a.start <= r.end
  BY <1>2, <1>3, <1>4 DEF AvoidInOrder, Overlaps
<1>8. Required \in Nat \ {0}
  BY IomemAssumption
<1>9. CASE Overlaps(a, r)
  <2>1. Offer(free_start, a.start - 1) /\ free_start' = a.end + 1
    BY <1>1, <1>7, <1>9
  <2>2. a.start >= r.start /\ a.start <= r.end
    BY <1>7, <1>9
  <2>3. ASSUME NEW b \in free_start .. a.start - 1
        PROVE  Covers(r, b) /\ \A i \in DOMAIN avoid : ~Covers(avoid[i], b)
    <3>1. b \in Nat /\ free_start <= b /\ b < a.start
      BY <1>2, <1>4
    <3>2. Covers(r, b)
      BY <1>2, <1>4, <1>5, <2>2, <3>1 DEF Covers
    <3>3. ASSUME NEW i \in DOMAIN avoid PROVE ~Covers(avoid[i], b)
      <4>1. CASE i < av
        <5>1. i \in 1 .. av - 1 /\ b \in free_start .. r.end
          BY <1>2, <1>4, <2>2, <3>1, <4>1
        <5> QED BY <1>5, <5>1
      <4>2. CASE i = av
        BY <1>4, <3>1, <4>2 DEF Covers
      <4>3. CASE av < i
        <5>1. a.end < avoid[i].start
          BY <1>3, <1>6, <4>3
        <5>2. avoid[i].start \in Nat
          BY <1>2
        <5> HIDE DEF a
        <5> QED BY <1>4, <3>1, <5>1, <5>2 DEF Covers
      <4> QED BY <1>2, <1>3, <4>1, <4>2, <4>3
    <3> QED BY <3>2, <3>3
  <2>4. Open(free_start, a.start - 1)
    <3>1. a.start - 1 \in Int
      BY <1>4
    <3> QED BY <1>2, <2>3, <3>1, OpenMeans
  <2>5. a.start - 1 \in Int /\ a.start - 1 <= MaxAddr
    BY <1>2, <1>4
  <2>6. /\ \A i \in DOMAIN free' : Open(free'[i].start, free'[i].end)
        /\ \A b : Offered(b) => Offered(b)'
        /\ \A b \in Nat : free_start <= b /\ b + Required - 1 <= a.start - 1 => Offered(b)'
    BY <1>2, <1>5, <2>1, <2>4, <2>5, OfferStep
  <2>7. r.start <= free_start'
    BY <1>2, <1>4, <2>1, <2>2
  <2>8. ASSUME NEW i \in 1 .. av' - 1, NEW b \in free_start' .. r.end PROVE ~Covers(avoid[i], b)
    <3>0. b \in (a.end + 1) .. r.end /\ i \in 1 .. av
      <4>1. (av + 1) - 1 = av
        BY <1>2
      <4> QED BY <1>1, <2>1, <4>1
    <3>1. i \in DOMAIN avoid /\ (i < av \/ i = av) /\ b \in Int /\ a.end < b
      <4>1. b \in Int /\ a.end < b
        BY <1>2, <1>4, <3>0
      <4>2. i < av \/ i = av
        BY <1>2, <3>0
      <4>3. i \in DOMAIN avoid
        BY <1>2, <1>3, <3>0
      <4> QED BY <4>1, <4>2, <4>3
    <3>2. i < av => avoid[i].end < a.start
      BY <1>3, <1>6, <3>1
    <3>3. avoid[i].end \in Nat
      BY <1>2, <3>1
    <3>4. avoid[i].end < b
      BY <1>4, <3>1, <3>2, <3>3
    <3> QED BY <3>1, <3>3, <3>4 DEF Covers
  <2>9. ASSUME NEW s \in 0 .. MaxAddr, NEW j \in DOMAIN available,
               BlockIn(s, available[j]), Open(s, s + Required - 1)
        PROVE  Offered(s)' \/ region < j \/ (region = j /\ free_start' <= s)
    <3>1. Offered(s) \/ region < j \/ (region = j /\ free_start <= s)
      BY <1>5, <2>9
    <3>2. CASE region = j /\ free_start <= s
      <4>1. s \in Nat /\ s + Required - 1 \in Nat /\ s <= s + Required - 1
        BY <1>2, <1>8
      <4>2. \A b \in s .. s + Required - 1 : ~Covers(a, b)
        BY <1>3, <2>9, <4>1, OpenMeans
      <4> HIDE DEF a
      <4>3. CASE a.start <= s
        <5>1. ~Covers(a, s)
          BY <4>1, <4>2
        <5>2. a.end < s
          BY <1>4, <4>1, <4>3, <5>1 DEF Covers
        <5> QED BY <1>4, <2>1, <3>2, <4>1, <5>2
      <4>4. CASE s < a.start
        <5>1. ASSUME a.start <= s + Required - 1 PROVE FALSE
          <6>1. a.start \in s .. s + Required - 1
            BY <1>4, <4>1, <4>4, <5>1
          <6>2. Covers(a, a.start)
            BY <1>4 DEF Covers
          <6> QED BY <4>2, <6>1, <6>2
        <5>2. s + Required - 1 <= a.start - 1
          BY <1>4, <4>1, <5>1
        <5>3. Offered(s)'
          BY <2>6, <3>2, <4>1, <5>2
        <5> QED BY <5>3
      <4> QED BY <1>4, <4>1, <4>3, <4>4
    <3> QED BY <2>6, <3>1, <3>2
  <2> QED BY <2>6, <2>7, <2>8, <2>9
<1>10. CASE ~Overlaps(a, r)
  <2>1. free' = free /\ free_start' = free_start
    BY <1>1, <1>10
  <2>2. ASSUME NEW i \in 1 .. av' - 1, NEW b \in free_start' .. r.end PROVE ~Covers(avoid[i], b)
    <3>1. CASE i = av
      <4>1. b \in Int /\ r.start <= b /\ b <= r.end
        BY <1>2, <1>5, <2>1
      <4>2. ~(a.end >= r.start /\ r.end >= a.start)
        BY <1>10 DEF Overlaps
      <4>3. ~Covers(a, b)
        BY <1>2, <1>4, <4>1, <4>2 DEF Covers
      <4> QED BY <3>1, <4>3
    <3>2. CASE i # av
      <4>1. i \in 1 .. av - 1 /\ b \in free_start .. r.end
        BY <1>1, <1>2, <2>1, <3>2
      <4> QED BY <1>5, <4>1
    <3> QED BY <3>1, <3>2
  <2>3. \A s : Offered(s)' <=> Offered(s)
    BY <2>1 DEF Offered
  <2> QED BY <1>5, <2>1, <2>2, <2>3
<1> QED BY <1>9, <1>10

\* The end of a region: what is left of it is offered.
LEMMA EndRegionStep ==
  ASSUME RegionTypes, QueryTypes, SearchInv, EndRegion
  PROVE  SearchInv'
<1> DEFINE r == available[region]
<1>1. /\ pc = "search" /\ region <= Len(available) /\ av > Len(avoid)
      /\ Offer(free_start, r.end)
      /\ region' = region + 1 /\ av' = 1
      /\ free_start' = IF region < Len(available) THEN available[region + 1].start ELSE 0
      /\ UNCHANGED <<available, avoid>>
  BY DEF EndRegion, reading
<1>2. /\ free \in Seq(Ranges) /\ free_start \in Nat /\ MaxAddr \in Nat
      /\ DOMAIN available = 1 .. Len(available) /\ Len(available) \in Nat
      /\ DOMAIN avoid = 1 .. Len(avoid) /\ Len(avoid) \in Nat
      /\ region \in DOMAIN available /\ av \in 1 .. Len(avoid) + 1
      /\ r.start \in Nat /\ r.end \in Nat /\ r.start <= r.end /\ r.end <= MaxAddr
      /\ \A i \in DOMAIN available : available[i].start \in Nat
  BY <1>1, SearchPlaces
<1>3. DOMAIN avoid = 1 .. av - 1
  BY <1>1, <1>2
<1> SUFFICES ASSUME AvoidInOrder
             PROVE  /\ \A i \in DOMAIN free' : Open(free'[i].start, free'[i].end)
                    /\ region' <= Len(available) =>
                         /\ available[region'].start <= free_start'
                         /\ \A i \in 1 .. av' - 1, b \in free_start' .. available[region'].end : ~Covers(avoid[i], b)
                    /\ \A s \in 0 .. MaxAddr, j \in DOMAIN available :
                         BlockIn(s, available[j]) /\ Open(s, s + Required - 1) =>
                           Offered(s)' \/ region' < j \/ (region' = j /\ free_start' <= s)
  BY <1>1, SearchInvTogether
<1>4. /\ \A i \in DOMAIN free : Open(free[i].start, free[i].end)
      /\ r.start <= free_start
      /\ \A i \in 1 .. av - 1, b \in free_start .. r.end : ~Covers(avoid[i], b)
      /\ \A s \in 0 .. MaxAddr, j \in DOMAIN available :
           BlockIn(s, available[j]) /\ Open(s, s + Required - 1) =>
             Offered(s) \/ region < j \/ (region = j /\ free_start <= s)
  BY <1>1, SearchInvMeans
<1>5. Open(free_start, r.end)
  <2>1. \A b \in free_start .. r.end : Covers(r, b)
    BY <1>2, <1>4 DEF Covers
  <2>2. r.end \in Int
    BY <1>2
  <2> HIDE DEF r
  <2>3. \A b \in free_start .. r.end : \E i \in DOMAIN available : Covers(available[i], b)
    BY <1>2, <2>1 DEF r
  <2> QED BY <1>2, <1>3, <1>4, <2>2, <2>3, OpenMeans
<1>6. /\ \A i \in DOMAIN free' : Open(free'[i].start, free'[i].end)
      /\ \A b : Offered(b) => Offered(b)'
      /\ \A b \in Nat : free_start <= b /\ b + Required - 1 <= r.end => Offered(b)'
  <2>1. r.end \in Int /\ r.end <= MaxAddr
    BY <1>2
  <2> QED BY <1>1, <1>2, <1>4, <1>5, <2>1, OfferStep
<1>7. ASSUME region' <= Len(available)
      PROVE  available[region'].start <= free_start' /\ 1 .. av' - 1 = {}
  <2>1. region < Len(available) /\ region + 1 \in DOMAIN available
    BY <1>1, <1>2, <1>7
  <2>2. free_start' = available[region + 1].start /\ free_start' \in Nat
    BY <1>1, <1>2, <2>1
  <2> QED BY <1>1, <2>2
<1>8. ASSUME NEW s \in 0 .. MaxAddr, NEW j \in DOMAIN available,
             BlockIn(s, available[j]), Open(s, s + Required - 1)
      PROVE  Offered(s)' \/ region' < j \/ (region' = j /\ free_start' <= s)
  <2>1. Offered(s) \/ region < j \/ (region = j /\ free_start <= s)
    BY <1>4, <1>8
  <2>2. CASE region = j /\ free_start <= s
    <3>1. s \in Nat /\ s + Required - 1 <= r.end
      BY <1>2, <1>8, <2>2 DEF BlockIn
    <3> QED BY <1>6, <2>2, <3>1
  <2>3. CASE region < j
    <3>1. CASE region + 1 < j
      BY <1>1, <3>1
    <3>2. CASE region + 1 = j
      <4>1. region < Len(available) /\ region' = j
        BY <1>1, <1>2, <3>2
      <4>2. free_start' = available[j].start
        BY <1>1, <3>2, <4>1
      <4> QED BY <1>8, <4>1, <4>2 DEF BlockIn
    <3> QED BY <1>2, <2>3, <3>1, <3>2
  <2> QED BY <1>6, <2>1, <2>2, <2>3
<1> QED BY <1>6, <1>7, <1>8

\* The end of the search: aligning takes bytes from the start of a region, and none
\* from an aligned block in it.
LEMMA AlignFreeStep ==
  ASSUME RegionTypes, QueryTypes, SearchInv, AlignFree
  PROVE  SearchExact'
<1>1. /\ pc = "search" /\ region > Len(available) /\ UNCHANGED <<available, avoid>>
  BY Zenon DEF AlignFree, reading
<1>2. free \in Seq(Ranges) /\ MaxAddr \in Nat /\ Required \in Nat \ {0} /\ Alignment \in Nat \ {0}
  BY IomemAssumption DEF QueryTypes
<1>3. DOMAIN available = 1 .. Len(available) /\ Len(available) \in Nat /\ region \in 1 .. Len(available) + 1
  BY <1>1 DEF RegionTypes, QueryTypes
<1>4. /\ \A i \in DOMAIN free' : \E k \in Kept : free'[i] = Aligned(free[k])
      /\ \A k \in Kept : \E i \in DOMAIN free' : free'[i] = Aligned(free[k])
  BY <1>2, AlignFreeFacts
<1>5. ASSUME NEW k \in DOMAIN free
      PROVE  LET a == Aligned(free[k]) IN
             /\ free[k].start \in Nat /\ free[k].end \in Nat
             /\ a.end = free[k].end /\ a.start \in Nat /\ a.start % Alignment = 0 /\ free[k].start <= a.start
             /\ \A s \in Nat : s % Alignment = 0 /\ free[k].start <= s => a.start <= s
  <2>1. free[k].start \in Nat /\ free[k].end \in Nat
    BY <1>2, RangeFields
  <2>2. Aligned(free[k]).start = AlignUp(free[k].start, Alignment) /\ Aligned(free[k]).end = free[k].end
    BY DEF Aligned, R
  <2> DEFINE up == AlignUp(free[k].start, Alignment)
  <2>3. /\ up \in Nat /\ up % Alignment = 0 /\ free[k].start <= up
        /\ \A s \in Nat : s % Alignment = 0 /\ free[k].start <= s => up <= s
    BY <1>2, <2>1, AlignUpFacts
  <2> HIDE DEF up
  <2>4. Aligned(free[k]).start = up
    BY <2>2 DEF up
  <2> QED BY <2>1, <2>2, <2>3, <2>4
<1> SUFFICES ASSUME AvoidInOrder
             PROVE  /\ \A i \in DOMAIN free' :
                         /\ free'[i].start % Alignment = 0 /\ Large(free'[i].start, free'[i].end)
                         /\ Open(free'[i].start, free'[i].end)
                    /\ \A s \in 0 .. MaxAddr - Required + 1 :
                         /\ s % Alignment = 0 /\ Open(s, s + Required - 1)
                         /\ InRegions(s, Required, available)
                         => InRegions(s, Required, free')
  <2>1. AvoidInOrder' <=> AvoidInOrder
    BY <1>1 DEF AvoidInOrder, Ascending, Overlaps
  <2> QED BY <1>1, <2>1 DEF SearchExact, Open, In
<1>6. /\ \A i \in DOMAIN free : Open(free[i].start, free[i].end)
      /\ \A s \in 0 .. MaxAddr, j \in DOMAIN available :
           BlockIn(s, available[j]) /\ Open(s, s + Required - 1) =>
             Offered(s) \/ region < j \/ (region = j /\ free_start <= s)
  BY <1>1, SearchInvMeans
<1>7. ASSUME NEW i \in DOMAIN free'
      PROVE  /\ free'[i].start % Alignment = 0 /\ Large(free'[i].start, free'[i].end)
             /\ Open(free'[i].start, free'[i].end)
  <2>1. PICK k \in Kept : free'[i] = Aligned(free[k])
    BY <1>4
  <2>2. k \in DOMAIN free /\ Large(Aligned(free[k]).start, free[k].end)
    BY DEF Kept
  <2> DEFINE a == Aligned(free[k])
  <2>3. /\ free[k].start \in Nat /\ free[k].end \in Nat
        /\ a.end = free[k].end /\ a.start \in Nat /\ a.start % Alignment = 0 /\ free[k].start <= a.start
    BY <1>5, <2>2
  <2>4. Open(free[k].start, free[k].end)
    BY <1>6, <2>2
  <2>5. a.start .. a.end \subseteq free[k].start .. free[k].end
    BY <2>3
  <2> HIDE DEF a
  <2>6. Open(a.start, a.end)
    BY <2>4, <2>5 DEF Open
  <2> QED BY <2>1, <2>2, <2>3, <2>6 DEF a
<1>8. ASSUME NEW s \in 0 .. MaxAddr - Required + 1, s % Alignment = 0, Open(s, s + Required - 1),
             InRegions(s, Required, available)
      PROVE  InRegions(s, Required, free')
  <2>1. s \in Nat /\ s \in 0 .. MaxAddr
    BY <1>2
  <2>2. PICK j \in DOMAIN available : s >= available[j].start /\ s + Required - 1 <= available[j].end
    BY <1>8 DEF InRegions
  <2>3. BlockIn(s, available[j])
    <3>1. available[j].start \in Nat
      BY RangeFields DEF RegionTypes
    <3> QED BY <2>1, <2>2, <3>1 DEF BlockIn
  <2>4. Offered(s)
    <3>1. ~(region < j) /\ region # j
      BY <1>1, <1>3
    <3> QED BY <1>6, <1>8, <2>1, <2>3, <3>1
  <2>5. PICK k \in DOMAIN free : free[k].start <= s /\ s + Required - 1 <= free[k].end
    BY <2>4 DEF Offered, BlockIn
  <2> DEFINE a == Aligned(free[k])
  <2>6. a.start \in Nat /\ a.start <= s /\ a.end = free[k].end /\ free[k].end \in Nat
    BY <1>5, <1>8, <2>1, <2>5
  <2>7. Large(a.start, free[k].end)
    BY <1>2, <2>1, <2>5, <2>6 DEF Large
  <2>8. k \in Kept
    BY <2>7 DEF Kept
  <2>9. PICK i \in DOMAIN free' : free'[i] = a
    BY <1>4, <2>8
  <2> HIDE DEF a
  <2>10. s >= a.start /\ s + Required - 1 <= a.end /\ Required > 0
    BY <1>2, <2>1, <2>5, <2>6
  <2> QED BY <2>9, <2>10 DEF InRegions
<1> QED BY <1>7, <1>8

\* Before the search there is nothing to say of it, and after it nothing changes.
LEMMA SearchStep ==
  ASSUME RegionTypes, QueryTypes, SearchInv, SearchExact, [Next]_vars
  PROVE  SearchInv' /\ SearchExact'
<1>1. CASE pc' \notin {"search", "found"}
  BY <1>1 DEF SearchInv, SearchExact
<1>2. CASE StartSearch
  <2>1. pc' = "search"
    BY <1>2 DEF StartSearch
  <2> QED BY <1>2, <2>1, StartSearchStep DEF SearchExact
<1>3. CASE CompareAvoided
  <2>1. pc' = "search"
    BY <1>3 DEF CompareAvoided
  <2> QED BY <1>3, <2>1, CompareStep DEF SearchExact
<1>4. CASE EndRegion
  <2>1. pc' = "search"
    BY <1>4 DEF EndRegion
  <2> QED BY <1>4, <2>1, EndRegionStep DEF SearchExact
<1>5. CASE AlignFree
  <2>1. pc' = "found"
    BY <1>5, Zenon DEF AlignFree
  <2> QED BY <1>5, <2>1, AlignFreeStep DEF SearchInv
<1>6. CASE UNCHANGED vars
  <2>1. UNCHANGED <<pc, available, avoid, region, av, free_start, free>>
    BY <1>6 DEF vars, query
  <2>2. SearchInv'
    BY <2>1 DEF SearchInv, AvoidInOrder, Ascending, Overlaps, Open, In, BlockIn, Offered, Covers
  <2>3. SearchExact'
    BY <2>1 DEF SearchExact, AvoidInOrder, Ascending, Overlaps, Open, In, InRegions, Large
  <2> QED BY <2>2, <2>3
<1>7. CASE (\E e \in Entry : ReadLine(e)) \/ EndOfFile \/ Drain \/ NextReserved \/ Subtracted
  <2>1. pc' \notin {"search", "found"}
    BY <1>7 DEF ReadLine, EndOfFile, Drain, NextReserved, Subtracted
  <2> QED BY <1>1, <2>1
<1> QED BY <1>2, <1>3, <1>4, <1>5, <1>6, <1>7 DEF Next

\* find_free_memory_regions, for any regions, alignment and size and any avoided ranges
\* in order: what it returns is aligned, large enough and free, and no aligned block
\* that is free and lies in one region is missed.
THEOREM SearchIsExact == Spec => []SearchExact
<1>1. Init => SearchInv /\ SearchExact
  BY DEF Init, SearchInv, SearchExact
<1>2. RegionInv => RegionTypes
  BY DEF RegionInv
<1> QED BY <1>1, <1>2, RegionsAlways, QueryTypesAlways, SearchStep, PTL DEF Spec

=============================================================================
