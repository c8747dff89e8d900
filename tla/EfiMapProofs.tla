--------------------------- MODULE EfiMapProofs ---------------------------
(***************************************************************************)
(* Theorems about EfiMap, for any firmware, any maps shown by Linux, any   *)
(* records besides that of the map, and any sizes of the table and of the  *)
(* copy. What the writer's running offset and FlattenSeq compute is shown  *)
(* by induction on sets of numbers: a set that holds 0, and with each      *)
(* number the next, holds them all.                                        *)
(***************************************************************************)
EXTENDS EfiMap, TLAPS, SequenceTheorems, FiniteSetTheorems, WellFoundedInduction

LEMMA NumbersByInduction ==
  ASSUME NEW S, 0 \in S, \A n \in Nat : n \in S => n + 1 \in S
  PROVE  \A n \in Nat : n \in S
<1> SUFFICES ASSUME NEW b \in Nat, b \notin S PROVE FALSE
  OBVIOUS
<1> DEFINE T == Nat \ S
           Smaller == OpToRel(<, Nat)
<1>1. IsWellFoundedOn(Smaller, Nat)
  BY NatLessThanWellFounded, Zenon
<1>2. T \subseteq Nat /\ T # {}
  OBVIOUS
<1>3. \A i, j \in Nat : i < j => <<i, j>> \in Smaller
  BY DEF OpToRel
<1> HIDE DEF T, Smaller
<1>4. PICK x \in T : \A y \in T : ~ (<<y, x>> \in Smaller)
  BY <1>1, <1>2, WFMin, Zenon
<1>5. \A y \in T : ~ (y < x)
  BY <1>2, <1>3, <1>4
<1>6. x \in Nat /\ x \notin S /\ x # 0
  BY <1>4 DEF T
<1>7. x - 1 \in Nat /\ x - 1 < x /\ (x - 1) + 1 = x
  BY ONLY <1>6
<1>8. x - 1 \in S
  BY <1>5, <1>7 DEF T
<1> QED BY <1>6, <1>7, <1>8
---------------------------------------------------------------------------
(* The buffer of modulep.                                                  *)

\* The next record starts after the padding of the one before.
LEMMA AfterBounds ==
  ASSUME NEW at \in Nat, NEW size \in Nat
  PROVE  After(at, size) \in Nat /\ at + 8 + size <= After(at, size)
BY DEF After, AlignUp

\* The writer's running offset is defined for every list of records.
LEMMA OffsetsDefined ==
  ASSUME NEW rs
  PROVE  \A n \in Nat : \E at :
           at = [i \in 1 .. n |-> IF i = 1 THEN 0 ELSE After(at[i - 1], rs[i - 1].size)]
<1> DEFINE Runs(n, at) == at = [i \in 1 .. n |-> IF i = 1 THEN 0 ELSE After(at[i - 1], rs[i - 1].size)]
           S == {n \in Nat : \E at : Runs(n, at)}
<1>1. 0 \in S
  <2> DEFINE none == [i \in 1 .. 0 |-> 0]
  <2>1. none = [i \in 1 .. 0 |-> IF i = 1 THEN 0 ELSE After(none[i - 1], rs[i - 1].size)]
    OBVIOUS
  <2> QED BY <2>1
<1>2. ASSUME NEW n \in Nat, n \in S PROVE n + 1 \in S
  <2>1. PICK at : Runs(n, at)
    BY <1>2
  <2> DEFINE new == [i \in 1 .. n + 1 |-> IF i = 1 THEN 0 ELSE After(at[i - 1], rs[i - 1].size)]
  <2>2. \A i \in 1 .. n : new[i] = at[i]
    BY <2>1
  <2>3. \A i \in 1 .. n + 1 : i # 1 => i - 1 \in 1 .. n
    OBVIOUS
  <2>4. \A i \in 1 .. n + 1 : i # 1 => at[i - 1] = new[i - 1]
    BY <2>2, <2>3
  <2>5. Runs(n + 1, new)
    <3>1. \A i \in 1 .. n + 1 :
            (IF i = 1 THEN 0 ELSE After(at[i - 1], rs[i - 1].size))
              = (IF i = 1 THEN 0 ELSE After(new[i - 1], rs[i - 1].size))
      BY <2>4, Zenon
    <3>2. new = [i \in 1 .. n + 1 |-> IF i = 1 THEN 0 ELSE After(at[i - 1], rs[i - 1].size)]
      OBVIOUS
    <3> HIDE DEF new
    <3>3. new = [i \in 1 .. n + 1 |-> IF i = 1 THEN 0 ELSE After(new[i - 1], rs[i - 1].size)]
      BY <3>1, <3>2
    <3> QED BY <3>3
  <2> HIDE DEF new, Runs
  <2>6. n + 1 \in Nat /\ \E a : Runs(n + 1, a)
    BY <2>5
  <2> QED BY <2>6
<1> HIDE DEF S
<1>3. \A n \in Nat : n \in S
  BY <1>1, <1>2, NumbersByInduction
<1> QED BY <1>3 DEF S

\* A list of records: each of a type and a size.
Records(rs) ==
  Len(rs) \in Nat /\ DOMAIN rs = 1 .. Len(rs) /\ \A i \in 1 .. Len(rs) : rs[i].size \in Nat

\* The records lie one after the other, each where the one before it ends.
LEMMA PlacedFacts ==
  ASSUME NEW rs, Records(rs)
  PROVE  /\ DOMAIN Placed(rs) = 1 .. Len(rs) /\ Len(Placed(rs)) = Len(rs)
         /\ \A i \in 1 .. Len(rs) :
              /\ Placed(rs)[i].type = rs[i].type /\ Placed(rs)[i].size = rs[i].size
              /\ Placed(rs)[i].at =
                   IF i = 1 THEN 0 ELSE After(Placed(rs)[i - 1].at, Placed(rs)[i - 1].size)
<1> DEFINE N == Len(rs)
           at == CHOOSE at : at = [i \in DOMAIN rs |-> IF i = 1 THEN 0 ELSE After(at[i - 1], rs[i - 1].size)]
<1>1. N \in Nat /\ DOMAIN rs = 1 .. N
  BY DEF Records
<1>2. \E a : a = [i \in DOMAIN rs |-> IF i = 1 THEN 0 ELSE After(a[i - 1], rs[i - 1].size)]
  <2> HIDE DEF N
  <2>1. \E a : a = [i \in 1 .. N |-> IF i = 1 THEN 0 ELSE After(a[i - 1], rs[i - 1].size)]
    BY <1>1, OffsetsDefined, Zenon
  <2> QED BY <1>1, <2>1, Zenon
<1>3. at = [i \in DOMAIN rs |-> IF i = 1 THEN 0 ELSE After(at[i - 1], rs[i - 1].size)]
  BY <1>2, Zenon
<1>4. Placed(rs) = [i \in DOMAIN rs |-> [type |-> rs[i].type, size |-> rs[i].size, at |-> at[i]]]
  BY Zenon DEF Placed
<1> HIDE DEF at, N
<1>5. DOMAIN Placed(rs) = 1 .. N
  BY <1>1, <1>4
<1>6. ASSUME NEW i \in 1 .. N
      PROVE  Placed(rs)[i].type = rs[i].type /\ Placed(rs)[i].size = rs[i].size /\ Placed(rs)[i].at = at[i]
  BY <1>1, <1>4
<1>7. ASSUME NEW i \in 1 .. N
      PROVE  at[i] = IF i = 1 THEN 0 ELSE After(at[i - 1], rs[i - 1].size)
  BY <1>1, <1>3
<1>8. \A i \in 1 .. N : i # 1 => i - 1 \in 1 .. N
  BY <1>1
<1>9. Len(Placed(rs)) = N
  BY <1>1, <1>5
<1> QED BY <1>5, <1>6, <1>7, <1>8, <1>9 DEF N

LEMMA PlacedInOrder ==
  ASSUME NEW rs, Records(rs)
  PROVE  /\ \A i \in 1 .. Len(rs) : Placed(rs)[i].at \in Nat
         /\ \A i, j \in 1 .. Len(rs) : i < j =>
              Placed(rs)[i].at + 8 + rs[i].size <= Placed(rs)[j].at
<1> DEFINE N == Len(rs)
           p == Placed(rs)
           S == {n \in Nat : n \in 1 .. N =>
                  /\ p[n].at \in Nat
                  /\ \A i \in 1 .. n - 1 : p[i].at \in Nat /\ p[i].at + 8 + rs[i].size <= p[n].at}
<1>1. N \in Nat /\ \A i \in 1 .. N : rs[i].size \in Nat
  BY DEF Records
<1>2. \A i \in 1 .. N : p[i].at = IF i = 1 THEN 0 ELSE After(p[i - 1].at, rs[i - 1].size)
  <2>1. \A i \in 1 .. N : i # 1 => i - 1 \in 1 .. N
    BY <1>1
  <2> QED BY <2>1, PlacedFacts
<1> HIDE DEF p, N
<1>3. 0 \in S
  OBVIOUS
<1>4. ASSUME NEW n \in Nat, n \in S PROVE n + 1 \in S
  <2> SUFFICES ASSUME n + 1 \in 1 .. N
               PROVE  /\ p[n + 1].at \in Nat
                      /\ \A i \in 1 .. n : p[i].at \in Nat /\ p[i].at + 8 + rs[i].size <= p[n + 1].at
    OBVIOUS
  <2>1. CASE n = 0
    <3>1. p[1].at = 0
      BY <1>2, <2>1
    <3> QED BY <2>1, <3>1
  <2>2. CASE n # 0
    <3>1. n \in 1 .. N /\ (n + 1) - 1 = n /\ n + 1 # 1
      BY <1>1, <2>2
    <3>2. p[n + 1].at = After(p[n].at, rs[n].size)
      BY <1>2, <3>1
    <3>3. p[n].at \in Nat /\ rs[n].size \in Nat
          /\ \A i \in 1 .. n - 1 : p[i].at \in Nat /\ p[i].at + 8 + rs[i].size <= p[n].at
      BY <1>1, <1>4, <3>1
    <3>4. p[n + 1].at \in Nat /\ p[n].at + 8 + rs[n].size <= p[n + 1].at
      BY <3>2, <3>3, AfterBounds
    <3>5. ASSUME NEW i \in 1 .. n
          PROVE  p[i].at \in Nat /\ p[i].at + 8 + rs[i].size <= p[n + 1].at
      <4>1. CASE i = n
        BY <3>3, <3>4, <4>1
      <4>2. CASE i # n
        <5>1. i \in 1 .. n - 1 /\ i \in 1 .. N
          BY <1>1, <3>1, <4>2
        <5>2. p[i].at \in Nat /\ p[i].at + 8 + rs[i].size <= p[n].at /\ rs[i].size \in Nat
          BY <1>1, <3>3, <5>1
        <5> QED BY <3>3, <3>4, <5>2
      <4> QED BY <4>1, <4>2
    <3> QED BY <3>4, <3>5
  <2> QED BY <2>1, <2>2
<1> HIDE DEF S
<1>5. \A n \in Nat : n \in S
  BY <1>3, <1>4, NumbersByInduction
<1>6. ASSUME NEW j \in 1 .. N
      PROVE  p[j].at \in Nat /\ \A i \in 1 .. j - 1 : p[i].at + 8 + rs[i].size <= p[j].at
  BY <1>1, <1>5 DEF S
<1>7. ASSUME NEW i \in 1 .. N, NEW j \in 1 .. N, i < j PROVE i \in 1 .. j - 1
  BY <1>1, <1>7
<1> QED BY <1>6, <1>7 DEF p, N

\* FlattenSeq puts lists one after the other.
LEMMA FlattenDefined ==
  ASSUME NEW seqs
  PROVE  \A n \in Nat : \E flat :
           flat = [i \in 1 .. n |-> IF i = 1 THEN seqs[i] ELSE flat[i - 1] \o seqs[i]]
<1> DEFINE Runs(n, flat) == flat = [i \in 1 .. n |-> IF i = 1 THEN seqs[i] ELSE flat[i - 1] \o seqs[i]]
           S == {n \in Nat : \E flat : Runs(n, flat)}
<1>1. 0 \in S
  <2> DEFINE none == [i \in 1 .. 0 |-> 0]
  <2>1. none = [i \in 1 .. 0 |-> IF i = 1 THEN seqs[i] ELSE none[i - 1] \o seqs[i]]
    OBVIOUS
  <2> QED BY <2>1
<1>2. ASSUME NEW n \in Nat, n \in S PROVE n + 1 \in S
  <2>1. PICK flat : Runs(n, flat)
    BY <1>2
  <2> DEFINE new == [i \in 1 .. n + 1 |-> IF i = 1 THEN seqs[i] ELSE flat[i - 1] \o seqs[i]]
  <2>2. ASSUME NEW i \in 1 .. n PROVE new[i] = flat[i]
    <3>1. i \in 1 .. n + 1
      OBVIOUS
    <3>2. new[i] = IF i = 1 THEN seqs[i] ELSE flat[i - 1] \o seqs[i]
      BY <3>1, Zenon
    <3>3. flat[i] = IF i = 1 THEN seqs[i] ELSE flat[i - 1] \o seqs[i]
      BY <2>1, Zenon
    <3> QED BY <3>2, <3>3, Zenon
  <2>3. \A i \in 1 .. n + 1 : i # 1 => i - 1 \in 1 .. n
    OBVIOUS
  <2>4. \A i \in 1 .. n + 1 : i # 1 => flat[i - 1] = new[i - 1]
    BY <2>2, <2>3
  <2>5. Runs(n + 1, new)
    <3>1. \A i \in 1 .. n + 1 :
            (IF i = 1 THEN seqs[i] ELSE flat[i - 1] \o seqs[i])
              = (IF i = 1 THEN seqs[i] ELSE new[i - 1] \o seqs[i])
      BY <2>4, Zenon
    <3>2. new = [i \in 1 .. n + 1 |-> IF i = 1 THEN seqs[i] ELSE flat[i - 1] \o seqs[i]]
      OBVIOUS
    <3> HIDE DEF new
    <3>3. new = [i \in 1 .. n + 1 |-> IF i = 1 THEN seqs[i] ELSE new[i - 1] \o seqs[i]]
      BY <3>1, <3>2
    <3> QED BY <3>3
  <2> HIDE DEF new, Runs
  <2>6. n + 1 \in Nat /\ \E f : Runs(n + 1, f)
    BY <2>5
  <2> QED BY <2>6
<1> HIDE DEF S
<1>3. \A n \in Nat : n \in S
  BY <1>1, <1>2, NumbersByInduction
<1> QED BY <1>3 DEF S

LEMMA FlattenType ==
  ASSUME NEW T, NEW seqs \in Seq(Seq(T))
  PROVE  FlattenSeq(seqs) \in Seq(T)
<1> DEFINE N == Len(seqs)
           flat == CHOOSE flat : flat = [i \in 1 .. Len(seqs) |->
                                           IF i = 1 THEN seqs[i] ELSE flat[i - 1] \o seqs[i]]
<1>1. N \in Nat /\ \A i \in 1 .. N : seqs[i] \in Seq(T)
  BY ElementOfSeq
<1>2. CASE N = 0
  <2>1. FlattenSeq(seqs) = seqs /\ seqs = << >>
    BY <1>2 DEF FlattenSeq
  <2> QED BY <2>1
<1>3. CASE N # 0
  <2>1. FlattenSeq(seqs) = flat[N]
    BY <1>3, Zenon DEF FlattenSeq
  <2>2. flat = [i \in 1 .. N |-> IF i = 1 THEN seqs[i] ELSE flat[i - 1] \o seqs[i]]
    <3>1. \E f : f = [i \in 1 .. Len(seqs) |-> IF i = 1 THEN seqs[i] ELSE f[i - 1] \o seqs[i]]
      BY <1>1, FlattenDefined, Zenon
    <3> QED BY <3>1, Zenon
  <2> HIDE DEF flat, N
  <2>3. \A i \in 1 .. N : flat[i] = IF i = 1 THEN seqs[i] ELSE flat[i - 1] \o seqs[i]
    BY <2>2
  <2> DEFINE S == {n \in Nat : n \in 1 .. N => flat[n] \in Seq(T)}
  <2>4. 0 \in S
    OBVIOUS
  <2>5. ASSUME NEW n \in Nat, n \in S PROVE n + 1 \in S
    <3> SUFFICES ASSUME n + 1 \in 1 .. N PROVE flat[n + 1] \in Seq(T)
      OBVIOUS
    <3>1. CASE n = 0
      BY <1>1, <2>3, <3>1
    <3>2. CASE n # 0
      <4>1. n \in 1 .. N /\ (n + 1) - 1 = n /\ n + 1 # 1
        BY <1>1, <3>2
      <4>2. flat[n + 1] = flat[n] \o seqs[n + 1]
        BY <2>3, <4>1
      <4>3. flat[n] \in Seq(T) /\ seqs[n + 1] \in Seq(T)
        BY <1>1, <2>5, <4>1
      <4> QED BY <4>2, <4>3, ConcatProperties
    <3> QED BY <3>1, <3>2
  <2> HIDE DEF S
  <2>6. \A n \in Nat : n \in S
    BY <2>4, <2>5, NumbersByInduction
  <2>7. N \in 1 .. N
    BY <1>1, <1>3
  <2> QED BY <1>1, <2>1, <2>6, <2>7 DEF S
<1> QED BY <1>2, <1>3
---------------------------------------------------------------------------
(* The records of modulep: one of the map, if it is handed over, and the   *)
(* end marker as the last.                                                 *)

\* The types of all records but those two, and such records.
Kinds ==
  {"name", "type", "args", "addr", "size", "fwhandle", "keybuf", "modulep", "kernend", "envp", "howto",
   "smap", "elfhdr", "dynamic", "esym", "ssym", "shdr", "font", "efifb"}
Other == [type : Kinds, size : Nat]
AnyRecord == [type : Kinds \cup {"efimap", "end"}, size : Nat]

LEMMA OptType ==
  ASSUME NEW T, NEW rs \in Seq(T), NEW cond
  PROVE  Opt(cond, rs) \in Seq(T)
BY DEF Opt

\* What the writer makes of those types.
LEMMA OfKind ==
  ASSUME NEW type \in Kinds, NEW size \in Nat
  PROVE  /\ Record(type, size) \in Other /\ Sized(type, size) \in Seq(Other)
         /\ Str(type, size) \in Other /\ Word8(type) \in Other
<1>1. \A n \in Nat : Record(type, n) \in Other
  BY DEF Record, Other
<1>2. size + 1 \in Nat /\ 8 \in Nat
  OBVIOUS
<1>3. <<Record(type, size)>> \in Seq(Other)
  BY <1>1
<1>4. Sized(type, size) \in Seq(Other)
  BY <1>3, OptType DEF Sized
<1> QED BY <1>1, <1>2, <1>4 DEF Str, Word8

LEMMA ModuleRecordsType ==
  ASSUME NEW f \in [name : Nat, type : Nat, dynamic : BOOLEAN, elfhdr : Nat, shdr : Nat]
  PROVE  ModuleRecords(f) \in Seq(Other)
<1>1. f.name \in Nat /\ f.type \in Nat /\ f.elfhdr \in Nat /\ f.shdr \in Nat /\ 0 \in Nat
  OBVIOUS
<1>2. {"name", "type", "args", "addr", "size", "dynamic", "elfhdr", "shdr"} \subseteq Kinds
  BY DEF Kinds
<1>3. \A t \in Kinds, n \in Nat :
        Sized(t, n) \in Seq(Other) /\ Str(t, n) \in Other /\ Word8(t) \in Other
  BY OfKind
<1>4. /\ Str("name", f.name) \in Other /\ Str("type", f.type) \in Other /\ Str("args", 0) \in Other
      /\ Word8("addr") \in Other /\ Word8("size") \in Other /\ Word8("dynamic") \in Other
      /\ Sized("elfhdr", f.elfhdr) \in Seq(Other) /\ Sized("shdr", f.shdr) \in Seq(Other)
  BY ONLY <1>1, <1>2, <1>3
<1>5. <<Str("name", f.name), Str("type", f.type), Str("args", 0), Word8("addr"), Word8("size")>> \in Seq(Other)
  BY <1>4
<1>6. Opt(f.dynamic, <<Word8("dynamic")>>) \in Seq(Other)
  <2>1. <<Word8("dynamic")>> \in Seq(Other)
    BY <1>4
  <2> QED BY <2>1, OptType
<1> QED BY <1>4, <1>5, <1>6, ConcatProperties DEF ModuleRecords

LEMMA BeforeMapType ==
  ASSUME NEW s \in Shapes
  PROVE  BeforeMap(s) \in Seq(Other)
<1>1. s.name \in Nat /\ s.args \in Nat /\ 10 \in Nat
  BY EfiMapAssumption
<1>2. {"name", "type", "args", "addr", "size"} \subseteq Kinds
  BY DEF Kinds
<1>3. \A t \in Kinds, n \in Nat : Str(t, n) \in Other /\ Word8(t) \in Other
  BY OfKind
<1>4. /\ Str("name", s.name) \in Other /\ Str("type", 10) \in Other /\ Str("args", s.args) \in Other
      /\ Word8("addr") \in Other /\ Word8("size") \in Other
  BY ONLY <1>1, <1>2, <1>3
<1>5. /\ <<Str("name", s.name), Str("type", 10)>> \in Seq(Other) /\ <<Str("args", s.args)>> \in Seq(Other)
      /\ <<Word8("addr"), Word8("size")>> \in Seq(Other)
  BY <1>4
<1>6. Opt(s.args # 0, <<Str("args", s.args)>>) \in Seq(Other)
  BY <1>5, OptType
<1> QED BY <1>5, <1>6, ConcatProperties DEF BeforeMap

LEMMA AfterMapType ==
  ASSUME NEW s \in Shapes
  PROVE  AfterMap(s) \in Seq(Other)
<1>1. /\ s.smap \in Nat /\ s.elfhdr \in Nat /\ s.shdr \in Nat
      /\ s.modules \in Seq([name : Nat, type : Nat, dynamic : BOOLEAN, elfhdr : Nat, shdr : Nat])
  BY EfiMapAssumption
<1>2. 20 * s.smap \in Nat /\ 0 \in Nat /\ 4 \in Nat /\ 44 \in Nat /\ 33028 \in Nat
  BY <1>1
<1>3. {"fwhandle", "keybuf", "modulep", "kernend", "envp", "howto", "smap", "elfhdr", "dynamic", "esym",
       "ssym", "shdr", "font", "efifb"} \subseteq Kinds
  BY DEF Kinds
<1>4. \A t \in Kinds, n \in Nat :
        Record(t, n) \in Other /\ Sized(t, n) \in Seq(Other) /\ Word8(t) \in Other
  BY OfKind
<1>5. /\ Word8("fwhandle") \in Other /\ Word8("modulep") \in Other /\ Word8("kernend") \in Other
      /\ Word8("envp") \in Other /\ Word8("dynamic") \in Other /\ Word8("font") \in Other
      /\ Word8("esym") \in Other /\ Word8("ssym") \in Other
  BY ONLY <1>2, <1>3, <1>4
<1>11. /\ Record("keybuf", 33028) \in Other /\ Record("howto", 4) \in Other /\ Record("efifb", 44) \in Other
  <2>1. \A t \in Kinds : \A n \in Nat : Record(t, n) \in Other
    BY <1>4
  <2>2. "keybuf" \in Kinds /\ "howto" \in Kinds /\ "efifb" \in Kinds
    BY ONLY <1>3
  <2>3. \A n \in Nat :
          Record("keybuf", n) \in Other /\ Record("howto", n) \in Other /\ Record("efifb", n) \in Other
    BY ONLY <2>1, <2>2, Zenon
  <2> QED BY ONLY <1>2, <2>3
<1>12. Sized("smap", 20 * s.smap) \in Seq(Other)
  <2> DEFINE n == 20 * s.smap
  <2>1. n \in Nat /\ "smap" \in Kinds
    BY <1>2, <1>3
  <2> HIDE DEF n
  <2> QED BY ONLY <1>4, <2>1 DEF n
<1>13. Sized("elfhdr", s.elfhdr) \in Seq(Other) /\ Sized("shdr", s.shdr) \in Seq(Other)
  BY ONLY <1>1, <1>3, <1>4
<1>6. \A r \in Other : <<r>> \in Seq(Other)
  OBVIOUS
<1>7. <<Record("keybuf", 33028), Word8("modulep"), Word8("kernend")>> \in Seq(Other)
  BY <1>5, <1>11
<1>8. <<Word8("esym"), Word8("ssym")>> \in Seq(Other)
  BY <1>5
<1>9. \A c : /\ Opt(c, <<Word8("fwhandle")>>) \in Seq(Other) /\ Opt(c, <<Word8("envp")>>) \in Seq(Other)
             /\ Opt(c, <<Record("howto", 4)>>) \in Seq(Other) /\ Opt(c, <<Word8("dynamic")>>) \in Seq(Other)
             /\ Opt(c, <<Word8("esym"), Word8("ssym")>>) \in Seq(Other)
             /\ Opt(c, <<Word8("font")>>) \in Seq(Other) /\ Opt(c, <<Record("efifb", 44)>>) \in Seq(Other)
  <2>1. \A c : \A rs \in Seq(Other) : Opt(c, rs) \in Seq(Other)
    BY OptType
  <2>2. /\ <<Word8("fwhandle")>> \in Seq(Other) /\ <<Word8("envp")>> \in Seq(Other)
        /\ <<Record("howto", 4)>> \in Seq(Other) /\ <<Word8("dynamic")>> \in Seq(Other)
        /\ <<Word8("font")>> \in Seq(Other) /\ <<Record("efifb", 44)>> \in Seq(Other)
    BY ONLY <1>5, <1>11, <1>6
  <2> QED BY ONLY <1>8, <2>1, <2>2
<1>10. FlattenSeq([j \in DOMAIN s.modules |-> ModuleRecords(s.modules[j])]) \in Seq(Other)
  <2> DEFINE seqs == [j \in DOMAIN s.modules |-> ModuleRecords(s.modules[j])]
  <2>1. Len(s.modules) \in Nat /\ DOMAIN s.modules = 1 .. Len(s.modules)
    BY <1>1
  <2>2. \A j \in DOMAIN s.modules : ModuleRecords(s.modules[j]) \in Seq(Other)
    BY <1>1, <2>1, ElementOfSeq, ModuleRecordsType
  <2>3. seqs \in Seq(Seq(Other))
    BY <2>1, <2>2
  <2> HIDE DEF seqs
  <2>4. FlattenSeq(seqs) \in Seq(Other)
    BY <2>3, FlattenType
  <2> QED BY <2>4 DEF seqs
<1>14. \A x, y \in Seq(Other) : x \o y \in Seq(Other)
  BY ConcatProperties
<1> DEFINE a == Opt(host.efi /\ ~EmptyParams /\ host.params.systab # 0, <<Word8("fwhandle")>>)
                \o <<Record("keybuf", 33028), Word8("modulep"), Word8("kernend")>>
                \o Opt("envp" \in s.has, <<Word8("envp")>>)
                \o Opt("howto" \in s.has, <<Record("howto", 4)>>)
           b == a \o Sized("smap", 20 * s.smap) \o Sized("elfhdr", s.elfhdr)
                \o Opt("dynamic" \in s.has, <<Word8("dynamic")>>)
                \o Opt("symtab" \in s.has, <<Word8("esym"), Word8("ssym")>>)
<1>15. a \in Seq(Other)
  BY ONLY <1>7, <1>9, <1>14
<1>16. b \in Seq(Other)
  <2> HIDE DEF a
  <2> QED BY ONLY <1>9, <1>12, <1>13, <1>14, <1>15
<1>17. AfterMap(s) =
         b \o Sized("shdr", s.shdr)
           \o Opt("font" \in s.has, <<Word8("font")>>)
           \o Opt(host.efi /\ "fb" \in s.has, <<Record("efifb", 44)>>)
           \o FlattenSeq([j \in DOMAIN s.modules |-> ModuleRecords(s.modules[j])])
  BY DEF AfterMap
<1> HIDE DEF a, b
<1> DEFINE c == b \o Sized("shdr", s.shdr)
           d == c \o Opt("font" \in s.has, <<Word8("font")>>)
           e == d \o Opt(host.efi /\ "fb" \in s.has, <<Record("efifb", 44)>>)
           g == e \o FlattenSeq([j \in DOMAIN s.modules |-> ModuleRecords(s.modules[j])])
<1>18. AfterMap(s) = g
  BY ONLY <1>17, Zenon
<1>19. c \in Seq(Other)
  BY ONLY <1>13, <1>14, <1>16, Zenon
<1> HIDE DEF c
<1>20. d \in Seq(Other)
  <2>1. Opt("font" \in s.has, <<Word8("font")>>) \in Seq(Other)
    BY ONLY <1>9, Zenon
  <2> QED BY ONLY <1>14, <1>19, <2>1, Zenon
<1> HIDE DEF d
<1>21. e \in Seq(Other)
  <2>1. Opt(host.efi /\ "fb" \in s.has, <<Record("efifb", 44)>>) \in Seq(Other)
    BY ONLY <1>9, Zenon
  <2> QED BY ONLY <1>14, <1>20, <2>1, Zenon
<1> HIDE DEF e
<1>22. g \in Seq(Other)
  BY ONLY <1>10, <1>14, <1>21, Zenon
<1> QED BY ONLY <1>18, <1>22, Zenon

LEMMA HeaderType == Header \in Nat
BY DEF Header, AlignUp

\* Three lists and an element, one after the other.
LEMMA FourParts ==
  ASSUME NEW T, NEW a \in Seq(T), NEW b \in Seq(T), NEW c \in Seq(T), NEW x \in T,
         NEW l, l = a \o b \o c \o <<x>>
  PROVE  /\ l \in Seq(T) /\ Len(l) = Len(a) + Len(b) + Len(c) + 1 /\ l[Len(l)] = x
         /\ \A i \in 1 .. Len(l) :
              l[i] = IF i <= Len(a) THEN a[i]
                     ELSE IF i <= Len(a) + Len(b) THEN b[i - Len(a)]
                     ELSE IF i <= Len(a) + Len(b) + Len(c) THEN c[i - (Len(a) + Len(b))]
                     ELSE x
<1> DEFINE ab == a \o b
           abc == ab \o c
<1>1. Len(a) \in Nat /\ Len(b) \in Nat /\ Len(c) \in Nat /\ <<x>> \in Seq(T) /\ Len(<<x>>) = 1
  OBVIOUS
<1>0. \A p, q \in Seq(T) :
        /\ p \o q \in Seq(T) /\ Len(p \o q) = Len(p) + Len(q)
        /\ \A i \in 1 .. Len(p) + Len(q) : (p \o q)[i] = IF i <= Len(p) THEN p[i] ELSE q[i - Len(p)]
  BY ConcatProperties
<1>2. /\ ab \in Seq(T) /\ Len(ab) = Len(a) + Len(b)
      /\ \A i \in 1 .. Len(a) + Len(b) : ab[i] = IF i <= Len(a) THEN a[i] ELSE b[i - Len(a)]
  BY ConcatProperties
<1> HIDE DEF ab
<1>3. /\ abc \in Seq(T) /\ Len(abc) = Len(ab) + Len(c)
      /\ \A i \in 1 .. Len(ab) + Len(c) : abc[i] = IF i <= Len(ab) THEN ab[i] ELSE c[i - Len(ab)]
  <2>1. ab \in Seq(T) /\ c \in Seq(T)
    BY <1>2
  <2> QED BY ONLY <1>0, <2>1, Zenon
<1> HIDE DEF abc
<1>4. l = abc \o <<x>>
  BY DEF abc, ab
<1>5. /\ l \in Seq(T) /\ Len(l) = Len(abc) + 1
      /\ \A i \in 1 .. Len(abc) + 1 : l[i] = IF i <= Len(abc) THEN abc[i] ELSE <<x>>[i - Len(abc)]
  <2> DEFINE y == <<x>>
  <2>1. abc \in Seq(T) /\ y \in Seq(T) /\ Len(y) = 1 /\ l = abc \o y
    BY <1>1, <1>3, <1>4
  <2> HIDE DEF y
  <2>2. /\ abc \o y \in Seq(T) /\ Len(abc \o y) = Len(abc) + Len(y)
        /\ \A i \in 1 .. Len(abc) + Len(y) :
             (abc \o y)[i] = IF i <= Len(abc) THEN abc[i] ELSE y[i - Len(abc)]
    BY ONLY <1>0, <2>1, Zenon
  <2>3. /\ l \in Seq(T) /\ Len(l) = Len(abc) + 1
        /\ \A i \in 1 .. Len(abc) + 1 : l[i] = IF i <= Len(abc) THEN abc[i] ELSE y[i - Len(abc)]
    BY ONLY <2>1, <2>2, Zenon
  <2> QED BY <2>3 DEF y
<1>6. Len(abc) \in Nat /\ Len(ab) \in Nat
  BY <1>2, <1>3
<1>7. Len(l) = Len(a) + Len(b) + Len(c) + 1
  BY ONLY <1>1, <1>2, <1>3, <1>5
<1>8. \A i \in 1 .. Len(l) : l[i] = IF i <= Len(abc) THEN abc[i] ELSE x
  <2> SUFFICES ASSUME NEW i \in 1 .. Len(abc) + 1
               PROVE  l[i] = IF i <= Len(abc) THEN abc[i] ELSE x
    BY <1>5
  <2>1. i <= Len(abc) \/ (i - Len(abc) = 1 /\ ~(i <= Len(abc)))
    BY <1>6
  <2> QED BY <1>5, <2>1
<1>9. l[Len(l)] = x
  BY <1>5, <1>6, <1>8
<1>10. ASSUME NEW i \in 1 .. Len(l)
       PROVE  l[i] = IF i <= Len(a) THEN a[i]
                     ELSE IF i <= Len(a) + Len(b) THEN b[i - Len(a)]
                     ELSE IF i <= Len(a) + Len(b) + Len(c) THEN c[i - (Len(a) + Len(b))]
                     ELSE x
  <2>1. CASE i <= Len(a) + Len(b)
    <3>1. i \in 1 .. Len(ab) + Len(c) /\ i <= Len(abc) /\ i \in 1 .. Len(a) + Len(b) /\ i <= Len(ab)
      BY <1>1, <1>2, <1>3, <1>7, <2>1
    <3>2. l[i] = ab[i]
      BY <1>3, <1>8, <3>1
    <3> QED BY <1>2, <2>1, <3>1, <3>2
  <2>2. CASE ~(i <= Len(a) + Len(b))
    <3>1. ~(i <= Len(a)) /\ ~(i <= Len(ab))
      BY <1>1, <1>2, <1>7, <2>2
    <3>2. CASE i <= Len(a) + Len(b) + Len(c)
      <4>1. i <= Len(abc) /\ i \in 1 .. Len(ab) + Len(c)
        BY <1>1, <1>2, <1>3, <1>7, <3>2
      <4> QED BY <1>2, <1>3, <1>8, <2>2, <3>1, <3>2, <4>1
    <3>3. CASE ~(i <= Len(a) + Len(b) + Len(c))
      BY <1>2, <1>3, <1>8, <2>2, <3>1, <3>3
    <3> QED BY <3>2, <3>3
  <2> QED BY <2>1, <2>2
<1> QED BY <1>5, <1>7, <1>9, <1>10

\* The only record of the map is where it was written, before the end marker.
LEMMA MapRecordPlace ==
  ASSUME info.size \in Nat, NEW s \in Shapes, NEW l, l = AllRecords(s)
  PROVE  /\ Records(l) /\ Len(l) > 0 /\ l[Len(l)].type = "end"
         /\ Handed => \E e \in 1 .. Len(l) :
              /\ l[e].type = "efimap" /\ l[e].size = Header + info.size
              /\ \A i \in 1 .. Len(l) : l[i].type = "efimap" => i = e
              /\ \A i \in 1 .. e : l[i].type # "end"
<1> DEFINE a == BeforeMap(s)
           b == MapRecord
           c == AfterMap(s)
           x == End
           r == Record("efimap", Header + info.size)
<1>1. a \in Seq(Other) /\ c \in Seq(Other)
  BY BeforeMapType, AfterMapType
<1>2. Other \subseteq AnyRecord /\ \A o \in Other : o.type \notin {"efimap", "end"}
  BY DEF Other, AnyRecord, Kinds
<1>3. x \in AnyRecord /\ x.type = "end"
  BY DEF End, Record, AnyRecord
<1>4. Header + info.size \in Nat
  BY HeaderType
<1>5. r \in AnyRecord /\ r.type = "efimap" /\ r.size = Header + info.size
  BY <1>4 DEF Record, AnyRecord
<1>6. b \in Seq(AnyRecord) /\ (Handed => Len(b) = 1 /\ b[1] = r)
  <2> HIDE DEF r
  <2>1. b = IF Handed THEN <<r>> ELSE << >>
    BY DEF MapRecord, Opt, r
  <2>2. <<r>> \in Seq(AnyRecord) /\ Len(<<r>>) = 1 /\ <<r>>[1] = r /\ << >> \in Seq(AnyRecord)
    BY <1>5
  <2> HIDE DEF b
  <2> QED BY <2>1, <2>2
<1>7. l = a \o b \o c \o <<x>>
  BY DEF AllRecords
<1> HIDE DEF a, b, c, x, r
<1>8. a \in Seq(AnyRecord) /\ c \in Seq(AnyRecord)
  BY <1>1, <1>2
<1>9. /\ l \in Seq(AnyRecord) /\ Len(l) = Len(a) + Len(b) + Len(c) + 1 /\ l[Len(l)] = x
      /\ \A i \in 1 .. Len(l) :
           l[i] = IF i <= Len(a) THEN a[i]
                  ELSE IF i <= Len(a) + Len(b) THEN b[i - Len(a)]
                  ELSE IF i <= Len(a) + Len(b) + Len(c) THEN c[i - (Len(a) + Len(b))]
                  ELSE x
  BY <1>3, <1>6, <1>7, <1>8, FourParts
<1>10. Len(a) \in Nat /\ Len(b) \in Nat /\ Len(c) \in Nat
  BY <1>1, <1>6
<1>11. Records(l)
  <2>1. Len(l) \in Nat /\ DOMAIN l = 1 .. Len(l)
    BY <1>9
  <2>2. \A i \in 1 .. Len(l) : l[i] \in AnyRecord
    BY <1>9, ElementOfSeq
  <2> QED BY <2>1, <2>2 DEF Records, AnyRecord
<1>12. ASSUME Handed
       PROVE  \E e \in 1 .. Len(l) :
                /\ l[e].type = "efimap" /\ l[e].size = Header + info.size
                /\ \A i \in 1 .. Len(l) : l[i].type = "efimap" => i = e
                /\ \A i \in 1 .. e : l[i].type # "end"
  <2> DEFINE e == Len(a) + 1
  <2>1. Len(b) = 1 /\ b[1] = r
    BY <1>6, <1>12
  <2>2. e \in 1 .. Len(l) /\ e <= Len(a) + Len(b) /\ ~(e <= Len(a)) /\ e - Len(a) = 1
    BY <1>9, <1>10, <2>1
  <2>3. l[e] = r
    BY <1>9, <2>1, <2>2
  <2>4. ASSUME NEW i \in 1 .. Len(l), i <= Len(a) PROVE l[i] \in Other
    <3>1. l[i] = a[i] /\ i \in 1 .. Len(a)
      BY <1>9, <1>10, <2>4
    <3> QED BY <1>1, <3>1, ElementOfSeq
  <2>5. ASSUME NEW i \in 1 .. Len(l), i > e PROVE l[i] \in Other \/ l[i] = x
    <3>1. ~(i <= Len(a)) /\ ~(i <= Len(a) + Len(b))
      BY <1>10, <2>1, <2>5
    <3>2. CASE i <= Len(a) + Len(b) + Len(c)
      <4>1. i - (Len(a) + Len(b)) \in 1 .. Len(c)
        BY <1>10, <3>1, <3>2
      <4>2. l[i] = c[i - (Len(a) + Len(b))]
        BY <1>9, <3>1, <3>2
      <4> QED BY <1>1, <4>1, <4>2, ElementOfSeq
    <3>3. CASE ~(i <= Len(a) + Len(b) + Len(c))
      BY <1>9, <3>1, <3>3
    <3> QED BY <3>2, <3>3
  <2>6. \A i \in 1 .. Len(l) : l[i].type = "efimap" => i = e
    <3> SUFFICES ASSUME NEW i \in 1 .. Len(l), i # e PROVE l[i].type # "efimap"
      OBVIOUS
    <3>1. i <= Len(a) \/ i > e
      BY <1>10
    <3>2. l[i] \in Other \/ l[i] = x
      BY <2>4, <2>5, <3>1
    <3> QED BY <1>2, <1>3, <3>2
  <2>7. \A i \in 1 .. e : l[i].type # "end"
    <3> SUFFICES ASSUME NEW i \in 1 .. e PROVE l[i].type # "end"
      OBVIOUS
    <3>1. i \in 1 .. Len(l) /\ (i <= Len(a) \/ i = e)
      BY <1>10, <2>2
    <3>2. l[i] \in Other \/ l[i] = r
      BY <2>3, <2>4, <3>1
    <3> QED BY <1>2, <1>5, <3>2
  <2> QED BY <1>5, <2>2, <2>3, <2>6, <2>7
<1>13. Len(l) > 0
  BY <1>9, <1>10
<1> QED BY <1>3, <1>9, <1>11, <1>12, <1>13
---------------------------------------------------------------------------
(* Fetching.                                                               *)

\* The types, and that info has the fields of EfiMapInfo.
Typed == TypeOK /\ info = [phys |-> info.phys, size |-> info.size, desc |-> info.desc, rows |-> info.rows]

\* What depends on the host alone stays.
LEMMA HostStays ==
  ASSUME host' = host
  PROVE  SysfsRows' = SysfsRows /\ EmptyParams' = EmptyParams
BY DEF SysfsRows, EmptyParams

\* What depends on the map that was fetched, too.
LEMMA MapStays ==
  ASSUME host' = host, info' = info
  PROVE  /\ Handed' = Handed /\ DescriptorRows' = DescriptorRows /\ RowsToRead' = RowsToRead
         /\ MapRecord' = MapRecord
         /\ \A k : Written(k)' = Written(k)
BY DEF Handed, DescriptorRows, RowsToRead, MapRecord, Written

LEMMA FetchedStays ==
  ASSUME host' = host, info' = info, Fetched
  PROVE  Fetched'
BY HostStays, MapStays DEF Fetched

LEMMA RecordsStay ==
  ASSUME host' = host, info' = info
  PROVE  AllRecords(host.shape)' = AllRecords(host.shape)
<1>1. EmptyParams' = EmptyParams /\ MapRecord' = MapRecord
  BY HostStays, MapStays
<1> QED BY <1>1 DEF AllRecords, AfterMap

\* The entries sysfs shows, at most a table of them.
LEMMA SysfsType ==
  ASSUME host \in Hosts
  PROVE  /\ Len(SysfsRows) \in Nat /\ Len(SysfsRows) <= TableRows
         /\ DOMAIN SysfsRows = 1 .. Len(SysfsRows)
         /\ SysfsRows # <<>> => host.sysfs # None
<1>1. CASE host.sysfs = None
  BY <1>1, EfiMapAssumption DEF SysfsRows
<1>2. CASE host.sysfs # None
  <2> DEFINE good == Readable(host.sysfs)
             n == Least(TableRows, Cardinality(good))
  <2>1. host.sysfs \in Seq(BOOLEAN)
    BY <1>2, EfiMapAssumption DEF Hosts
  <2>2. good \subseteq 1 .. Len(host.sysfs) /\ Len(host.sysfs) \in Nat
    BY <2>1 DEF Readable
  <2>3. IsFiniteSet(good)
    <3>1. IsFiniteSet(1 .. Len(host.sysfs))
      BY <2>2, FS_Interval
    <3> HIDE DEF good
    <3> QED BY <2>2, <3>1, FS_Subset
  <2>4. Cardinality(good) \in Nat
    BY <2>3, FS_CardinalityType
  <2>5. n \in Nat /\ n <= TableRows
    <3> HIDE DEF good
    <3> QED BY <2>4, EfiMapAssumption DEF Least
  <2>6. SysfsRows = [k \in 1 .. n |-> Fw(Nth(good, k))]
    BY <1>2 DEF SysfsRows
  <2> HIDE DEF n
  <2> QED BY <1>2, <2>5, <2>6
<1> QED BY <1>1, <1>2

LEMMA FillDomain == \A list : DOMAIN Fill(list) = 1 .. TableRows
BY DEF Fill

\* The steps that fetch keep the types of info and know what they have fetched.
LEMMA FetchStep ==
  ASSUME Typed, FetchInv, Collect \/ ReadMem \/ ReadSysfs \/ ReadRuntime
  PROVE  Typed' /\ FetchInv'
<1>1. /\ host \in Hosts /\ info.phys \in Nat /\ info.size \in Nat /\ info.desc \in Nat
      /\ DOMAIN info.rows = 1 .. TableRows
      /\ info = [phys |-> info.phys, size |-> info.size, desc |-> info.desc, rows |-> info.rows]
      /\ off \in Nat /\ found \in Nat \cup {None}
      /\ job.src \in Nat /\ job.dst \in Nat /\ job.len \in Nat
  BY DEF Typed, TypeOK
<1>2. Fixed /\ host' = host
  BY DEF Collect, ReadMem, ReadSysfs, ReadRuntime, Fixed
<1>3. SysfsRows' = SysfsRows /\ EmptyParams' = EmptyParams
  BY <1>2, HostStays
<1>4. ASSUME NEW phys \in Nat, NEW size \in Nat, NEW desc \in Nat, NEW rows, DOMAIN rows = 1 .. TableRows,
             info' = [phys |-> phys, size |-> size, desc |-> desc, rows |-> rows],
             pc' \in {"mem", "sysfs", "runtime", "boot", "error"}
      PROVE  Typed'
  BY <1>1, <1>2, <1>4 DEF Typed, TypeOK, Fixed
<1>5. CASE Collect
  <2>1. pc = "collect" /\ info = NoInfo
    BY <1>5 DEF Collect, FetchInv
  <2>2. CASE ~host.efi
    <3>1. info' = info /\ pc' = "boot"
      BY <1>5, <2>2 DEF Collect
    <3>2. ~Handed'
      BY <1>2, <2>2 DEF Handed
    <3>3. Typed'
      BY <1>1, <1>4, <3>1
    <3> QED BY <3>1, <3>2, <3>3 DEF FetchInv, Fetched, Typed, TypeOK
  <2>3. CASE host.efi /\ EmptyParams
    <3>1. info' = info /\ pc' = "runtime"
      BY <1>5, <2>3 DEF Collect
    <3>2. Typed'
      BY <1>1, <1>4, <3>1
    <3> QED BY <3>1, <3>2 DEF FetchInv
  <2>4. CASE host.efi /\ ~EmptyParams
    <3> DEFINE p == host.params
    <3>1. p # None /\ p \in Firmware
      BY <1>1, <2>4 DEF EmptyParams, Hosts
    <3>2. p.memmap \in Nat /\ p.size \in Nat /\ p.desc \in Nat
      BY <3>1, EfiMapAssumption
    <3>3. info' = [phys |-> p.memmap, size |-> p.size, desc |-> p.desc, rows |-> NoRows]
      BY <1>5, <2>4 DEF Collect, NoInfo
    <3>4. pc' = IF p.memmap # 0 /\ p.size # 0 THEN "mem" ELSE "boot"
      BY <1>5, <2>4 DEF Collect
    <3>5. DOMAIN NoRows = 1 .. TableRows
      BY DEF NoRows
    <3>6. Typed'
      BY <1>4, <3>2, <3>3, <3>4, <3>5
    <3>7. CASE p.memmap # 0 /\ p.size # 0
      <4>1. /\ host'.efi /\ ~EmptyParams' /\ host'.params.memmap # 0
            /\ info'.phys = host'.params.memmap /\ info'.size = host'.params.size
            /\ info'.desc = host'.params.desc
        BY <1>2, <1>3, <2>4, <3>3, <3>7
      <4> QED BY <3>4, <3>6, <3>7, <4>1 DEF FetchInv
    <3>8. CASE ~(p.memmap # 0 /\ p.size # 0)
      <4>1. Handed' => p.size # 0
        BY <3>3 DEF Handed
      <4>2. Handed' => p.memmap = 0
        BY <3>8, <4>1
      <4>3. Handed' => /\ info'.phys = 0 /\ ~EmptyParams' /\ host'.params.memmap = 0
                       /\ info'.rows = NoRows
        BY <1>2, <1>3, <2>4, <3>3, <4>2
      <4>4. DOMAIN info'.rows = 1 .. TableRows
        BY <3>3, <3>5
      <4>5. Fetched'
        BY <4>3, <4>4 DEF Fetched
      <4> QED BY <3>4, <3>6, <3>8, <4>5 DEF FetchInv
    <3> QED BY <3>7, <3>8
  <2> QED BY <2>2, <2>3, <2>4
<1>6. CASE ReadMem
  <2>1. /\ pc = "mem" /\ host.efi /\ ~EmptyParams /\ host.params.memmap # 0
        /\ info.phys = host.params.memmap /\ info.size = host.params.size /\ info.desc = host.params.desc
    BY <1>6 DEF ReadMem, FetchInv
  <2>2. CASE RowsToRead = 0
    <3>1. info' = info /\ pc' = "runtime"
      BY <1>6, <2>2 DEF ReadMem
    <3>2. Typed'
      BY <1>1, <1>4, <3>1
    <3> QED BY <3>1, <3>2 DEF FetchInv
  <2>3. CASE RowsToRead # 0 /\ ~host.mem
    <3>1. info' = info /\ pc' = "sysfs"
      BY <1>6, <2>3 DEF ReadMem
    <3>2. Typed'
      BY <1>1, <1>4, <3>1
    <3> QED BY <1>2, <1>3, <2>1, <2>3, <3>1, <3>2 DEF FetchInv
  <2>4. CASE RowsToRead # 0 /\ host.mem
    <3> DEFINE rows == Fill([k \in 1 .. RowsToRead |-> Fw(k)])
    <3>1. info' = [info EXCEPT !.rows = rows] /\ pc' = "boot"
      BY <1>6, <2>4 DEF ReadMem
    <3>2. DOMAIN rows = 1 .. TableRows
      BY FillDomain
    <3> HIDE DEF rows
    <3>3. info' = [phys |-> info.phys, size |-> info.size, desc |-> info.desc, rows |-> rows]
      BY <1>1, <3>1
    <3>4. Typed'
      BY <1>1, <1>4, <3>1, <3>2, <3>3
    <3>5. /\ info'.phys # 0 /\ host'.params # None /\ info'.desc = host'.params.desc
          /\ host'.mem /\ info'.size = host'.params.size /\ info'.desc # 0
          /\ DOMAIN info'.rows = 1 .. TableRows /\ info'.rows = rows
      BY <1>2, <2>1, <2>4, <3>2, <3>3 DEF EmptyParams, RowsToRead
    <3>6. RowsToRead' = RowsToRead
      BY <3>3 DEF RowsToRead
    <3>7. info'.rows = Fill([k \in 1 .. RowsToRead' |-> Fw(k)])
      BY <3>5, <3>6 DEF rows
    <3>8. Fetched'
      BY <3>5, <3>7 DEF Fetched
    <3> QED BY <3>1, <3>4, <3>8 DEF FetchInv
  <2> QED BY <2>2, <2>3, <2>4
<1>7. CASE ReadSysfs
  <2>1. /\ pc = "sysfs" /\ host.efi /\ ~EmptyParams /\ host.params.memmap # 0 /\ ~host.mem
        /\ info.phys = host.params.memmap /\ info.size = host.params.size /\ info.desc = host.params.desc
    BY <1>7 DEF ReadSysfs, FetchInv
  <2>2. CASE SysfsRows = <<>>
    <3>1. info' = info /\ pc' = "runtime"
      BY <1>7, <2>2 DEF ReadSysfs
    <3>2. Typed'
      BY <1>1, <1>4, <3>1
    <3> QED BY <3>1, <3>2 DEF FetchInv
  <2>3. CASE SysfsRows # <<>>
    <3> DEFINE rows == Fill(SysfsRows)
               size == Len(SysfsRows) * info.desc
    <3>1. info' = [info EXCEPT !.rows = rows, !.size = size] /\ pc' = "boot"
      BY <1>7, <2>3 DEF ReadSysfs
    <3>2. DOMAIN rows = 1 .. TableRows
      BY FillDomain
    <3>3. size \in Nat
      <4> DEFINE n == Len(SysfsRows)
      <4>1. n \in Nat
        BY <1>1, SysfsType
      <4> HIDE DEF n
      <4>2. n * info.desc \in Nat
        BY <1>1, <4>1
      <4> QED BY <4>2 DEF n
    <3> HIDE DEF rows, size
    <3>4. info' = [phys |-> info.phys, size |-> size, desc |-> info.desc, rows |-> rows]
      BY <1>1, <3>1
    <3>5. Typed'
      BY <1>1, <1>4, <3>1, <3>2, <3>3, <3>4
    <3>6. /\ info'.phys # 0 /\ host'.params # None /\ info'.desc = host'.params.desc
          /\ ~host'.mem /\ DOMAIN info'.rows = 1 .. TableRows
          /\ info'.rows = rows /\ info'.size = size /\ info'.desc = info.desc
      BY <1>2, <2>1, <3>2, <3>4 DEF EmptyParams
    <3>7. SysfsRows' # <<>> /\ info'.size = Len(SysfsRows') * info'.desc /\ info'.rows = Fill(SysfsRows')
      BY <1>3, <2>3, <3>6 DEF rows, size
    <3>8. Fetched'
      BY <3>6, <3>7 DEF Fetched
    <3> QED BY <3>1, <3>5, <3>8 DEF FetchInv
  <2> QED BY <2>2, <2>3
<1>8. CASE ReadRuntime
  <2>1. \/ info' = info /\ pc' = "error"
        \/ \E rows, phys :
             /\ info' = Dropped(rows, phys) /\ pc' \in {"boot", "error"}
             /\ (rows = info.rows /\ phys = info.phys) \/ (rows = Fill(RuntimeRows) /\ phys = 0)
    BY <1>8 DEF ReadRuntime
  <2>2. CASE info' = info /\ pc' = "error"
    <3>1. Typed'
      BY <1>1, <1>4, <2>2
    <3> QED BY <2>2, <3>1 DEF FetchInv
  <2>3. CASE \E rows, phys :
               /\ info' = Dropped(rows, phys) /\ pc' \in {"boot", "error"}
               /\ (rows = info.rows /\ phys = info.phys) \/ (rows = Fill(RuntimeRows) /\ phys = 0)
    <3>1. PICK rows, phys :
             /\ info' = Dropped(rows, phys) /\ pc' \in {"boot", "error"}
             /\ (rows = info.rows /\ phys = info.phys) \/ (rows = Fill(RuntimeRows) /\ phys = 0)
      BY <2>3
    <3>2. phys \in Nat /\ DOMAIN rows = 1 .. TableRows
      BY <1>1, <3>1, FillDomain
    <3>3. info' = [phys |-> phys, size |-> 0, desc |-> 0, rows |-> rows]
      BY <3>1 DEF Dropped
    <3>4. Typed'
      BY <1>4, <3>1, <3>2, <3>3
    <3>5. ~Handed' /\ DOMAIN info'.rows = 1 .. TableRows
      BY <3>2, <3>3 DEF Handed
    <3> QED BY <3>1, <3>4, <3>5 DEF FetchInv, Fetched
  <2> QED BY <2>1, <2>2, <2>3
<1> QED BY <1>5, <1>6, <1>7, <1>8
---------------------------------------------------------------------------
(* Finding the record.                                                     *)

\* The records of a buffer begin apart from each other and end within it, and
\* the one of the map is RecordOf.
LEMMA BufferFacts ==
  ASSUME Typed, records = Placed(AllRecords(host.shape))
  PROVE  /\ Len(records) \in Nat \ {0} /\ DOMAIN records = 1 .. Len(records)
         /\ records[1].at = 0 /\ records[Len(records)].type = "end"
         /\ \A i \in 1 .. Len(records) :
              /\ records[i].at \in Nat /\ records[i].size \in Nat
              /\ \A j \in 1 .. Len(records) : records[j].at = records[i].at => j = i
              /\ records[i].at + 8 + records[i].size <= BufferEnd
              /\ i # Len(records) => records[i + 1].at = After(records[i].at, records[i].size)
         /\ Handed => \E e \in 1 .. Len(records) :
              /\ records[e].type = "efimap" /\ records[e].size = Header + info.size
              /\ RecordOf = records[e]
              /\ \A i \in 1 .. Len(records) : records[i].type = "efimap" => i = e
              /\ \A i \in 1 .. e : records[i].type # "end"
<1> DEFINE l == AllRecords(host.shape)
           N == Len(l)
<1>1. host.shape \in Shapes /\ info.size \in Nat
  BY DEF Typed, TypeOK, Hosts
<1>2. /\ Records(l) /\ N > 0 /\ l[N].type = "end"
      /\ Handed => \E e \in 1 .. N :
           /\ l[e].type = "efimap" /\ l[e].size = Header + info.size
           /\ \A i \in 1 .. N : l[i].type = "efimap" => i = e
           /\ \A i \in 1 .. e : l[i].type # "end"
  BY <1>1, MapRecordPlace
<1>3. records = Placed(l)
  OBVIOUS
<1> HIDE DEF l
<1>4. /\ DOMAIN records = 1 .. N /\ Len(records) = N
      /\ \A i \in 1 .. N :
           /\ records[i].type = l[i].type /\ records[i].size = l[i].size
           /\ records[i].at = IF i = 1 THEN 0 ELSE After(records[i - 1].at, records[i - 1].size)
  BY <1>2, <1>3, PlacedFacts
<1>5. /\ \A i \in 1 .. N : records[i].at \in Nat
      /\ \A i, j \in 1 .. N : i < j => records[i].at + 8 + l[i].size <= records[j].at
  BY <1>2, <1>3, PlacedInOrder
<1>6. N \in Nat \ {0} /\ 1 \in 1 .. N /\ N \in 1 .. N /\ \A i \in 1 .. N : l[i].size \in Nat
  BY <1>2 DEF Records
<1> HIDE DEF N
<1>7. records[1].at = 0 /\ records[N].type = "end"
  BY <1>2, <1>4, <1>6
<1>8. ASSUME NEW i \in 1 .. N, NEW j \in 1 .. N, records[j].at = records[i].at PROVE j = i
  <2>1. ~(i < j) /\ ~(j < i)
    BY <1>5, <1>6, <1>8
  <2> QED BY <1>6, <2>1
<1>9. ASSUME NEW i \in 1 .. N PROVE records[i].at + 8 + records[i].size <= BufferEnd
  <2>1. BufferEnd = records[N].at + 8 + l[N].size
    BY <1>4, <1>6 DEF BufferEnd
  <2>2. records[i].size = l[i].size /\ records[i].at \in Nat /\ records[N].at \in Nat
        /\ l[i].size \in Nat /\ l[N].size \in Nat
    BY <1>4, <1>5, <1>6
  <2>3. CASE i = N
    BY <2>1, <2>2, <2>3
  <2>4. CASE i # N
    <3>1. i < N
      BY <1>6, <2>4
    <3>2. records[i].at + 8 + l[i].size <= records[N].at
      BY <1>5, <1>6, <3>1
    <3> QED BY <2>1, <2>2, <3>2
  <2> QED BY <2>3, <2>4
<1>10. ASSUME NEW i \in 1 .. N, i # N PROVE records[i + 1].at = After(records[i].at, records[i].size)
  <2>1. i + 1 \in 1 .. N /\ i + 1 # 1 /\ (i + 1) - 1 = i
    BY <1>6, <1>10
  <2> QED BY <1>4, <2>1
<1>11. ASSUME Handed
       PROVE  \E e \in 1 .. N :
                /\ records[e].type = "efimap" /\ records[e].size = Header + info.size
                /\ RecordOf = records[e]
                /\ \A i \in 1 .. N : records[i].type = "efimap" => i = e
                /\ \A i \in 1 .. e : records[i].type # "end"
  <2>1. PICK e \in 1 .. N :
           /\ l[e].type = "efimap" /\ l[e].size = Header + info.size
           /\ \A i \in 1 .. N : l[i].type = "efimap" => i = e
           /\ \A i \in 1 .. e : l[i].type # "end"
    BY <1>2, <1>11
  <2>2. \A i \in 1 .. N : records[i].type = "efimap" <=> i = e
    BY <1>4, <2>1
  <2>3. (CHOOSE i \in DOMAIN records : records[i].type = "efimap") = e
    BY <1>4, <2>2
  <2>4. \A i \in 1 .. e : records[i].type # "end"
    <3>1. \A i \in 1 .. e : i \in 1 .. N
      BY <1>6
    <3> QED BY <1>4, <2>1, <3>1
  <2>5. RecordOf = records[e]
    BY ONLY <2>3, Zenon DEF RecordOf
  <2>6. records[e].type = "efimap" /\ records[e].size = Header + info.size
    BY <1>4, <2>1
  <2>7. \A i \in 1 .. N : records[i].type = "efimap" => i = e
    BY <2>2
  <2> QED BY ONLY <2>4, <2>5, <2>6, <2>7, Zenon
<1>12. Len(records) = N /\ DOMAIN records = 1 .. N
  BY <1>4
<1>13. /\ \A i \in 1 .. N : records[i].at \in Nat /\ records[i].size \in Nat
       /\ \A i \in 1 .. N : \A j \in 1 .. N : records[j].at = records[i].at => j = i
       /\ \A i \in 1 .. N : records[i].at + 8 + records[i].size <= BufferEnd
       /\ \A i \in 1 .. N : i # N => records[i + 1].at = After(records[i].at, records[i].size)
  <2>1. \A i \in 1 .. N : records[i].at \in Nat /\ records[i].size \in Nat
    BY <1>4, <1>5, <1>6
  <2> QED BY ONLY <2>1, <1>8, <1>9, <1>10, Zenon
<1>14. \A i \in 1 .. N :
        /\ records[i].at \in Nat /\ records[i].size \in Nat
        /\ \A j \in 1 .. N : records[j].at = records[i].at => j = i
        /\ records[i].at + 8 + records[i].size <= BufferEnd
        /\ i # N => records[i + 1].at = After(records[i].at, records[i].size)
  BY ONLY <1>13, Zenon
<1> QED BY ONLY <1>6, <1>7, <1>11, <1>12, <1>14, Zenon

\* The scan's offset is the start of a record, and the next one's is where the
\* scan goes.
LEMMA ScanFacts ==
  ASSUME Typed, FindInv, pc = "scan"
  PROVE  \E i \in 1 .. Len(records) :
           /\ off = records[i].at /\ Rec = records[i]
           /\ \A j \in 1 .. i - 1 : records[j].type # "efimap"
           /\ ScanEnds <=> records[i].type = "end"
           /\ records[i].type # "end" => i + 1 \in 1 .. Len(records) /\ NextOff = records[i + 1].at
<1> DEFINE N == Len(records)
<1>1. records = Placed(AllRecords(host.shape))
  BY DEF FindInv
<1>2. /\ N \in Nat \ {0} /\ DOMAIN records = 1 .. N /\ records[N].type = "end"
      /\ \A i \in 1 .. N :
           /\ records[i].at \in Nat /\ records[i].size \in Nat
           /\ \A j \in 1 .. N : records[j].at = records[i].at => j = i
           /\ records[i].at + 8 + records[i].size <= BufferEnd
           /\ i # N => records[i + 1].at = After(records[i].at, records[i].size)
  BY <1>1, BufferFacts
<1>3. PICK i \in 1 .. N : off = records[i].at /\ \A j \in 1 .. i - 1 : records[j].type # "efimap"
  BY <1>2 DEF FindInv
<1>0. BufferEnd = records[N].at + 8 + records[N].size
  BY ONLY Zenon DEF BufferEnd
<1>00. N = Len(records)
  OBVIOUS
<1> HIDE DEF N
<1>4. AtOff = {i}
  BY <1>2, <1>3 DEF AtOff
<1>5. Rec = records[i]
  BY <1>4 DEF Rec
<1>6. BufferEnd \in Int
  <2>1. N \in 1 .. N
    BY <1>2
  <2> QED BY <1>0, <1>2, <2>1
<1>7. ~(off + 8 + Rec.size > BufferEnd)
  BY <1>2, <1>3, <1>5, <1>6
<1>8. ScanEnds <=> records[i].type = "end"
  BY <1>4, <1>5, <1>7 DEF ScanEnds
<1>9. ASSUME records[i].type # "end" PROVE i + 1 \in 1 .. N /\ NextOff = records[i + 1].at
  <2>0. N \in Nat \ {0} /\ records[N].type = "end" /\ i \in 1 .. N /\ records[i].type # "end"
    BY <1>2, <1>9
  <2>1. i # N /\ i + 1 \in 1 .. N
    BY ONLY <2>0
  <2>2. NextOff = After(records[i].at, records[i].size)
    BY <1>3, <1>5 DEF NextOff, After
  <2> QED BY <1>2, <2>1, <2>2
<1> QED BY ONLY <1>00, <1>3, <1>5, <1>8, <1>9, Zenon

\* Where the rows are, and what is copied, while nothing that says so changes.
LEMMA PlaceStays ==
  ASSUME host' = host, info' = info, records' = records
  PROVE  /\ RecordOf' = RecordOf /\ RowsAt' = RowsAt
         /\ AllRecords(host.shape)' = AllRecords(host.shape)
<1>1. RecordOf' = RecordOf
  BY DEF RecordOf
<1> QED BY <1>1, RecordsStay DEF RowsAt

LEMMA BuildStep ==
  ASSUME Typed, FindInv, Build
  PROVE  Typed' /\ FindInv'
<1>1. /\ UNCHANGED <<host, info, off, found, job, seen>> /\ pc = "boot" /\ off = 0
      /\ pc' \in {"panic", "scan"} /\ (pc' = "scan" => records' = Placed(AllRecords(host.shape)))
  BY DEF Build, FindInv
<1>2. Typed'
  BY <1>1 DEF Typed, TypeOK
<1>3. CASE pc' = "panic"
  BY <1>2, <1>3 DEF FindInv
<1>4. CASE pc' = "scan"
  <2>1. AllRecords(host.shape)' = AllRecords(host.shape)
    BY <1>1, RecordsStay
  <2>2. records' = Placed(AllRecords(host.shape)')
    BY <1>1, <1>4, <2>1
  <2>3. /\ Len(records') \in Nat \ {0} /\ DOMAIN records' = 1 .. Len(records') /\ records'[1].at = 0
    <3> DEFINE l == AllRecords(host.shape)
    <3>1. host.shape \in Shapes /\ info.size \in Nat
      BY DEF Typed, TypeOK, Hosts
    <3>2. Records(l) /\ Len(l) > 0
      BY <3>1, MapRecordPlace
    <3>3. records' = Placed(l)
      BY <1>1, <1>4
    <3> HIDE DEF l
    <3>4. Len(l) \in Nat \ {0} /\ 1 \in 1 .. Len(l)
      BY <3>2 DEF Records
    <3>5. /\ DOMAIN Placed(l) = 1 .. Len(l) /\ Len(Placed(l)) = Len(l) /\ Placed(l)[1].at = 0
      BY <3>2, <3>4, PlacedFacts
    <3> QED BY <3>3, <3>4, <3>5
  <2>4. 1 \in DOMAIN records' /\ off' = records'[1].at /\ \A j \in 1 .. 1 - 1 : records'[j].type # "efimap"
    BY <1>1, <2>3
  <2> QED BY <1>2, <1>4, <2>2, <2>4 DEF FindInv
<1> QED BY <1>1, <1>3, <1>4

LEMMA ScanStep ==
  ASSUME Typed, FindInv, Scan
  PROVE  Typed' /\ FindInv'
<1>1. pc = "scan" /\ UNCHANGED <<host, info, records, job, seen>>
  BY DEF Scan
<1>2. records = Placed(AllRecords(host.shape))
  BY <1>1 DEF FindInv
<1>3. PICK i \in 1 .. Len(records) :
         /\ off = records[i].at /\ Rec = records[i]
         /\ \A j \in 1 .. i - 1 : records[j].type # "efimap"
         /\ ScanEnds <=> records[i].type = "end"
         /\ records[i].type # "end" => i + 1 \in 1 .. Len(records) /\ NextOff = records[i + 1].at
  BY <1>1, ScanFacts
<1>4. /\ Len(records) \in Nat \ {0} /\ DOMAIN records = 1 .. Len(records)
      /\ \A j \in 1 .. Len(records) : records[j].at \in Nat
  BY <1>2, BufferFacts
<1>5. Handed => \E e \in 1 .. Len(records) :
        /\ records[e].type = "efimap" /\ RecordOf = records[e]
        /\ \A j \in 1 .. Len(records) : records[j].type = "efimap" => j = e
        /\ \A j \in 1 .. e : records[j].type # "end"
  BY <1>2, BufferFacts
<1>6. /\ Handed' = Handed /\ RecordOf' = RecordOf
      /\ records' = Placed(AllRecords(host.shape)')
  BY <1>1, <1>2, MapStays, PlaceStays
<1>7. CASE ScanEnds
  <2>1. pc' = "place" /\ UNCHANGED <<off, found>>
    BY <1>7 DEF Scan
  <2>2. ~Handed
    <3> SUFFICES ASSUME Handed PROVE FALSE
      OBVIOUS
    <3>1. PICK e \in 1 .. Len(records) :
             records[e].type = "efimap" /\ \A j \in 1 .. e : records[j].type # "end"
      BY <1>5
    <3>2. ~(e < i)
      BY <1>3, <1>4, <3>1
    <3>3. i \in 1 .. e
      BY <1>4, <3>2
    <3> QED BY <1>3, <1>7, <3>1, <3>3
  <2>3. Typed'
    BY <1>1, <2>1 DEF Typed, TypeOK
  <2> QED BY <1>6, <2>1, <2>2, <2>3 DEF FindInv
<1>8. CASE ~ScanEnds /\ Rec.type = "efimap"
  <2>1. pc' = "place" /\ found' = off + 8 /\ off' = off
    BY <1>8 DEF Scan
  <2>2. off \in Nat /\ off + 8 \in Nat
    BY <1>3, <1>4
  <2>3. Typed'
    BY <1>1, <2>1, <2>2 DEF Typed, TypeOK
  <2>4. Handed => RecordOf = records[i]
    BY <1>3, <1>5, <1>8
  <2>5. Handed' => found' = RecordOf'.at + 8
    BY <1>3, <1>6, <2>1, <2>4
  <2> QED BY <1>6, <2>1, <2>3, <2>5 DEF FindInv
<1>9. CASE ~ScanEnds /\ Rec.type # "efimap"
  <2>1. pc' = pc /\ off' = NextOff /\ found' = found
    BY <1>9 DEF Scan
  <2>2. i + 1 \in 1 .. Len(records) /\ off' = records[i + 1].at
    BY <1>3, <1>9, <2>1
  <2>3. Typed'
    BY <1>1, <1>4, <2>1, <2>2 DEF Typed, TypeOK
  <2>4. \A j \in 1 .. (i + 1) - 1 : records[j].type # "efimap"
    <3> SUFFICES ASSUME NEW j \in 1 .. i PROVE records[j].type # "efimap"
      BY <1>4
    <3>1. j \in 1 .. i - 1 \/ j = i
      BY <1>4
    <3> QED BY <1>3, <1>9, <3>1
  <2>5. \E j \in DOMAIN records' : off' = records'[j].at /\ \A h \in 1 .. j - 1 : records'[h].type # "efimap"
    BY <1>1, <1>4, <2>2, <2>4
  <2> QED BY <1>1, <1>6, <2>1, <2>3, <2>5 DEF FindInv
<1> QED BY <1>7, <1>8, <1>9
---------------------------------------------------------------------------
(* Copying over it.                                                        *)

\* What the trampoline copies, and what it leaves, depends on these.
LEMMA CopyStays ==
  ASSUME host' = host, info' = info, records' = records, job' = job
  PROVE  /\ Copies' = Copies
         /\ \A k : AfterCopy(k)' = AfterCopy(k)
<1>1. RowsAt' = RowsAt /\ \A k : Written(k)' = Written(k)
  BY PlaceStays, MapStays
<1> QED BY <1>1 DEF Copies, AfterCopy

\* Where the record of the map is, as numbers.
LEMMA MapRecordFacts ==
  ASSUME Typed, records = Placed(AllRecords(host.shape)), Handed
  PROVE  /\ RecordOf.at \in Nat /\ RecordOf.size = Header + info.size
         /\ RecordOf.at + 8 + RecordOf.size <= BufferEnd
<1>1. PICK e \in 1 .. Len(records) : records[e].size = Header + info.size /\ RecordOf = records[e]
  BY BufferFacts
<1>2. records[e].at \in Nat /\ records[e].at + 8 + records[e].size <= BufferEnd
  BY BufferFacts
<1> QED BY <1>1, <1>2

LEMMA PlaceStep ==
  ASSUME Typed, FindInv, Place
  PROVE  Typed' /\ FindInv' /\ JobInv'
<1>1. /\ pc = "place" /\ pc' = "copy" /\ UNCHANGED <<host, info, records, off, found, seen>>
      /\ records = Placed(AllRecords(host.shape))
  BY DEF Place, FindInv
<1>2. /\ info.phys \in Nat /\ info.size \in Nat /\ MetadataPhys \in Nat /\ None \notin Nat /\ Header \in Nat
      /\ NoJob.src = 0 /\ NoJob.dst = 0 /\ NoJob.len = 0
  BY HeaderType, EfiMapAssumption DEF Typed, TypeOK, NoJob
<1>3. Handed' = Handed /\ RecordOf' = RecordOf /\ RowsAt' = RowsAt /\ AllRecords(host.shape)' = AllRecords(host.shape)
  BY <1>1, MapStays, PlaceStays
<1>4. FindInv'
  <2>1. Handed' => found' = RecordOf'.at + 8
    BY <1>1, <1>3 DEF FindInv
  <2>2. records' = Placed(AllRecords(host.shape)')
    BY <1>1, <1>3
  <2> QED BY <1>1, <2>1, <2>2 DEF FindInv
<1>5. CASE Handed /\ info.phys # 0
  <2>1. RecordOf.at \in Nat /\ found = RecordOf.at + 8
    BY <1>1, <1>5, MapRecordFacts DEF FindInv
  <2>2. found # None
    BY <1>2, <2>1
  <2>3. CopyTo = RowsAt /\ CopyTo \in Nat
    BY <1>2, <2>1 DEF CopyTo, RowsAt
  <2>4. job' = [src |-> info.phys, dst |-> RowsAt, len |-> info.size]
    BY <1>5, <2>2, <2>3 DEF Place
  <2>5. Typed'
    BY <1>1, <1>2, <2>3, <2>4 DEF Typed, TypeOK
  <2>6. JobInv'
    BY <1>1, <1>3, <1>5, <2>4 DEF JobInv
  <2> QED BY <1>4, <2>5, <2>6
<1>6. CASE ~Handed \/ info.phys = 0
  <2>1. job' = NoJob
    BY <1>6 DEF Place
  <2>2. Typed'
    BY <1>1, <1>2, <2>1 DEF Typed, TypeOK
  <2>3. JobInv'
    <3>1. job' = NoJob'
      BY <2>1 DEF NoJob
    <3> QED BY <1>1, <1>3, <1>6, <3>1 DEF JobInv
  <2> QED BY <1>4, <2>2, <2>3
<1> QED BY <1>5, <1>6

LEMMA CopyStep ==
  ASSUME Typed, FindInv, JobInv, Copy
  PROVE  Typed' /\ FindInv' /\ JobInv' /\ SeenInv'
<1>1. pc = "copy" /\ pc' = "booted" /\ UNCHANGED <<host, info, records, off, found, job>>
  BY DEF Copy
<1>2. Typed'
  BY <1>1 DEF Typed, TypeOK
<1>3. /\ Handed' = Handed /\ DescriptorRows' = DescriptorRows /\ \A k : Written(k)' = Written(k)
      /\ RecordOf' = RecordOf /\ RowsAt' = RowsAt /\ AllRecords(host.shape)' = AllRecords(host.shape)
      /\ Copies' = Copies /\ \A k : AfterCopy(k)' = AfterCopy(k)
  BY <1>1, MapStays, PlaceStays, CopyStays
<1>4. FindInv'
  <2>1. records' = Placed(AllRecords(host.shape)')
    BY <1>1, <1>3 DEF FindInv
  <2>2. Handed' => found' = RecordOf'.at + 8
    BY <1>1, <1>3 DEF FindInv
  <2> QED BY <1>1, <2>1, <2>2 DEF FindInv
<1>5. JobInv'
  BY <1>1, <1>3 DEF JobInv, NoJob
<1>6. SeenInv'
  <2>1. seen' = IF ~Handed THEN <<>>
                ELSE [k \in 1 .. DescriptorRows |-> IF Copies THEN AfterCopy(k) ELSE Written(k)]
    BY DEF Copy
  <2>2. [k \in 1 .. DescriptorRows |-> IF Copies THEN AfterCopy(k) ELSE Written(k)]
        = [k \in 1 .. DescriptorRows' |-> IF Copies' THEN AfterCopy(k)' ELSE Written(k)']
    BY <1>3
  <2> QED BY <1>1, <1>3, <2>1, <2>2 DEF SeenInv
<1> QED BY <1>2, <1>4, <1>5, <1>6
---------------------------------------------------------------------------
(* The inductive invariant.                                                *)

Inv == Typed /\ FetchInv /\ FindInv /\ JobInv /\ SeenInv

LEMMA InvInit == Init => Inv
<1> SUFFICES ASSUME Init PROVE Inv
  OBVIOUS
<1>1. /\ host \in Hosts /\ pc = "collect" /\ info = NoInfo /\ off = 0 /\ found = None /\ job = NoJob
  BY DEF Init
<1>2. Typed
  BY <1>1 DEF Typed, TypeOK, NoInfo, NoJob, NoRows
<1> QED BY <1>1, <1>2 DEF Inv, FetchInv, FindInv, JobInv, SeenInv

LEMMA InvNext == Inv /\ [Next]_vars => Inv'
<1> SUFFICES ASSUME Inv, [Next]_vars PROVE Inv'
  OBVIOUS
<1>1. Typed /\ FetchInv /\ FindInv /\ JobInv /\ SeenInv
  BY DEF Inv
<1>2. CASE Collect \/ ReadMem \/ ReadSysfs \/ ReadRuntime
  <2>1. Typed' /\ FetchInv'
    BY <1>1, <1>2, FetchStep
  <2>2. /\ pc \in {"collect", "mem", "sysfs", "runtime"} /\ off' = off
        /\ pc' \in {"mem", "sysfs", "runtime", "boot", "error"}
    BY <1>2 DEF Collect, ReadMem, ReadSysfs, ReadRuntime, Fixed
  <2>3. FindInv' /\ JobInv' /\ SeenInv'
    BY <1>1, <2>2 DEF FindInv, JobInv, SeenInv
  <2> QED BY <2>1, <2>3 DEF Inv
<1>3. ASSUME host' = host, info' = info, pc \in {"boot", "scan", "place", "copy", "booted"},
             pc' \in {"panic", "scan", "place", "copy", "booted"}
      PROVE  FetchInv'
  <2>1. Fetched'
    BY <1>1, <1>3, FetchedStays DEF FetchInv
  <2> QED BY <1>3, <2>1 DEF FetchInv
<1>4. CASE Build
  <2>1. host' = host /\ info' = info /\ pc = "boot" /\ pc' \in {"panic", "scan"}
    BY <1>4 DEF Build
  <2>2. FetchInv' /\ JobInv' /\ SeenInv'
    BY <1>3, <2>1 DEF JobInv, SeenInv
  <2> QED BY <1>1, <1>4, <2>2, BuildStep DEF Inv
<1>5. CASE Scan
  <2>1. host' = host /\ info' = info /\ pc = "scan" /\ pc' \in {"scan", "place"}
    BY <1>5 DEF Scan
  <2>2. FetchInv' /\ JobInv' /\ SeenInv'
    BY <1>3, <2>1 DEF JobInv, SeenInv
  <2> QED BY <1>1, <1>5, <2>2, ScanStep DEF Inv
<1>6. CASE Place
  <2>1. host' = host /\ info' = info /\ pc = "place" /\ pc' = "copy"
    BY <1>6 DEF Place
  <2>2. FetchInv' /\ SeenInv'
    BY <1>3, <2>1 DEF SeenInv
  <2> QED BY <1>1, <1>6, <2>2, PlaceStep DEF Inv
<1>7. CASE Copy
  <2>1. host' = host /\ info' = info /\ pc = "copy" /\ pc' = "booted"
    BY <1>7 DEF Copy
  <2>2. FetchInv'
    BY <1>3, <2>1
  <2> QED BY <1>1, <1>7, <2>2, CopyStep DEF Inv
<1>8. CASE UNCHANGED vars
  <2>1. /\ host' = host /\ pc' = pc /\ info' = info /\ records' = records /\ off' = off
        /\ found' = found /\ job' = job /\ seen' = seen
    BY <1>8 DEF vars
  <2>2. /\ EmptyParams' = EmptyParams /\ Handed' = Handed /\ DescriptorRows' = DescriptorRows
        /\ \A k : Written(k)' = Written(k)
        /\ RecordOf' = RecordOf /\ RowsAt' = RowsAt /\ AllRecords(host.shape)' = AllRecords(host.shape)
        /\ Copies' = Copies /\ \A k : AfterCopy(k)' = AfterCopy(k)
    BY <2>1, HostStays, MapStays, PlaceStays, CopyStays
  <2>3. Typed'
    BY <1>1, <2>1 DEF Typed, TypeOK
  <2>4. FetchInv'
    BY <1>1, <2>1, <2>2, FetchedStays DEF FetchInv, NoInfo, NoRows, Zero
  <2>5. FindInv'
    <3>1. pc' \in {"scan", "place", "copy", "booted"} => records' = Placed(AllRecords(host.shape)')
      BY <1>1, <2>1, <2>2 DEF FindInv
    <3>2. pc' \in {"place", "copy", "booted"} /\ Handed' => found' = RecordOf'.at + 8
      BY <1>1, <2>1, <2>2 DEF FindInv
    <3> QED BY <1>1, <2>1, <3>1, <3>2 DEF FindInv
  <2>6. JobInv'
    BY <1>1, <2>1, <2>2 DEF JobInv, NoJob
  <2>7. SeenInv'
    <3>1. [k \in 1 .. DescriptorRows |-> IF Copies THEN AfterCopy(k) ELSE Written(k)]
          = [k \in 1 .. DescriptorRows' |-> IF Copies' THEN AfterCopy(k)' ELSE Written(k)']
      BY <2>2
    <3> QED BY <1>1, <2>1, <2>2, <3>1 DEF SeenInv
  <2> QED BY <2>3, <2>4, <2>5, <2>6, <2>7 DEF Inv
<1> QED BY <1>2, <1>4, <1>5, <1>6, <1>7, <1>8 DEF Next

LEMMA Invariance == Spec => []Inv
<1>1. Inv /\ UNCHANGED vars => Inv'
  BY InvNext
<1> QED BY InvInit, InvNext, PTL DEF Spec

\* Whatever the host shows, info, the scan and the job are numbers and the table
\* keeps its length.
THEOREM EfiTypes == Spec => []TypeOK
<1>1. Inv => TypeOK
  BY DEF Inv, Typed
<1> QED BY Invariance, <1>1, PTL

\* boot() finds the record build_modulep wrote, and what the trampoline copies
\* fills the bytes of that record after its header, whatever the other records
\* are: the writer, find_metadata_offset and boot() pad alike.
THEOREM CopyLandsInside == Spec => []CopyInside
<1>1. ASSUME Inv, pc \in {"copy", "booted"}, Handed, info.phys # 0
      PROVE  /\ job.dst = RowsAt
             /\ job.dst + job.len = MetadataPhys + RecordOf.at + 8 + RecordOf.size
             /\ job.dst + job.len <= MetadataPhys + BufferEnd
  <2>1. Typed /\ records = Placed(AllRecords(host.shape)) /\ job.dst = RowsAt /\ job.len = info.size
    BY <1>1 DEF Inv, FindInv, JobInv
  <2>2. /\ RecordOf.at \in Nat /\ RecordOf.size = Header + info.size
        /\ RecordOf.at + 8 + RecordOf.size <= BufferEnd
    BY <1>1, <2>1, MapRecordFacts
  <2>3. info.size \in Nat /\ Header \in Nat /\ MetadataPhys \in Nat /\ BufferEnd \in Int
    <3>1. BufferEnd = records[Len(records)].at + 8 + records[Len(records)].size
      BY ONLY Zenon DEF BufferEnd
    <3>2. Len(records) \in 1 .. Len(records) /\ records[Len(records)].at \in Nat /\ records[Len(records)].size \in Nat
      <4>1. Len(records) \in Nat \ {0} /\ \A i \in 1 .. Len(records) : records[i].at \in Nat /\ records[i].size \in Nat
        BY <2>1, BufferFacts
      <4>2. Len(records) \in 1 .. Len(records)
        BY <4>1
      <4> QED BY <4>1, <4>2
    <3> QED BY <2>1, <3>1, <3>2, HeaderType, EfiMapAssumption DEF Typed, TypeOK
  <2> HIDE DEF CopyInside
  <2>4. job.dst + job.len = MetadataPhys + RecordOf.at + 8 + RecordOf.size
    BY <2>1, <2>2, <2>3 DEF RowsAt
  <2>5. job.dst + job.len <= MetadataPhys + BufferEnd
    BY <2>2, <2>3, <2>4
  <2> QED BY <2>1, <2>4, <2>5
<1>2. ASSUME Inv, pc \in {"copy", "booted"}, ~Handed \/ info.phys = 0 PROVE job = NoJob
  BY <1>2 DEF Inv, JobInv
<1>3. Inv => CopyInside
  BY <1>1, <1>2 DEF CopyInside
<1> QED BY Invariance, <1>3, PTL
---------------------------------------------------------------------------
(* What the kernel reads.                                                  *)

\* A row lies whole in the bytes of a map that has room for it.
LEMMA RowInMap ==
  ASSUME NEW size \in Nat, NEW desc \in Nat \ {0}, NEW k \in 1 .. size \div desc
  PROVE  /\ (k - 1) * desc >= 0 /\ (k - 1) * desc + desc <= size
         /\ ((k - 1) * desc) % desc = 0 /\ ((k - 1) * desc) \div desc + 1 = k
<1> DEFINE n == size \div desc
<1>1. n \in Nat /\ n * desc <= size
  OBVIOUS
<1> HIDE DEF n
<1>2. k \in Nat /\ k - 1 \in Nat /\ k <= n
  BY <1>1 DEF n
<1>3. (k - 1) * desc \in Nat /\ (k - 1) * desc + desc = k * desc /\ k * desc <= n * desc
  BY <1>1, <1>2
<1>4. ((k - 1) * desc) % desc = 0 /\ ((k - 1) * desc) \div desc = k - 1
  BY <1>2
<1> QED BY <1>1, <1>2, <1>3, <1>4

\* The copy leaves the firmware's own descriptors.
LEMMA CopiedRows ==
  ASSUME Inv, pc = "booted", Handed, info.phys # 0, NEW k \in 1 .. DescriptorRows
  PROVE  AfterCopy(k) = Fw(k)
<1>1. Typed /\ records = Placed(AllRecords(host.shape)) /\ job.dst = RowsAt /\ job.len = info.size
  BY DEF Inv, FindInv, JobInv
<1>2. info.size \in Nat /\ info.desc \in Nat \ {0} /\ k \in 1 .. info.size \div info.desc
  BY <1>1 DEF Typed, TypeOK, DescriptorRows
<1>3. RowsAt \in Nat
  <2>1. RecordOf.at \in Nat
    BY <1>1, MapRecordFacts
  <2> QED BY <2>1, HeaderType, EfiMapAssumption DEF RowsAt
<1> DEFINE d == (k - 1) * info.desc
<1>4. d \in Int /\ d >= 0 /\ d + info.desc <= info.size /\ d % info.desc = 0 /\ d \div info.desc + 1 = k
  <2>1. \A size \in Nat : \A desc \in Nat \ {0} : \A j \in 1 .. size \div desc :
          /\ (j - 1) * desc >= 0 /\ (j - 1) * desc + desc <= size
          /\ ((j - 1) * desc) % desc = 0 /\ ((j - 1) * desc) \div desc + 1 = j
    BY RowInMap
  <2>2. d >= 0 /\ d + info.desc <= info.size /\ d % info.desc = 0 /\ d \div info.desc + 1 = k
    BY ONLY <1>2, <2>1, Zenon DEF d
  <2>3. k \in Nat /\ d \in Int
    BY <1>2
  <2> QED BY <2>2, <2>3
<1> HIDE DEF d
<1>5. (RowsAt + d) - job.dst = d
  BY <1>1, <1>3, <1>4
<1>6. AfterCopy(k) =
        IF d + info.desc <= 0 \/ d >= job.len THEN Written(k)
        ELSE IF d >= 0 /\ d % info.desc = 0 /\ d + info.desc <= job.len THEN Fw(d \div info.desc + 1)
        ELSE <<"torn">>
  <2>1. AfterCopy(k) =
          LET a == RowsAt + (k - 1) * info.desc
              e == a - job.dst
          IN IF e + info.desc <= 0 \/ e >= job.len THEN Written(k)
             ELSE IF e >= 0 /\ e % info.desc = 0 /\ e + info.desc <= job.len THEN Fw(e \div info.desc + 1)
             ELSE <<"torn">>
    BY ONLY Zenon DEF AfterCopy
  <2> QED BY ONLY <1>5, <2>1, Zenon DEF d
<1>7. ~(d + info.desc <= 0 \/ d >= job.len)
  BY <1>1, <1>2, <1>4
<1> QED BY <1>1, <1>4, <1>6, <1>7

\* Without the copy the kernel reads the table.
LEMMA WrittenRows ==
  ASSUME Inv, pc = "booted", Handed, info.phys # 0, NEW k \in 1 .. DescriptorRows
  PROVE  \/ Written(k) = Fw(k)
         \/ k > TableRows /\ Written(k) = Zero
         \/ ~host.mem /\ k \in DOMAIN SysfsRows /\ Written(k) = SysfsRows[k]
<1>1. Typed /\ Fetched
  BY DEF Inv, FetchInv
<1>2. /\ info.size \in Nat /\ info.desc \in Nat \ {0} /\ DescriptorRows = info.size \div info.desc
      /\ host \in Hosts /\ TableRows \in Nat
  BY <1>1, EfiMapAssumption DEF Typed, TypeOK, DescriptorRows
<1>3. k \in Nat \ {0} /\ DescriptorRows \in Nat /\ k <= DescriptorRows
  BY <1>2
<1>4. CASE k > TableRows
  BY <1>2, <1>3, <1>4 DEF Written
<1>5. CASE k <= TableRows
  <2>1. k \in 1 .. TableRows /\ Written(k) = info.rows[k]
    BY <1>2, <1>3, <1>5 DEF Written
  <2>2. CASE host.mem
    <3>1. info.rows = Fill([j \in 1 .. RowsToRead |-> Fw(j)])
      BY <1>1, <2>2 DEF Fetched
    <3>2. RowsToRead \in Nat /\ k \in 1 .. RowsToRead
      BY <1>2, <1>3, <2>1 DEF RowsToRead, Least, DescriptorRows
    <3> DEFINE list == [j \in 1 .. RowsToRead |-> Fw(j)]
    <3>3. Len(list) = RowsToRead /\ list[k] = Fw(k)
      BY <3>2
    <3> HIDE DEF list
    <3>4. Fill(list)[k] = list[k]
      BY <2>1, <3>2, <3>3 DEF Fill
    <3> QED BY <2>1, <3>1, <3>3, <3>4 DEF list
  <2>3. CASE ~host.mem
    <3>1. info.rows = Fill(SysfsRows) /\ info.size = Len(SysfsRows) * info.desc
      BY <1>1, <2>3 DEF Fetched
    <3>2. Len(SysfsRows) \in Nat /\ DOMAIN SysfsRows = 1 .. Len(SysfsRows)
      BY <1>2, SysfsType
    <3>3. info.size \div info.desc = Len(SysfsRows)
      <4> DEFINE n == Len(SysfsRows)
      <4>1. n \in Nat /\ info.size = n * info.desc
        BY <3>1, <3>2
      <4> HIDE DEF n
      <4>2. (n * info.desc) \div info.desc = n
        BY <1>2, <4>1
      <4> QED BY <4>1, <4>2 DEF n
    <3>4. k \in 1 .. Len(SysfsRows)
      BY <1>2, <1>3, <3>2, <3>3
    <3>5. Fill(SysfsRows)[k] = SysfsRows[k]
      BY <2>1, <3>2, <3>4 DEF Fill
    <3> QED BY <2>1, <2>3, <3>1, <3>2, <3>4, <3>5
  <2> QED BY <2>2, <2>3
<1> QED BY <1>2, <1>3, <1>4, <1>5

\* The kernel reads the firmware's descriptors in their order, whatever the
\* fall-back they were read with; a map too large to copy is what was read of it.
THEOREM KernelReadsFirmware == Spec => []MapTrue
<1>1. ASSUME Inv, pc = "booted", Handed, info.phys = 0
      PROVE  ~EmptyParams /\ host.params.memmap = 0 /\ \A k \in DOMAIN seen : seen[k] = Zero
  <2>1. Fetched /\ Typed
    BY <1>1 DEF Inv, FetchInv
  <2>2. ~EmptyParams /\ host.params.memmap = 0 /\ info.rows = NoRows
    BY <1>1, <2>1 DEF Fetched
  <2>3. job = NoJob
    BY <1>1 DEF Inv, JobInv
  <2>4. ~Copies
    BY <2>3 DEF Copies, NoJob
  <2>5. seen = [k \in 1 .. DescriptorRows |-> Written(k)]
    <3>1. seen = [k \in 1 .. DescriptorRows |-> IF Copies THEN AfterCopy(k) ELSE Written(k)]
      BY <1>1 DEF Inv, SeenInv
    <3> QED BY <2>4, <3>1
  <2>6. \A k \in 1 .. DescriptorRows : Written(k) = Zero
    <3>1. \A k \in Int : k >= 1 => Written(k) = Zero
      BY <2>2, EfiMapAssumption DEF Written, NoRows
    <3>2. \A k \in 1 .. DescriptorRows : k \in Int /\ k >= 1
      BY <2>1 DEF Typed, TypeOK, DescriptorRows
    <3> QED BY <3>1, <3>2
  <2>7. \A k \in DOMAIN seen : seen[k] = Zero
    BY <2>5, <2>6, Zenon
  <2> QED BY <2>2, <2>7
<1>2. ASSUME Inv, pc = "booted", Handed, info.phys # 0
      PROVE  /\ \A k \in DOMAIN seen :
                  \/ seen[k] = Fw(k)
                  \/ ~Copies /\ k > TableRows /\ seen[k] = Zero
                  \/ ~Copies /\ ~host.mem /\ k \in DOMAIN SysfsRows /\ seen[k] = SysfsRows[k]
             /\ host.mem => DOMAIN seen = 1 .. host.params.size \div host.params.desc
             /\ host.mem \/ SysfsRows # <<>>
  <2>1. seen = [k \in 1 .. DescriptorRows |-> IF Copies THEN AfterCopy(k) ELSE Written(k)]
    BY <1>2 DEF Inv, SeenInv
  <2>2. \A k \in 1 .. DescriptorRows : AfterCopy(k) = Fw(k)
    BY <1>2, CopiedRows
  <2>3. \A k \in 1 .. DescriptorRows :
          \/ Written(k) = Fw(k)
          \/ k > TableRows /\ Written(k) = Zero
          \/ ~host.mem /\ k \in DOMAIN SysfsRows /\ Written(k) = SysfsRows[k]
    BY <1>2, WrittenRows
  <2>4. /\ DOMAIN seen = 1 .. DescriptorRows
        /\ \A k \in 1 .. DescriptorRows : seen[k] = IF Copies THEN AfterCopy(k) ELSE Written(k)
    BY <2>1, Zenon
  <2>5. ASSUME NEW k \in DOMAIN seen
        PROVE  \/ seen[k] = Fw(k)
               \/ ~Copies /\ k > TableRows /\ seen[k] = Zero
               \/ ~Copies /\ ~host.mem /\ k \in DOMAIN SysfsRows /\ seen[k] = SysfsRows[k]
    BY ONLY <2>2, <2>3, <2>4, <2>5
  <2>6. Fetched
    BY <1>2 DEF Inv, FetchInv
  <2>7. host.mem \/ SysfsRows # <<>>
    BY <1>2, <2>6 DEF Fetched
  <2>8. host.mem => DOMAIN seen = 1 .. host.params.size \div host.params.desc
    <3>1. host.mem => info.size = host.params.size /\ info.desc = host.params.desc /\ info.desc # 0
      BY <1>2, <2>6 DEF Fetched
    <3> QED BY <2>4, <3>1 DEF DescriptorRows
  <2> QED BY <2>5, <2>7, <2>8
<1>3. Inv => MapTrue
  BY <1>1, <1>2 DEF MapTrue
<1> QED BY Invariance, <1>3, PTL
=============================================================================
