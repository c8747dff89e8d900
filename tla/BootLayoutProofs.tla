------------------------- MODULE BootLayoutProofs -------------------------
(***************************************************************************)
(* Theorems about the memory plan of boot(), for every page size, every    *)
(* list of regions, modules and kernel images: that its segments do not    *)
(* overlap, where they lie, and that it implements BumpLayout. First facts *)
(* about align_up, the first-fit search and the concatenations the segment *)
(* list is made of.                                                        *)
(***************************************************************************)
EXTENDS BootLayout, SequenceTheorems, TLAPS

\* Division leaves a remainder smaller than the divisor.
LEMMA Quotient ==
  ASSUME NEW x \in Nat, NEW a \in Nat \ {0}
  PROVE  x \div a \in Nat /\ (x \div a) * a <= x /\ x < (x \div a) * a + a
OBVIOUS

\* No remainder: a number that a divides is a multiple of a.
LEMMA Divides ==
  ASSUME NEW x \in Nat, NEW a \in Nat \ {0}, x % a = 0
  PROVE  x \div a \in Nat /\ x = (x \div a) * a
OBVIOUS

\* A number lies between two consecutive multiples of a in one way only.
LEMMA QuotientUnique ==
  ASSUME NEW m \in Int, NEW n \in Int, NEW a \in Nat \ {0}, NEW y \in Int,
         m * a <= y, y < m * a + a, n * a <= y, y < n * a + a
  PROVE  m = n
<1>1. (m - n) * a < a /\ (n - m) * a < a
  OBVIOUS
<1>2. ASSUME m - n >= 1 PROVE FALSE
  BY <1>1, <1>2
<1>3. ASSUME n - m >= 1 PROVE FALSE
  BY <1>1, <1>3
<1> QED BY <1>2, <1>3

\* align_up never goes down and by less than one alignment up.
LEMMA AlignUpBounds ==
  ASSUME NEW v \in Nat, NEW a \in Nat \ {0}
  PROVE  /\ AlignUp(v, a) \in Nat
         /\ v <= AlignUp(v, a) /\ AlignUp(v, a) < v + a
BY DEF AlignUp

\* What align_up returns is a multiple of the alignment.
LEMMA AlignUpMultiple ==
  ASSUME NEW v \in Nat, NEW a \in Nat \ {0}
  PROVE  \E q \in Nat : AlignUp(v, a) = q * a
<1>1. (v + a - 1) \div a \in Nat
  BY Quotient
<1> QED BY <1>1 DEF AlignUp

\* A multiple of the alignment passes through align_up.
LEMMA AlignUpShift ==
  ASSUME NEW q \in Nat, NEW v \in Nat, NEW a \in Nat \ {0}
  PROVE  AlignUp(q * a + v, a) = q * a + AlignUp(v, a)
<1> DEFINE x == v + a - 1
           m == x \div a
           n == (q * a + x) \div a
<1>0. x \in Nat /\ q * a \in Nat /\ q * a + x \in Nat
  OBVIOUS
<1>1. m \in Nat /\ m * a <= x /\ x < m * a + a
  BY <1>0, Quotient
<1>2. n \in Nat /\ n * a <= q * a + x /\ q * a + x < n * a + a
  BY <1>0, Quotient
<1>3. (q + m) * a = q * a + m * a
  BY <1>1
<1> HIDE DEF m, n, x
<1>4. q + m = n
  BY <1>0, <1>1, <1>2, <1>3, QuotientUnique
<1>5. n * a = q * a + m * a
  BY <1>3, <1>4
<1>6. q * a + v + a - 1 = q * a + x
  BY DEF x
<1> QED BY <1>5, <1>6, <1>0 DEF AlignUp, m, n, x

\* align_up of zero and of a multiple of the alignment.
LEMMA AlignUpIdle ==
  ASSUME NEW q \in Nat, NEW a \in Nat \ {0}
  PROVE  AlignUp(q * a, a) = q * a
<1>1. AlignUp(0, a) = 0
  <2>1. \E k \in Nat : AlignUp(0, a) = k * a
    BY AlignUpMultiple
  <2>2. AlignUp(0, a) \in Nat /\ AlignUp(0, a) < a
    BY AlignUpBounds
  <2>3. PICK k \in Nat : AlignUp(0, a) = k * a
    BY <2>1
  <2>4. k * a < a
    BY <2>2, <2>3
  <2>5. k = 0
    BY <2>4
  <2> QED BY <2>3, <2>5
<1>2. AlignUp(q * a + 0, a) = q * a + AlignUp(0, a)
  BY AlignUpShift
<1>3. q * a \in Nat
  OBVIOUS
<1> QED BY <1>1, <1>2, <1>3

\* The first page of a region at or after c is a page, at or after c, inside
\* the address range of naturals.
LEMMA FirstPageFacts ==
  ASSUME NEW r \in Region, NEW c \in Nat
  PROVE  /\ FirstPage(r, c) \in Nat
         /\ c <= FirstPage(r, c) /\ r.start <= FirstPage(r, c)
         /\ \E q \in Nat : FirstPage(r, c) = q * Page
<1>1. Larger(c, r.start) \in Nat /\ c <= Larger(c, r.start) /\ r.start <= Larger(c, r.start)
  BY DEF Larger, Region
<1>2. Page \in Nat \ {0}
  BY PageAssumption
<1> DEFINE l == Larger(c, r.start)
<1> HIDE DEF l
<1>3. AlignUp(l, Page) \in Nat /\ l <= AlignUp(l, Page)
  BY <1>1, <1>2, AlignUpBounds DEF l
<1>4. \E q \in Nat : AlignUp(l, Page) = q * Page
  BY <1>1, <1>2, AlignUpMultiple DEF l
<1>5. FirstPage(r, c) = AlignUp(l, Page)
  BY DEF FirstPage, l
<1>6. r.start \in Nat
  BY DEF Region
<1>7. c <= AlignUp(l, Page) /\ r.start <= AlignUp(l, Page)
  BY <1>1, <1>3, <1>6 DEF l
<1> QED BY <1>3, <1>4, <1>5, <1>7

\* A block that starts on a page ends, page-rounded, where its size does.
LEMMA PageRounding ==
  ASSUME NEW b \in Nat, NEW len \in Nat, \E q \in Nat : b = q * Page
  PROVE  AlignUp(b + len, Page) = b + AlignUp(len, Page)
<1>1. PICK q \in Nat : b = q * Page
  OBVIOUS
<1>2. AlignUp(q * Page + len, Page) = q * Page + AlignUp(len, Page)
  BY PageAssumption, AlignUpShift
<1> QED BY <1>1, <1>2
---------------------------------------------------------------------------
\* A sequence named as the concatenation of two others, index by index.
LEMMA Concatenated ==
  ASSUME NEW S, NEW s \in Seq(S), NEW t \in Seq(S)
  PROVE  /\ s \o t \in Seq(S) /\ Len(s \o t) = Len(s) + Len(t)
         /\ DOMAIN (s \o t) = 1 .. Len(s) + Len(t)
         /\ \A i \in 1 .. Len(s) : (s \o t)[i] = s[i]
         /\ \A i \in 1 .. Len(t) : (s \o t)[Len(s) + i] = t[i]
OBVIOUS

\* A sequence, one element, and an optional one.
LEMMA ThreeParts ==
  ASSUME NEW S, NEW mods \in Seq(S), NEW m \in S, NEW rest \in Seq(S)
  PROVE  LET tail == (mods \o <<m>>) \o rest
         IN  /\ tail \in Seq(S) /\ Len(tail) = Len(mods) + 1 + Len(rest)
             /\ \A i \in 1 .. Len(mods) : tail[i] = mods[i]
             /\ tail[Len(mods) + 1] = m
             /\ \A i \in 1 .. Len(rest) : tail[Len(mods) + 1 + i] = rest[i]
<1>1. PICK front : front = mods \o <<m>>
  OBVIOUS
<1>2. /\ front \in Seq(S) /\ Len(front) = Len(mods) + 1
      /\ \A i \in 1 .. Len(mods) : front[i] = mods[i]
      /\ front[Len(mods) + 1] = m
  BY <1>1
<1>3. /\ front \o rest \in Seq(S) /\ Len(front \o rest) = Len(front) + Len(rest)
      /\ \A i \in 1 .. Len(front) : (front \o rest)[i] = front[i]
      /\ \A i \in 1 .. Len(rest) : (front \o rest)[Len(front) + i] = rest[i]
  <2>1. front \in Seq(S)
    BY <1>2
  <2> QED BY <2>1, Concatenated
<1>4. PICK n \in Nat : n = Len(mods)
  OBVIOUS
<1>5. \A i \in 1 .. n : i \in 1 .. n + 1
  OBVIOUS
<1>6. n + 1 \in 1 .. n + 1
  OBVIOUS
<1> QED BY <1>1, <1>2, <1>3, <1>4, <1>5, <1>6

\* The same after two single elements.
LEMMA FiveParts ==
  ASSUME NEW S, NEW b \in S, NEW k \in S, NEW mods \in Seq(S), NEW m \in S,
         NEW rest \in Seq(S)
  PROVE  LET list == (<<b>> \o <<k>>) \o ((mods \o <<m>>) \o rest)
         IN  /\ DOMAIN list = 1 .. Len(mods) + 3 + Len(rest)
             /\ list[1] = b /\ list[2] = k
             /\ \A i \in 1 .. Len(mods) : list[2 + i] = mods[i]
             /\ list[Len(mods) + 3] = m
             /\ \A i \in 1 .. Len(rest) : list[Len(mods) + 3 + i] = rest[i]
<1>1. PICK head : head = <<b>> \o <<k>>
  OBVIOUS
<1>2. head \in Seq(S) /\ Len(head) = 2 /\ head[1] = b /\ head[2] = k
  BY <1>1
<1>3. PICK tail : tail = (mods \o <<m>>) \o rest
  OBVIOUS
<1>4. PICK n \in Nat : n = Len(mods)
  OBVIOUS
<1>5. PICK r \in Nat : r = Len(rest)
  OBVIOUS
<1>6. /\ tail \in Seq(S) /\ Len(tail) = n + 1 + r
      /\ \A i \in 1 .. n : tail[i] = mods[i]
      /\ tail[n + 1] = m
      /\ \A i \in 1 .. r : tail[n + 1 + i] = rest[i]
  BY <1>3, <1>4, <1>5, ThreeParts
<1>7. /\ DOMAIN (head \o tail) = 1 .. Len(head) + Len(tail)
      /\ \A i \in 1 .. Len(head) : (head \o tail)[i] = head[i]
      /\ \A i \in 1 .. Len(tail) : (head \o tail)[Len(head) + i] = tail[i]
  <2>1. head \in Seq(S) /\ tail \in Seq(S)
    BY <1>2, <1>6
  <2> QED BY <2>1, Concatenated
<1>8. PICK list : list = head \o tail
  OBVIOUS
<1>9. /\ DOMAIN list = 1 .. 2 + (n + 1 + r)
      /\ \A i \in 1 .. 2 : list[i] = head[i]
      /\ \A i \in 1 .. n + 1 + r : list[2 + i] = tail[i]
  BY <1>2, <1>6, <1>7, <1>8
<1>10. list[1] = b /\ list[2] = k
  BY <1>2, <1>9
<1>11. ASSUME NEW i \in 1 .. n PROVE list[2 + i] = mods[i]
  <2>1. i \in 1 .. n + 1 + r
    OBVIOUS
  <2> QED BY <1>6, <1>9, <2>1
<1>12. list[n + 3] = m
  <2>1. n + 1 \in 1 .. n + 1 + r /\ 2 + (n + 1) = n + 3
    OBVIOUS
  <2> QED BY <1>6, <1>9, <2>1
<1>13. ASSUME NEW i \in 1 .. r PROVE list[n + 3 + i] = rest[i]
  <2>1. n + 1 + i \in 1 .. n + 1 + r /\ 2 + (n + 1 + i) = n + 3 + i
    OBVIOUS
  <2> QED BY <1>6, <1>9, <2>1
<1>14. 2 + (n + 1 + r) = n + 3 + r
  OBVIOUS
<1> QED BY <1>1, <1>3, <1>4, <1>5, <1>8, <1>9, <1>10, <1>11, <1>12, <1>13, <1>14
---------------------------------------------------------------------------
USE SizesAssumption, InputsAssumption, PageAssumption
---------------------------------------------------------------------------
\* A step that fails, and a step of the environment, keep the plan.
LEMMA FailKeepsType ==
  TypeOK /\ Fail /\ UNCHANGED foreign => TypeOK' /\ pc' = "failed"
BY DEF TypeOK, Fail, foreign, given, plan, loop, Steps

\* An aligned end of a PT_LOAD that is not below the kernel base.
LEMMA PtLoadEnd ==
  ASSUME NEW file \in KernelFiles, ~BadKernel(file), NEW ph \in file
  PROVE  /\ AlignUp(ph.off + ph.memsz, Page) \in Nat
         /\ AlignUp(ph.off + ph.memsz, Page) >= KernelPhysBase
<1>1. ph.off \in Nat /\ ph.memsz \in Nat /\ ph.off >= KernelPhysBase
  BY DEF BadKernel, PtLoad
<1> DEFINE v == ph.off + ph.memsz
<1>2. v \in Nat /\ v >= KernelPhysBase
  BY <1>1
<1> HIDE DEF v
<1>3. AlignUp(v, Page) \in Nat /\ v <= AlignUp(v, Page)
  BY <1>2, AlignUpBounds
<1>4. AlignUp(v, Page) >= KernelPhysBase
  BY <1>2, <1>3
<1> QED BY <1>3, <1>4 DEF v

\* The parts of the bundle are laid out at natural offsets.
LEMMA BundleLenType ==
  ASSUME TypeOK
  PROVE  EnvOffset \in Nat /\ FontOffset \in Nat /\ BundleLen \in Nat
<1>1. parts.symtab \in Nat /\ parts.env \in Nat /\ parts.font \in Nat
  BY DEF TypeOK
<1>2. /\ AlignUp(parts.symtab, Word) \in Nat
      /\ AlignUp(parts.env, Word) \in Nat
      /\ AlignUp(parts.font, Word) \in Nat
  BY <1>1, AlignUpBounds
<1> QED BY <1>2 DEF EnvOffset, FontOffset, BundleLen

\* A region of available_regions has natural bounds.
LEMMA RegionType ==
  ASSUME TypeOK, NEW i \in DOMAIN regions
  PROVE  regions[i] \in Region
BY DEF TypeOK

LEMMA FileLengthType ==
  ASSUME TypeOK, NEW i \in DOMAIN files
  PROVE  files[i] \in Nat /\ AlignUp(files[i], Page) \in Nat
<1>1. files[i] \in Nat
  BY DEF TypeOK
<1> QED BY <1>1, AlignUpBounds

\* A module that has an address has a file.
LEMMA PlacedType ==
  ASSUME TypeOK, NEW j \in DOMAIN addr
  PROVE  j \in DOMAIN files /\ addr[j] \in Nat
<1>1. addr \in Seq(Nat) /\ files \in Seq(Nat) /\ Len(addr) <= Len(files)
  BY DEF TypeOK
<1> QED BY ONLY <1>1, j \in DOMAIN addr

\* The metadata block is never empty and its room is whole pages.
LEMMA MetadataType ==
  ASSUME TypeOK, NEW m \in Nat, NEW k \in Nat
  PROVE  /\ Metadata(m, k) \in [len : Nat, modulep : Nat, kernend : Nat]
         /\ Metadata(m, k).len > 0
BY DEF TypeOK, Metadata, Late

LEMMA MetaSpaceType ==
  ASSUME TypeOK
  PROVE  MetaSpace \in Nat /\ meta.len <= MetaSpace
<1>1. meta.len \in Nat
  BY DEF TypeOK
<1> QED BY <1>1, AlignUpBounds DEF MetaSpace

\* Segments are records of the segment type.
LEMMA SegmentTyped ==
  ASSUME NEW kind \in {"boot", "module", "modulep", "bundle", "kernel"},
         NEW mem \in Nat, NEW len \in Nat
  PROVE  Segment(kind, mem, len) \in SegmentType
BY AlignUpBounds DEF Segment, SegmentType

LEMMA EnforcedTyped ==
  ASSUME TypeOK
  PROVE  BootSegments \in Seq(SegmentType) /\ BlockSegments \in Seq(SegmentType)
<1>1. BootSegments \in Seq(SegmentType)
  <2>1. staging + BootPhysBase \in Nat /\ BootLen \in Nat
    BY DEF TypeOK
  <2> QED BY <2>1, SegmentTyped DEF BootSegments
<1>2. ModuleSegments \in Seq(SegmentType)
  <2>1. addr \in Seq(Nat) /\ Len(addr) \in Nat /\ DOMAIN addr = 1 .. Len(addr)
    BY DEF TypeOK
  <2>2. ASSUME NEW i \in DOMAIN addr PROVE ModuleSegments[i] \in SegmentType
    <3>0. Len(addr) <= Len(files) /\ files \in ModuleLists
      BY DEF TypeOK
    <3>1. i \in DOMAIN files /\ addr[i] \in Nat
      <4>1. i \in 1 .. Len(addr)
        BY <2>1
      <4>2. addr[i] \in Nat
        BY ONLY <2>1, <4>1, ElementOfSeq
      <4>3. Len(files) \in Nat /\ DOMAIN files = 1 .. Len(files)
        BY <3>0, InputsAssumption
      <4> QED BY ONLY <2>1, <3>0, <4>1, <4>2, <4>3
    <3>2. files[i] \in Nat
      BY <3>1, FileLengthType
    <3> QED BY <3>1, <3>2, SegmentTyped DEF ModuleSegments
  <2>3. ModuleSegments \in [1 .. Len(addr) -> SegmentType]
    BY <2>1, <2>2 DEF ModuleSegments
  <2> QED BY <2>1, <2>3
<1>3. <<Segment("modulep", modulep, meta.len)>> \in Seq(SegmentType)
  <2>1. modulep \in Nat /\ meta.len \in Nat
    BY DEF TypeOK
  <2> QED BY <2>1, SegmentTyped
<1>4. (IF BundleLen = 0 THEN <<>> ELSE <<Segment("bundle", bundle, BundleLen)>>)
        \in Seq(SegmentType)
  <2>1. bundle \in Nat /\ BundleLen \in Nat
    BY BundleLenType DEF TypeOK
  <2> QED BY <2>1, SegmentTyped
<1> QED BY <1>1, <1>2, <1>3, <1>4 DEF BlockSegments
---------------------------------------------------------------------------
\* The loop of build_modulep_info counts from 0 and stays below its bound.
LoopCounted ==
  /\ pc \in {"staging", "regions", "layout", "modules", "preload", "build"} => iteration = 0
  /\ pc = "iterate" => iteration < MaxIterations

TypeInv == TypeOK /\ LoopCounted

\* The typed states are closed under every step of boot() and of its environment.
LEMMA TypeInvariant == Spec => []TypeInv
<1>1. Init => TypeInv
  BY DEF Init, TypeInv, TypeOK, LoopCounted, Steps
<1>2. ASSUME TypeInv, [Next]_vars PROVE TypeInv'
  <2>0. TypeOK /\ LoopCounted
    BY <1>2 DEF TypeInv
  <2>1. CASE FindStaging
    <3>0. iteration = 0
      BY <2>0, <2>1 DEF LoopCounted, FindStaging
    <3>1. CASE Fail /\ UNCHANGED foreign
      BY <2>0, <3>1, FailKeepsType DEF TypeInv, LoopCounted
    <3>2. ASSUME NEW i \in DOMAIN iomem,
                 staging' = AlignUp(iomem[i].start, KexecAlign),
                 pc' = "regions",
                 UNCHANGED <<given, regions, kernelEnd, addr, cursor, bundle,
                             loop, segments, foreign>>
          PROVE  TypeInv'
      <4>1. iomem[i].start \in Nat
        <5>1. iomem \in Seq(Region)
          BY <2>0 DEF TypeOK
        <5>2. iomem[i] \in Region
          BY <5>1
        <5> QED BY <5>2 DEF Region
      <4>2. staging' \in Nat
        BY <4>1, <3>2, AlignUpBounds
      <4> QED BY <2>0, <3>0, <3>2, <4>2 DEF TypeInv, LoopCounted, TypeOK, Steps, given, loop, foreign
    <3> QED BY <2>1, <3>1, <3>2 DEF FindStaging
  <2>2. CASE ReadRegions
    BY <2>0, <2>2 DEF TypeInv, LoopCounted, TypeOK, ReadRegions, Steps, given, loop, foreign
  <2>3. CASE ComputeKernelLayout
    <3>0. iteration = 0
      BY <2>0, <2>3 DEF LoopCounted, ComputeKernelLayout
    <3>1. CASE Fail /\ UNCHANGED foreign
      BY <2>0, <3>1, FailKeepsType DEF TypeInv, LoopCounted
    <3>2. ASSUME ~BadKernel(kernelFile), NEW ph \in kernelFile,
                 kernelEnd' = staging + AlignUp(ph.off + ph.memsz, Page),
                 cursor' = staging + AlignUp(ph.off + ph.memsz, Page),
                 pc' = "modules",
                 UNCHANGED <<given, staging, regions, addr, bundle, loop,
                             segments, foreign>>
          PROVE  TypeInv'
      <4>1. kernelEnd' \in Nat /\ cursor' \in Nat
        BY <2>0, <3>2, PtLoadEnd DEF TypeOK
      <4> QED BY <2>0, <3>0, <3>2, <4>1 DEF TypeInv, LoopCounted, TypeOK, Steps, given, loop, foreign
    <3> QED BY <2>3, <3>1, <3>2 DEF ComputeKernelLayout
  <2>4. CASE AssignModule
    <3>1. CASE Fail /\ UNCHANGED foreign
      BY <2>0, <3>1, FailKeepsType DEF TypeInv, LoopCounted
    <3>2. ASSUME NEW i \in DOMAIN regions, Len(addr) < Len(files),
                 addr' = Append(addr, FirstPage(regions[i], cursor)),
                 cursor' = FirstPage(regions[i], cursor)
                             + AlignUp(files[Len(addr) + 1], Page),
                 UNCHANGED <<pc, given, staging, regions, kernelEnd, bundle,
                             loop, segments, foreign>>
          PROVE  TypeInv'
      <4>1. FirstPage(regions[i], cursor) \in Nat
        BY <2>0, RegionType, FirstPageFacts DEF TypeOK
      <4>2. Len(addr) + 1 \in DOMAIN files
        BY <2>0, <3>2 DEF TypeOK
      <4>3. AlignUp(files[Len(addr) + 1], Page) \in Nat
        BY <2>0, <4>2, FileLengthType
      <4>4. addr' \in Seq(Nat) /\ Len(addr') = Len(addr) + 1 /\ Len(addr') <= Len(files')
        BY <2>0, <3>2, <4>1 DEF TypeOK, given
      <4>5. cursor' \in Nat
        BY <3>2, <4>1, <4>3
      <4> QED BY <2>0, <3>2, <4>4, <4>5 DEF TypeInv, LoopCounted, TypeOK, given, loop, foreign
    <3> QED BY <2>4, <3>1, <3>2 DEF AssignModule, AfterModule
  <2>5. CASE ModulesAssigned
    BY <2>0, <2>5 DEF TypeInv, LoopCounted, TypeOK, ModulesAssigned, Steps, given, plan, loop, foreign
  <2>6. CASE BuildPreload
    <3>0. iteration = 0
      BY <2>0, <2>6 DEF LoopCounted, BuildPreload
    <3>1. CASE Fail /\ UNCHANGED foreign
      BY <2>0, <3>1, FailKeepsType DEF TypeInv, LoopCounted
    <3>2. CASE pc' = "build" /\ UNCHANGED <<given, plan, loop, segments, foreign>>
      BY <2>0, <3>0, <3>2 DEF TypeInv, LoopCounted, TypeOK, Steps, given, plan, loop, foreign
    <3>3. ASSUME NEW i \in DOMAIN regions,
                 bundle' = FirstPage(regions[i], cursor),
                 cursor' = AlignUp(FirstPage(regions[i], cursor) + BundleLen, Page),
                 pc' = "build",
                 UNCHANGED <<given, staging, regions, kernelEnd, addr, loop,
                             segments, foreign>>
          PROVE  TypeInv'
      <4>1. FirstPage(regions[i], cursor) \in Nat /\ BundleLen \in Nat
        BY <2>0, RegionType, FirstPageFacts, BundleLenType DEF TypeOK
      <4>2. bundle' \in Nat /\ cursor' \in Nat
        <5>1. FirstPage(regions[i], cursor) + BundleLen \in Nat
          BY <4>1
        <5> QED BY <3>3, <4>1, <5>1, AlignUpBounds
      <4> QED BY <2>0, <3>0, <3>3, <4>2 DEF TypeInv, LoopCounted, TypeOK, Steps, given, loop, foreign
    <3> QED BY <2>6, <3>1, <3>2, <3>3 DEF BuildPreload, AfterPreload
  <2>7. CASE BuildMetadata
    <3>0. iteration = 0
      BY <2>0, <2>7 DEF LoopCounted, BuildMetadata
    <3>1. CASE Fail /\ UNCHANGED foreign
      BY <2>0, <3>1, FailKeepsType DEF TypeInv, LoopCounted
    <3>2. CASE /\ meta' = Metadata(0, 0) /\ pc' = "iterate"
               /\ UNCHANGED <<given, plan, modulep, kernend, iteration,
                              segments, foreign>>
      <4>1. meta' \in [len : Nat, modulep : Nat, kernend : Nat]
        BY <2>0, <3>2, MetadataType
      <4> QED
        BY <2>0, <3>0, <3>2, <4>1
        DEF TypeInv, LoopCounted, TypeOK, Steps, given, plan, foreign
    <3> QED BY <2>7, <3>1, <3>2 DEF BuildMetadata
  <2>8. CASE ModulepIteration
    <3>1. CASE Fail /\ UNCHANGED foreign
      BY <2>0, <3>1, FailKeepsType DEF TypeInv, LoopCounted
    <3>2. ASSUME NEW phys, NEW end, NEW i \in DOMAIN regions,
                 phys = FirstPage(regions[i], cursor), end = phys + MetaSpace,
                 phys >= staging, end >= KernelPhys,
                 modulep' = phys, kernend' = end,
                 meta' = Metadata(phys - staging, end - KernelPhys),
                 iteration' = iteration + 1, pc = "iterate",
                 pc' = IF LoopEnds(meta'.len) THEN "assemble" ELSE "iterate",
                 UNCHANGED <<given, plan, segments, foreign>>
          PROVE  TypeInv'
      <4>1. phys \in Nat /\ end \in Nat
        <5>1. FirstPage(regions[i], cursor) \in Nat
          BY <2>0, RegionType, FirstPageFacts DEF TypeOK
        <5>2. MetaSpace \in Nat
          BY <2>0, MetaSpaceType
        <5> QED BY <3>2, <5>1, <5>2
      <4>2. phys - staging \in Nat /\ end - KernelPhys \in Nat
        <5>1. staging \in Nat /\ KernelPhys \in Nat
          BY <2>0 DEF TypeOK, KernelPhys
        <5> QED BY <3>2, <4>1, <5>1
      <4>3. meta' \in [len : Nat, modulep : Nat, kernend : Nat]
        BY <2>0, <3>2, <4>2, MetadataType
      <4>4. /\ iteration' \in 0 .. MaxIterations
            /\ pc' = "iterate" => iteration' < MaxIterations
            /\ pc' \in {"assemble", "iterate"}
        BY <2>0, <3>2 DEF TypeOK, TypeInv, LoopCounted, LoopEnds
      <4> QED BY <2>0, <3>2, <4>1, <4>3, <4>4 DEF TypeInv, LoopCounted, TypeOK, Steps, given, plan, foreign
    <3> QED BY <2>8, <3>1, <3>2 DEF ModulepIteration
  <2>9. CASE Assemble
    <3>1. CASE Fail /\ UNCHANGED foreign
      BY <2>0, <3>1, FailKeepsType DEF TypeInv, LoopCounted
    <3>2. CASE pc' = "segments" /\ UNCHANGED <<given, plan, loop, segments, foreign>>
      BY <2>0, <3>2 DEF TypeInv, LoopCounted, TypeOK, Steps, given, plan, loop, foreign
    <3> QED BY <2>9, <3>1, <3>2 DEF Assemble
  <2>10. CASE PrepareKexecSegments
    <3>1. CASE Fail /\ UNCHANGED foreign
      BY <2>0, <3>1, FailKeepsType DEF TypeInv, LoopCounted
    <3>2. ASSUME ~BadKernel(kernelFile), NEW ph \in kernelFile,
                 segments' = BootSegments
                   \o <<Segment("kernel", KernelPhys,
                         AlignUp(ph.off + ph.memsz, Page) - KernelPhysBase)>>
                   \o BlockSegments,
                 pc' = "planned",
                 UNCHANGED <<given, plan, loop, foreign>>
          PROVE  TypeInv'
      <4> DEFINE len == AlignUp(ph.off + ph.memsz, Page) - KernelPhysBase
      <4>1. len \in Nat
        BY <2>0, <3>2, PtLoadEnd DEF TypeOK
      <4>2. KernelPhys \in Nat
        BY <2>0 DEF TypeOK, KernelPhys
      <4>3. <<Segment("kernel", KernelPhys, len)>> \in Seq(SegmentType)
        BY <4>1, <4>2, SegmentTyped
      <4>4. segments' \in Seq(SegmentType)
        BY <2>0, <3>2, <4>3, EnforcedTyped
      <4> QED
        BY <2>0, <3>2, <4>4
        DEF TypeInv, LoopCounted, TypeOK, Steps, given, plan, loop, foreign
    <3> QED BY <2>10, <3>1, <3>2 DEF PrepareKexecSegments
  <2>11. CASE ReplaceKernel
    BY <2>0, <2>11
    DEF TypeInv, LoopCounted, TypeOK, ReplaceKernel, given, plan, loop
  <2>12. CASE IomemChanges
    BY <2>0, <2>12
    DEF TypeInv, LoopCounted, TypeOK, IomemChanges, given, plan, loop
  <2>13. CASE UNCHANGED vars
    BY <2>0, <2>13
    DEF TypeInv, LoopCounted, TypeOK, vars, given, plan, loop, foreign
  <2> QED
    BY <1>2, <2>1, <2>2, <2>3, <2>4, <2>5, <2>6, <2>7, <2>8, <2>9, <2>10, <2>11,
       <2>12, <2>13 DEF Next, Boot, Done
<1> QED BY <1>1, <1>2, PTL DEF Spec

\* Every variable of the plan keeps its type, whatever the regions, the kernel
\* image, the modules and the sizes are, and whoever writes the files meanwhile.
THEOREM TypeCorrect == Spec => []TypeOK
<1>1. TypeInv => TypeOK
  BY DEF TypeInv
<1> QED BY <1>1, TypeInvariant, PTL
---------------------------------------------------------------------------
(* The inductive step of LayoutInv, one lemma per group of actions. *)

\* Nothing is claimed of a plan that is not finished.
LEMMA Unplanned == pc' # "planned" => PlanGood'
BY DEF PlanGood, SegmentsDisjoint, KernendAboveSegments, MetadataDescribesPlan, Planned

LEMMA FailKeepsLayout == Fail => LayoutInv'
BY Unplanned
DEF Fail, LayoutInv, ModulesStacked, BundleStacked, MetadataStacked, KernelCurrent,
    LayoutDone, BundleDone, LoopDone

\* Steps that only move pc on, before the layout is known.
LEMMA EarlyKeepsLayout ==
  ASSUME TypeInv, LayoutInv, FindStaging \/ ReadRegions
  PROVE  LayoutInv'
<1>1. CASE Fail
  BY <1>1, FailKeepsLayout
<1>2. CASE pc' \in {"regions", "layout"} /\ addr' = addr /\ pc \in {"staging", "regions"}
  BY <1>2, Unplanned
  DEF LayoutInv, ModulesStacked, BundleStacked, MetadataStacked, KernelCurrent,
      LayoutDone, BundleDone, LoopDone
<1> QED BY <1>1, <1>2 DEF FindStaging, ReadRegions

LEMMA LayoutKeepsLayout ==
  ASSUME TypeInv, LayoutInv, ComputeKernelLayout
  PROVE  LayoutInv'
<1>1. CASE Fail
  BY <1>1, FailKeepsLayout
<1>2. ASSUME ~BadKernel(kernelFile), NEW ph \in kernelFile,
             IsMaxEnd(kernelFile, AlignUp(ph.off + ph.memsz, Page)),
             kernelEnd' = staging + AlignUp(ph.off + ph.memsz, Page),
             cursor' = staging + AlignUp(ph.off + ph.memsz, Page),
             pc = "layout", pc' = "modules",
             UNCHANGED <<given, staging, regions, addr, bundle, loop,
                         segments, foreign>>
      PROVE  LayoutInv'
  <2> DEFINE e == AlignUp(ph.off + ph.memsz, Page)
  <2>1. e \in Nat /\ e >= KernelPhysBase /\ staging \in Nat
    BY <1>2, PtLoadEnd DEF TypeInv, TypeOK
  <2>2. addr = <<>>
    BY <1>2 DEF LayoutInv, ModulesStacked
  <2>3. ModulesStacked'
    BY <1>2, <2>1, <2>2 DEF ModulesStacked, KernelPhys, LayoutDone
  <2>4. BundleStacked' /\ MetadataStacked'
    BY <1>2 DEF BundleStacked, MetadataStacked, BundleDone, LoopDone
  <2>5. KernelCurrent'
    <3>1. kernelEnd' - staging' = e
      BY <1>2, <2>1
    <3>2. kernelFile' = kernelFile
      BY <1>2 DEF foreign
    <3> QED BY <1>2, <3>1, <3>2 DEF KernelCurrent
  <2> QED BY <1>2, <2>3, <2>4, <2>5, Unplanned DEF LayoutInv
<1> QED BY <1>1, <1>2 DEF ComputeKernelLayout

\* A module goes to the first page at or after cursor, above all before it.
LEMMA AssignKeepsLayout ==
  ASSUME TypeInv, LayoutInv, AssignModule
  PROVE  LayoutInv'
<1>1. CASE Fail
  BY <1>1, FailKeepsLayout
<1>2. ASSUME NEW n, n = Len(addr) + 1,
             NEW i \in DOMAIN regions, Len(addr) < Len(files),
             addr' = Append(addr, FirstPage(regions[i], cursor)),
             cursor' = FirstPage(regions[i], cursor)
                         + AlignUp(files[Len(addr) + 1], Page),
             pc = "modules",
             UNCHANGED <<pc, given, staging, regions, kernelEnd, bundle,
                         loop, segments, foreign>>
      PROVE  LayoutInv'
  <2> DEFINE a == FirstPage(regions[i], cursor)
             size == AlignUp(files[n], Page)
  <2>1. /\ TypeOK /\ ModulesStacked /\ KernelCurrent
        /\ addr \in Seq(Nat) /\ Len(addr) \in Nat /\ cursor \in Nat
        /\ kernelEnd \in Nat /\ staging \in Nat /\ n \in Nat /\ n = Len(addr) + 1
    <3>1. TypeOK /\ ModulesStacked /\ KernelCurrent
      BY DEF TypeInv, LayoutInv
    <3>2. addr \in Seq(Nat) /\ cursor \in Nat /\ kernelEnd \in Nat /\ staging \in Nat
      BY <3>1 DEF TypeOK
    <3>3. Len(addr) \in Nat
      BY ONLY <3>2
    <3> QED BY <1>2, <3>1, <3>2, <3>3
  <2>2. a \in Nat /\ cursor <= a
    BY <2>1, RegionType, FirstPageFacts
  <2>3. n \in DOMAIN files /\ size \in Nat
    <3>1. n \in DOMAIN files
      BY <1>2, <2>1 DEF TypeOK
    <3> QED BY <2>1, <3>1, FileLengthType
  <2>4. DOMAIN addr' = 1 .. n /\ DOMAIN addr = 1 .. n - 1
    BY <1>2, <2>1, <2>2
  <2>5. addr'[n] = a /\ \A j \in 1 .. n - 1 : addr'[j] = addr[j] /\ addr[j] \in Nat
    BY <1>2, <2>1, <2>2
  <2>6. \A j \in 1 .. n - 1 : kernelEnd <= addr[j] /\ ModuleEnd(j) <= cursor
    BY <1>2, <2>1, <2>4 DEF ModulesStacked, LayoutDone
  <2>7. \A j \in 1 .. n - 1 : ModuleEnd(j) \in Nat
    <3> TAKE j \in 1 .. n - 1
    <3>1. j \in DOMAIN files
      BY <2>1, <2>3, <2>4 DEF TypeOK
    <3> QED BY <2>1, <2>5, <3>1, FileLengthType DEF ModuleEnd
  <2>8. files' = files /\ kernelEnd' = kernelEnd /\ KernelPhys' = KernelPhys
    BY <1>2 DEF given, KernelPhys
  <2>9. KernelPhys <= kernelEnd /\ kernelEnd <= cursor /\ KernelPhys \in Nat
    BY <1>2, <2>1 DEF ModulesStacked, LayoutDone, KernelPhys
  <2> HIDE DEF a, size
  <2>10. cursor' = a + size
    BY <1>2 DEF a, size
  <2>11. \A j \in 1 .. n - 1 : ModuleEnd(j)' = ModuleEnd(j)
    BY <2>5, <2>8 DEF ModuleEnd
  <2>12. ModuleEnd(n)' = a + size
    BY <2>5, <2>8 DEF ModuleEnd, size
  <2>13. \A j \in 1 .. n : kernelEnd <= addr'[j] /\ ModuleEnd(j)' <= cursor'
    <3>1. kernelEnd <= addr'[n] /\ ModuleEnd(n)' <= cursor'
      BY <2>1, <2>2, <2>3, <2>5, <2>9, <2>10, <2>12
    <3>2. ASSUME NEW j \in 1 .. n - 1
          PROVE  kernelEnd <= addr'[j] /\ ModuleEnd(j)' <= cursor'
      <4>1. kernelEnd <= addr'[j] /\ ModuleEnd(j)' <= cursor /\ ModuleEnd(j)' \in Nat
        BY <2>5, <2>6, <2>7, <2>11
      <4>2. cursor <= cursor' /\ cursor' \in Nat
        BY <2>1, <2>2, <2>3, <2>10
      <4> QED BY <2>1, <4>1, <4>2
    <3>3. n \in Nat
      BY <2>1
    <3> QED BY <3>1, <3>2, <3>3
  <2>14. \A j, k \in 1 .. n : j < k => ModuleEnd(j)' <= addr'[k]
    <3> TAKE j, k \in 1 .. n
    <3> HAVE j < k
    <3>1. n \in Nat /\ j \in 1 .. n - 1
      BY <2>1
    <3>2. CASE k = n
      <4>1. ModuleEnd(j)' = ModuleEnd(j) /\ ModuleEnd(j) <= cursor /\ ModuleEnd(j) \in Nat
        BY <2>6, <2>7, <2>11, <3>1
      <4> QED BY <2>1, <2>2, <2>5, <3>2, <4>1
    <3>3. CASE k # n
      <4>1. k \in 1 .. n - 1
        BY <3>1, <3>3
      <4>2. ModuleEnd(j) <= addr[k]
        BY <1>2, <2>1, <2>4, <3>1, <4>1 DEF ModulesStacked, LayoutDone
      <4> QED BY <2>5, <2>11, <3>1, <4>1, <4>2
    <3> QED BY <3>2, <3>3
  <2>15. kernelEnd <= cursor' /\ pc' = "modules"
    BY <1>2, <2>1, <2>2, <2>3, <2>9, <2>10
  <2>16. ModulesStacked'
    BY <2>4, <2>8, <2>9, <2>13, <2>14, <2>15 DEF ModulesStacked, LayoutDone
  <2>17. BundleStacked' /\ MetadataStacked'
    BY <2>15 DEF BundleStacked, MetadataStacked, BundleDone, LoopDone
  <2>18. KernelCurrent'
    BY <1>2, <2>1, <2>15 DEF KernelCurrent, foreign, LayoutDone
  <2> QED BY <2>15, <2>16, <2>17, <2>18, Unplanned DEF LayoutInv
<1>3. CASE ~Fail
  <2>1. PICK n : n = Len(addr) + 1
    OBVIOUS
  <2> QED BY <1>2, <1>3, <2>1 DEF AssignModule, AfterModule
<1> QED BY <1>1, <1>3

LEMMA ModulesDoneKeepsLayout ==
  ASSUME TypeInv, LayoutInv, ModulesAssigned
  PROVE  LayoutInv'
<1>1. pc = "modules" /\ pc' = "preload"
  BY DEF ModulesAssigned
<1>2. ModulesStacked'
  BY <1>1
  DEF ModulesAssigned, LayoutInv, ModulesStacked, LayoutDone, given, plan, KernelPhys, ModuleEnd
<1>3. BundleStacked' /\ MetadataStacked'
  BY <1>1 DEF BundleStacked, MetadataStacked, BundleDone, LoopDone
<1>4. KernelCurrent'
  BY <1>1 DEF ModulesAssigned, LayoutInv, KernelCurrent, LayoutDone, foreign, plan
<1> QED BY <1>1, <1>2, <1>3, <1>4, Unplanned DEF LayoutInv

LEMMA PreloadKeepsLayout ==
  ASSUME TypeInv, LayoutInv, BuildPreload
  PROVE  LayoutInv'
<1>1. CASE Fail
  BY <1>1, FailKeepsLayout
<1>2. CASE /\ BundleLen = 0 /\ pc = "preload" /\ pc' = "build"
           /\ UNCHANGED <<given, plan, loop, segments, foreign>>
  <2>1. ModulesStacked'
    BY <1>2
    DEF LayoutInv, ModulesStacked, LayoutDone, given, plan, KernelPhys, ModuleEnd
  <2>2. BundleStacked' /\ MetadataStacked'
    BY <1>2
    DEF BundleStacked, MetadataStacked, LoopDone, given, BundleLen, FontOffset, EnvOffset
  <2>3. KernelCurrent'
    BY <1>2 DEF LayoutInv, KernelCurrent, LayoutDone, foreign, plan
  <2> QED BY <1>2, <2>1, <2>2, <2>3, Unplanned DEF LayoutInv
<1>3. ASSUME NEW i \in DOMAIN regions,
             bundle' = FirstPage(regions[i], cursor),
             cursor' = AlignUp(FirstPage(regions[i], cursor) + BundleLen, Page),
             pc = "preload", pc' = "build",
             UNCHANGED <<given, staging, regions, kernelEnd, addr, loop,
                         segments, foreign>>
      PROVE  LayoutInv'
  <2>1. /\ TypeOK /\ ModulesStacked /\ KernelCurrent
        /\ addr \in Seq(Nat) /\ cursor \in Nat /\ kernelEnd \in Nat
    BY DEF TypeInv, TypeOK, LayoutInv
  <2>2. BundleLen \in Nat /\ AlignUp(BundleLen, Page) \in Nat
    BY <2>1, BundleLenType, AlignUpBounds
  <2>3. bundle' \in Nat /\ cursor <= bundle' /\ \E q \in Nat : bundle' = q * Page
    BY <1>3, <2>1, RegionType, FirstPageFacts
  <2>4. cursor' = bundle' + AlignUp(BundleLen, Page)
    BY <1>3, <2>2, <2>3, PageRounding
  <2>5. cursor <= cursor' /\ cursor' \in Nat
    BY <2>1, <2>2, <2>3, <2>4
  <2>6. ASSUME NEW j \in DOMAIN addr PROVE ModuleEnd(j) \in Nat
    <3>1. j \in DOMAIN files /\ addr[j] \in Nat
      BY <2>1, PlacedType
    <3> QED BY <2>1, <3>1, FileLengthType DEF ModuleEnd
  <2>7. /\ KernelPhys <= kernelEnd /\ kernelEnd <= cursor
        /\ \A j \in DOMAIN addr : kernelEnd <= addr[j] /\ ModuleEnd(j) <= cursor
        /\ \A j, k \in DOMAIN addr : j < k => ModuleEnd(j) <= addr[k]
    BY <1>3, <2>1 DEF ModulesStacked, LayoutDone
  <2>8. \A j \in DOMAIN addr : ModuleEnd(j) <= cursor' /\ ModuleEnd(j) <= bundle'
    <3> TAKE j \in DOMAIN addr
    <3>1. ModuleEnd(j) <= cursor /\ ModuleEnd(j) \in Nat
      BY <2>6, <2>7
    <3> QED BY <2>1, <2>3, <2>5, <3>1
  <2>9. kernelEnd <= cursor' /\ kernelEnd <= bundle'
    BY <2>1, <2>3, <2>5, <2>7
  <2>10. ModulesStacked'
    BY <1>3, <2>7, <2>8, <2>9
    DEF ModulesStacked, LayoutDone, given, KernelPhys, ModuleEnd
  <2>11. BundleStacked'
    <3>1. BundleLen' = BundleLen
      BY <1>3 DEF given, BundleLen, FontOffset, EnvOffset
    <3>2. bundle' + AlignUp(BundleLen', Page) <= cursor'
      BY <2>2, <2>3, <2>4, <3>1
    <3> QED BY <1>3, <2>8, <2>9, <3>2 DEF BundleStacked, given, ModuleEnd
  <2>12. MetadataStacked'
    BY <1>3 DEF MetadataStacked, LoopDone
  <2>13. KernelCurrent'
    BY <1>3, <2>1 DEF KernelCurrent, LayoutDone, foreign
  <2> QED BY <1>3, <2>10, <2>11, <2>12, <2>13, Unplanned DEF LayoutInv
<1> QED BY <1>1, <1>2, <1>3 DEF BuildPreload, AfterPreload

\* What the steps after the bundle keep: everything below cursor.
LEMMA StackStays ==
  ASSUME LayoutInv, BundleDone, BundleDone', UNCHANGED <<foreign, given, plan>>
  PROVE  ModulesStacked' /\ BundleStacked' /\ KernelCurrent'
<1>1. ModulesStacked'
  BY DEF LayoutInv, ModulesStacked, LayoutDone, BundleDone, given, plan, KernelPhys, ModuleEnd
<1>2. BundleStacked'
  BY DEF LayoutInv, BundleStacked, given, plan, ModuleEnd, BundleLen, FontOffset, EnvOffset
<1>3. KernelCurrent'
  BY DEF LayoutInv, KernelCurrent, LayoutDone, BundleDone, foreign, plan
<1> QED BY <1>1, <1>2, <1>3

LEMMA MetadataKeepsLayout ==
  ASSUME TypeInv, LayoutInv, BuildMetadata
  PROVE  LayoutInv'
<1>1. CASE Fail
  BY <1>1, FailKeepsLayout
<1>2. CASE /\ meta' = Metadata(0, 0) /\ pc = "build" /\ pc' = "iterate"
           /\ UNCHANGED <<given, plan, modulep, kernend, iteration,
                          segments, foreign>>
  <2>1. iteration' = 0
    BY <1>2 DEF TypeInv, LoopCounted
  <2>2. BundleDone /\ BundleDone' /\ ~LoopDone'
    BY <1>2 DEF BundleDone, LoopDone
  <2>3. meta' = Metadata(0, 0)'
    BY <1>2 DEF Metadata, Late, given
  <2>4. MetadataStacked'
    BY <2>1, <2>2, <2>3 DEF MetadataStacked
  <2> QED BY <1>2, <2>2, <2>4, StackStays, Unplanned DEF LayoutInv
<1> QED BY <1>1, <1>2 DEF BuildMetadata

\* A pass reserves whole pages for the block as it is and builds it again.
\* From the second pass on the length cannot change any more, so the loop ends
\* with the block it has reserved room for.
LEMMA IterationKeepsLayout ==
  ASSUME TypeInv, LayoutInv, ModulepIteration
  PROVE  LayoutInv'
<1>1. CASE Fail
  BY <1>1, FailKeepsLayout
<1>2. ASSUME NEW phys, NEW end, NEW i \in DOMAIN regions,
             phys = FirstPage(regions[i], cursor), end = phys + MetaSpace,
             modulep' = phys, kernend' = end,
             meta' = Metadata(phys - staging, end - KernelPhys),
             iteration' = iteration + 1, pc = "iterate",
             pc' = IF LoopEnds(meta'.len) THEN "assemble" ELSE "iterate",
             UNCHANGED <<given, plan, segments, foreign>>
      PROVE  LayoutInv'
  <2>1. /\ TypeOK /\ staging \in Nat /\ cursor \in Nat /\ kernelEnd \in Nat
        /\ metaSize \in Nat \ {0} /\ iteration \in Nat /\ KernelPhys \in Nat
        /\ meta.len \in Nat
    BY DEF TypeInv, TypeOK, KernelPhys
  <2>2. phys \in Nat /\ cursor <= phys
    BY <1>2, <2>1, RegionType, FirstPageFacts
  <2>3. KernelPhys <= kernelEnd /\ kernelEnd <= cursor /\ staging < KernelPhys
    BY <1>2, <2>1 DEF LayoutInv, ModulesStacked, LayoutDone, KernelPhys
  <2>4. /\ iteration = 0 => meta = Metadata(0, 0)
        /\ iteration > 0 => /\ staging < modulep /\ KernelPhys < kernend
                            /\ meta = Metadata(modulep - staging, kernend - KernelPhys)
    BY <1>2 DEF LayoutInv, MetadataStacked
  <2>5. modulep \in Nat /\ kernend \in Nat
    BY DEF TypeInv, TypeOK
  <2>6. meta.len >= 1 /\ (iteration > 0 => meta.len = metaSize + 2 * RecordLen)
        /\ (iteration = 0 => meta.len = metaSize)
    BY <2>1, <2>4, <2>5 DEF Metadata, Late
  <2>7. MetaSpace \in Nat /\ MetaSpace >= 1
    BY <2>1, <2>6, MetaSpaceType
  <2>8. end \in Nat /\ staging < phys /\ KernelPhys < end
    BY <1>2, <2>1, <2>2, <2>3, <2>7
  <2>9. meta'.len = metaSize + 2 * RecordLen
    BY <1>2, <2>1, <2>2, <2>8 DEF Metadata, Late
  <2>10. pc' = "assemble" => meta'.len = meta.len
    <3>1. CASE iteration = 0
      <4>1. meta'.len # meta.len
        BY <2>1, <2>6, <2>9, <3>1
      <4>2. iteration + 1 # MaxIterations
        BY <3>1
      <4> QED BY <1>2, <4>1, <4>2 DEF LoopEnds
    <3>2. CASE iteration > 0
      BY <2>6, <2>9, <3>2
    <3> QED BY <2>1, <3>1, <3>2
  <2>11. BundleDone /\ BundleDone' /\ pc' \in {"assemble", "iterate"}
    BY <1>2 DEF BundleDone
  <2>12. meta' = Metadata(modulep - staging, kernend - KernelPhys)'
    BY <1>2 DEF Metadata, Late, given, plan, KernelPhys
  <2>13. staging' < modulep' /\ KernelPhys' < kernend' /\ iteration' > 0
    BY <1>2, <2>1, <2>8 DEF plan, KernelPhys
  <2>14. pc' = "assemble" => cursor' <= modulep' /\ modulep' + MetaSpace' = kernend'
    BY <1>2, <2>2, <2>10 DEF plan, MetaSpace
  <2>15. MetadataStacked'
    BY <2>1, <2>11, <2>12, <2>13, <2>14, <1>2 DEF MetadataStacked, LoopDone
  <2> QED BY <1>2, <2>11, <2>15, StackStays, Unplanned DEF LayoutInv
<1> QED BY <1>1, <1>2 DEF ModulepIteration

LEMMA AssembleKeepsLayout ==
  ASSUME TypeInv, LayoutInv, Assemble
  PROVE  LayoutInv'
<1>1. CASE Fail
  BY <1>1, FailKeepsLayout
<1>2. CASE /\ pc = "assemble" /\ pc' = "segments"
           /\ UNCHANGED <<given, plan, loop, segments, foreign>>
  <2>1. BundleDone /\ BundleDone'
    BY <1>2 DEF BundleDone
  <2>2. MetadataStacked'
    BY <1>2
    DEF LayoutInv, MetadataStacked, LoopDone, given, plan, loop, Metadata, Late,
        MetaSpace, KernelPhys
  <2> QED BY <1>2, <2>1, <2>2, StackStays, Unplanned DEF LayoutInv
<1> QED BY <1>1, <1>2 DEF Assemble

\* Foreign writers touch nothing the plan has already taken in.
LEMMA ForeignKeepsLayout ==
  ASSUME TypeInv, LayoutInv, ReplaceKernel \/ IomemChanges
  PROVE  LayoutInv'
<1>1. /\ pc' = pc /\ pc # "planned" /\ changes' # 0
      /\ UNCHANGED <<given, plan, loop, segments>>
  BY DEF ReplaceKernel, IomemChanges, Running, TypeInv, TypeOK
<1>2. ModulesStacked'
  BY <1>1 DEF LayoutInv, ModulesStacked, LayoutDone, given, plan, KernelPhys, ModuleEnd
<1>3. BundleStacked'
  BY <1>1
  DEF LayoutInv, BundleStacked, BundleDone, given, plan, ModuleEnd, BundleLen,
      FontOffset, EnvOffset
<1>4. MetadataStacked'
  BY <1>1
  DEF LayoutInv, MetadataStacked, LoopDone, given, plan, loop, Metadata, Late,
      MetaSpace, KernelPhys
<1>5. KernelCurrent'
  BY <1>1 DEF KernelCurrent
<1> QED BY <1>1, <1>2, <1>3, <1>4, <1>5, Unplanned DEF LayoutInv
---------------------------------------------------------------------------
(* The finished plan. *)

\* The segment list made from a kernel image that ends at offset e.
IsSegmentList(list, e) ==
  list = BootSegments
           \o <<Segment("kernel", KernelPhys, e - KernelPhysBase)>> \o BlockSegments

\* What stands at each index of it.
LEMMA SegmentShapes ==
  ASSUME TypeOK, NEW e, NEW list
  PROVE  IsSegmentList(list, e) => \A k \in DOMAIN list :
         \/ k = 1 /\ list[k] = Segment("boot", staging + BootPhysBase, BootLen)
         \/ k = 2 /\ list[k] = Segment("kernel", KernelPhys, e - KernelPhysBase)
         \/ \E i \in DOMAIN addr :
              k = i + 2 /\ list[k] = Segment("module", addr[i], files[i])
         \/ /\ k = Len(addr) + 3
            /\ list[k] = Segment("modulep", modulep, meta.len)
         \/ /\ k = Len(addr) + 4 /\ BundleLen # 0
            /\ list[k] = Segment("bundle", bundle, BundleLen)
<1> DEFINE boot == Segment("boot", staging + BootPhysBase, BootLen)
           ker == Segment("kernel", KernelPhys, e - KernelPhysBase)
           mp == Segment("modulep", modulep, meta.len)
           bun == Segment("bundle", bundle, BundleLen)
           rest == IF BundleLen = 0 THEN <<>> ELSE <<bun>>
           n == Len(addr)
           mods == {Segment("module", addr[i], files[i]) : i \in DOMAIN addr}
           R == mods \union {boot, ker, mp, bun}
<1>1. n \in Nat /\ DOMAIN addr = 1 .. n
  BY DEF TypeOK
<1>2. /\ ModuleSegments \in Seq(R) /\ Len(ModuleSegments) = n
      /\ \A i \in 1 .. n : ModuleSegments[i] = Segment("module", addr[i], files[i])
  <2>1. ModuleSegments \in [1 .. n -> R]
    BY <1>1 DEF ModuleSegments
  <2> QED BY <1>1, <2>1 DEF ModuleSegments
<1>3. BootSegments \o <<ker>> \o BlockSegments
        = (<<boot>> \o <<ker>>) \o ((ModuleSegments \o <<mp>>) \o rest)
  BY DEF BlockSegments, BootSegments
<1>4. boot \in R /\ ker \in R /\ mp \in R /\ bun \in R
  OBVIOUS
<1> HIDE DEF R, mods, boot, ker, mp, bun
<1>5. rest \in Seq(R)
  BY <1>4
<1>6. PICK r \in {0, 1} : r = Len(rest) /\ (r = 1 => BundleLen # 0 /\ rest[1] = bun)
  <2>1. CASE BundleLen = 0
    BY <2>1
  <2>2. CASE BundleLen # 0
    BY <2>2
  <2> QED BY <2>1, <2>2
<1> HIDE DEF rest, n
<1>7. ModuleSegments \in Seq(R)
  BY <1>2
<1>8. LET all == (<<boot>> \o <<ker>>) \o ((ModuleSegments \o <<mp>>) \o rest)
      IN  /\ DOMAIN all = 1 .. Len(ModuleSegments) + 3 + Len(rest)
          /\ all[1] = boot /\ all[2] = ker
          /\ \A i \in 1 .. Len(ModuleSegments) : all[2 + i] = ModuleSegments[i]
          /\ all[Len(ModuleSegments) + 3] = mp
          /\ \A i \in 1 .. Len(rest) : all[Len(ModuleSegments) + 3 + i] = rest[i]
  <2>1. PICK S : S = R
    OBVIOUS
  <2>2. PICK b : b = boot
    OBVIOUS
  <2>3. PICK kn : kn = ker
    OBVIOUS
  <2>4. PICK m : m = mp
    OBVIOUS
  <2>5. PICK ms : ms = ModuleSegments
    OBVIOUS
  <2>6. PICK rs : rs = rest
    OBVIOUS
  <2>7. b \in S /\ kn \in S /\ m \in S /\ ms \in Seq(S) /\ rs \in Seq(S)
    BY ONLY <1>4, <1>5, <1>7, <2>1, <2>2, <2>3, <2>4, <2>5, <2>6
  <2>8. LET all == (<<b>> \o <<kn>>) \o ((ms \o <<m>>) \o rs)
        IN  /\ DOMAIN all = 1 .. Len(ms) + 3 + Len(rs)
            /\ all[1] = b /\ all[2] = kn
            /\ \A i \in 1 .. Len(ms) : all[2 + i] = ms[i]
            /\ all[Len(ms) + 3] = m
            /\ \A i \in 1 .. Len(rs) : all[Len(ms) + 3 + i] = rs[i]
    BY ONLY <2>7, FiveParts
  <2> QED BY ONLY <2>2, <2>3, <2>4, <2>5, <2>6, <2>8, Zenon
<1> SUFFICES ASSUME list = BootSegments \o <<ker>> \o BlockSegments, NEW k \in DOMAIN list
             PROVE  \/ k = 1 /\ list[k] = boot
                    \/ k = 2 /\ list[k] = ker
                    \/ \E i \in DOMAIN addr :
                         k = i + 2 /\ list[k] = Segment("module", addr[i], files[i])
                    \/ k = Len(addr) + 3 /\ list[k] = mp
                    \/ k = Len(addr) + 4 /\ BundleLen # 0 /\ list[k] = bun
  BY DEF boot, ker, mp, bun, IsSegmentList
<1>9. /\ DOMAIN list = 1 .. n + 3 + r
      /\ list[1] = boot /\ list[2] = ker
      /\ \A i \in 1 .. n : list[2 + i] = ModuleSegments[i]
      /\ list[n + 3] = mp
      /\ \A i \in 1 .. r : list[n + 3 + i] = rest[i]
  BY <1>2, <1>3, <1>6, <1>8, Zenon
<1>10. CASE k = 1
  BY <1>9, <1>10
<1>11. CASE k = 2
  BY <1>9, <1>11
<1>12. CASE k - 2 \in 1 .. n
  <2>1. PICK i \in 1 .. n : k = 2 + i /\ k = i + 2
    <3>1. k \in 1 .. n + 3 + r
      BY <1>9
    <3>2. n + 3 + r \in Nat /\ k \in Nat
      BY <1>1, <1>6, <3>1
    <3> QED BY <1>12, <3>2
  <2>2. list[k] = Segment("module", addr[i], files[i])
    BY <1>2, <1>9, <2>1
  <2> QED BY <1>1, <2>1, <2>2
<1>13. CASE k = n + 3
  BY <1>9, <1>13 DEF n
<1>14. CASE k = n + 4 /\ r = 1
  <2>1. 1 \in 1 .. r /\ n + 3 + 1 = n + 4
    BY <1>1, <1>14
  <2>2. list[k] = bun
    BY <1>6, <1>9, <1>14, <2>1
  <2> QED BY <1>6, <1>14, <2>2 DEF n
<1>15. k = 1 \/ k = 2 \/ k - 2 \in 1 .. n \/ k = n + 3 \/ (k = n + 4 /\ r = 1)
  <2>1. k \in 1 .. n + 3 + r
    BY <1>9
  <2>2. n \in Nat
    BY <1>1
  <2> QED BY <2>1, <2>2
<1> QED BY <1>10, <1>11, <1>12, <1>13, <1>14, <1>15

\* Where each segment of a finished plan lies, for a kernel that has not grown.
LEMMA SegmentBounds ==
  ASSUME TypeInv, LayoutInv, pc = "segments",
         NEW e \in Nat, e >= KernelPhysBase, NEW list, IsSegmentList(list, e),
         \A k \in DOMAIN list : list[k].kind = "kernel" => End(list[k]) <= kernelEnd,
         NEW k \in DOMAIN list
  PROVE  \/ k = 1 /\ End(list[k]) \in Nat /\ End(list[k]) <= KernelPhys
         \/ /\ k = 2 /\ End(list[k]) \in Nat
            /\ list[k].mem = KernelPhys /\ End(list[k]) <= kernelEnd
         \/ \E i \in DOMAIN addr :
              k = i + 2 /\ list[k].mem = addr[i] /\ End(list[k]) = ModuleEnd(i)
         \/ k = Len(addr) + 3 /\ list[k].mem = modulep /\ End(list[k]) = kernend
         \/ /\ k = Len(addr) + 4 /\ BundleLen # 0 /\ list[k].mem = bundle
            /\ End(list[k]) = bundle + AlignUp(BundleLen, Page)
<1>1. \/ k = 1 /\ list[k] = Segment("boot", staging + BootPhysBase, BootLen)
      \/ k = 2 /\ list[k] = Segment("kernel", KernelPhys, e - KernelPhysBase)
      \/ \E i \in DOMAIN addr :
           k = i + 2 /\ list[k] = Segment("module", addr[i], files[i])
      \/ k = Len(addr) + 3 /\ list[k] = Segment("modulep", modulep, meta.len)
      \/ /\ k = Len(addr) + 4 /\ BundleLen # 0
         /\ list[k] = Segment("bundle", bundle, BundleLen)
  BY SegmentShapes DEF TypeInv
<1>2. CASE k = 1 /\ list[k] = Segment("boot", staging + BootPhysBase, BootLen)
  <2>1. AlignUp(BootLen, Page) \in Nat /\ staging \in Nat
    BY AlignUpBounds DEF TypeInv, TypeOK
  <2>2. End(list[k]) = staging + BootPhysBase + AlignUp(BootLen, Page)
    BY <1>2 DEF End, Segment
  <2> QED BY <1>2, <2>1, <2>2, BootBlockAssumption DEF KernelPhys
<1>3. CASE k = 2 /\ list[k] = Segment("kernel", KernelPhys, e - KernelPhysBase)
  <2>1. KernelPhys \in Nat
    BY DEF TypeInv, TypeOK, KernelPhys
  <2>2. e - KernelPhysBase \in Nat
    OBVIOUS
  <2>3. AlignUp(e - KernelPhysBase, Page) \in Nat
    BY <2>2, AlignUpBounds
  <2> QED BY <1>3, <2>1, <2>3 DEF Segment, End
<1>4. ASSUME NEW i \in DOMAIN addr, k = i + 2, list[k] = Segment("module", addr[i], files[i])
      PROVE  list[k].mem = addr[i] /\ End(list[k]) = ModuleEnd(i)
  BY <1>4 DEF Segment, End, ModuleEnd
<1>5. CASE k = Len(addr) + 3 /\ list[k] = Segment("modulep", modulep, meta.len)
  <2>1. modulep + MetaSpace = kernend
    BY DEF LayoutInv, MetadataStacked, LoopDone
  <2> QED BY <1>5, <2>1 DEF Segment, End, MetaSpace
<1>6. CASE /\ k = Len(addr) + 4 /\ BundleLen # 0
           /\ list[k] = Segment("bundle", bundle, BundleLen)
  BY <1>6 DEF Segment, End
<1> QED BY <1>1, <1>2, <1>3, <1>4, <1>5, <1>6

\* What the invariant says of the stack just before the segments are made.
LEMMA FinishedStack ==
  ASSUME TypeInv, LayoutInv, pc = "segments"
  PROVE  /\ KernelPhys \in Nat /\ kernelEnd \in Nat /\ cursor \in Nat
         /\ modulep \in Nat /\ kernend \in Nat /\ bundle \in Nat
         /\ AlignUp(BundleLen, Page) \in Nat /\ BundleLen \in Nat
         /\ KernelPhys <= kernelEnd /\ kernelEnd <= cursor
         /\ cursor <= modulep /\ modulep <= kernend
         /\ BundleLen # 0 =>
              kernelEnd <= bundle /\ bundle + AlignUp(BundleLen, Page) <= cursor
         /\ \A i \in DOMAIN addr :
              /\ addr[i] \in Nat /\ ModuleEnd(i) \in Nat /\ i \in Nat
              /\ kernelEnd <= addr[i] /\ addr[i] <= ModuleEnd(i) /\ ModuleEnd(i) <= cursor
              /\ BundleLen # 0 => ModuleEnd(i) <= bundle
         /\ \A i, j \in DOMAIN addr : i < j => ModuleEnd(i) <= addr[j]
<1>1. /\ KernelPhys \in Nat /\ kernelEnd \in Nat /\ cursor \in Nat
      /\ modulep \in Nat /\ kernend \in Nat /\ bundle \in Nat
  BY DEF TypeInv, TypeOK, KernelPhys
<1>2. BundleLen \in Nat /\ AlignUp(BundleLen, Page) \in Nat
  BY BundleLenType, AlignUpBounds DEF TypeInv
<1>3. MetaSpace \in Nat /\ modulep + MetaSpace = kernend /\ cursor <= modulep
  BY MetaSpaceType DEF TypeInv, LayoutInv, MetadataStacked, LoopDone
<1>4. ASSUME NEW i \in DOMAIN addr
      PROVE  addr[i] \in Nat /\ ModuleEnd(i) \in Nat /\ i \in Nat /\ addr[i] <= ModuleEnd(i)
  <2>1. addr[i] \in Nat /\ i \in DOMAIN files /\ i \in Nat
    BY DEF TypeInv, TypeOK
  <2>2. AlignUp(files[i], Page) \in Nat
    BY <2>1, FileLengthType DEF TypeInv
  <2> QED BY <2>1, <2>2 DEF ModuleEnd
<1>5. /\ KernelPhys <= kernelEnd /\ kernelEnd <= cursor
      /\ \A i \in DOMAIN addr : kernelEnd <= addr[i] /\ ModuleEnd(i) <= cursor
      /\ \A i, j \in DOMAIN addr : i < j => ModuleEnd(i) <= addr[j]
  BY DEF LayoutInv, ModulesStacked, LayoutDone
<1>6. BundleLen # 0 =>
        /\ kernelEnd <= bundle /\ bundle + AlignUp(BundleLen, Page) <= cursor
        /\ \A i \in DOMAIN addr : ModuleEnd(i) <= bundle
  BY <1>2 DEF LayoutInv, BundleStacked, BundleDone
<1>7. modulep <= kernend
  BY <1>1, <1>3
<1> QED BY <1>1, <1>2, <1>3, <1>4, <1>5, <1>6, <1>7

\* Two segments of a finished plan lie apart: the boot block, the kernel, the
\* modules in loader order, the bundle and the metadata follow one another.
LEMMA SegmentsApart ==
  ASSUME TypeInv, LayoutInv, pc = "segments",
         NEW e \in Nat, e >= KernelPhysBase, NEW list, IsSegmentList(list, e),
         \A k \in DOMAIN list : list[k].kind = "kernel" => End(list[k]) <= kernelEnd,
         NEW a \in DOMAIN list, NEW b \in DOMAIN list, a # b
  PROVE  End(list[a]) <= list[b].mem \/ End(list[b]) <= list[a].mem
<1> DEFINE Boot1(k) == k = 1 /\ End(list[k]) \in Nat /\ End(list[k]) <= KernelPhys
           Kernel2(k) == /\ k = 2 /\ End(list[k]) \in Nat
                         /\ list[k].mem = KernelPhys /\ End(list[k]) <= kernelEnd
           Module(k) == \E i \in DOMAIN addr :
             k = i + 2 /\ list[k].mem = addr[i] /\ End(list[k]) = ModuleEnd(i)
           Meta(k) == k = Len(addr) + 3 /\ list[k].mem = modulep /\ End(list[k]) = kernend
           Preload(k) == /\ k = Len(addr) + 4 /\ BundleLen # 0 /\ list[k].mem = bundle
                         /\ End(list[k]) = bundle + AlignUp(BundleLen, Page)
<1>1. Boot1(a) \/ Kernel2(a) \/ Module(a) \/ Meta(a) \/ Preload(a)
  BY SegmentBounds
<1>2. Boot1(b) \/ Kernel2(b) \/ Module(b) \/ Meta(b) \/ Preload(b)
  BY SegmentBounds
<1>3. /\ KernelPhys \in Nat /\ kernelEnd \in Nat /\ cursor \in Nat
      /\ modulep \in Nat /\ kernend \in Nat /\ bundle \in Nat
      /\ AlignUp(BundleLen, Page) \in Nat /\ BundleLen \in Nat
      /\ KernelPhys <= kernelEnd /\ kernelEnd <= cursor
      /\ cursor <= modulep /\ modulep <= kernend
      /\ BundleLen # 0 =>
           kernelEnd <= bundle /\ bundle + AlignUp(BundleLen, Page) <= cursor
      /\ \A i \in DOMAIN addr :
           /\ addr[i] \in Nat /\ ModuleEnd(i) \in Nat /\ i \in Nat
           /\ kernelEnd <= addr[i] /\ addr[i] <= ModuleEnd(i) /\ ModuleEnd(i) <= cursor
           /\ BundleLen # 0 => ModuleEnd(i) <= bundle
      /\ \A i, j \in DOMAIN addr : i < j => ModuleEnd(i) <= addr[j]
  BY FinishedStack
<1>4. CASE Boot1(a) \/ Boot1(b)
  BY ONLY a # b, <1>1, <1>2, <1>3, <1>4
<1>5. CASE Kernel2(a) \/ Kernel2(b)
  BY ONLY a # b, <1>1, <1>2, <1>3, <1>4, <1>5
<1>6. CASE Module(a) /\ Module(b)
  <2>1. PICK i \in DOMAIN addr : a = i + 2 /\ list[a].mem = addr[i] /\ End(list[a]) = ModuleEnd(i)
    BY <1>6
  <2>2. PICK j \in DOMAIN addr : b = j + 2 /\ list[b].mem = addr[j] /\ End(list[b]) = ModuleEnd(j)
    BY <1>6
  <2>3. i < j \/ j < i
    BY ONLY a # b, <1>3, <2>1, <2>2
  <2> QED BY ONLY <1>3, <2>1, <2>2, <2>3
<1>7. CASE Meta(a) \/ Meta(b)
  BY ONLY a # b, <1>1, <1>2, <1>3, <1>4, <1>5, <1>7
<1>8. CASE Preload(a) \/ Preload(b)
  BY ONLY a # b, <1>1, <1>2, <1>3, <1>4, <1>5, <1>7, <1>8
<1> QED BY ONLY <1>1, <1>2, <1>4, <1>5, <1>6, <1>7, <1>8

\* No segment of a finished plan reaches beyond the end of the metadata block.
LEMMA SegmentsBelowKernend ==
  ASSUME TypeInv, LayoutInv, pc = "segments",
         NEW e \in Nat, e >= KernelPhysBase, NEW list, IsSegmentList(list, e),
         \A k \in DOMAIN list : list[k].kind = "kernel" => End(list[k]) <= kernelEnd,
         NEW k \in DOMAIN list
  PROVE  End(list[k]) <= kernend
<1>1. \/ k = 1 /\ End(list[k]) \in Nat /\ End(list[k]) <= KernelPhys
      \/ k = 2 /\ End(list[k]) \in Nat /\ End(list[k]) <= kernelEnd
      \/ \E i \in DOMAIN addr : End(list[k]) = ModuleEnd(i)
      \/ End(list[k]) = kernend
      \/ BundleLen # 0 /\ End(list[k]) = bundle + AlignUp(BundleLen, Page)
  BY SegmentBounds
<1>2. /\ KernelPhys \in Nat /\ kernelEnd \in Nat /\ cursor \in Nat
      /\ modulep \in Nat /\ kernend \in Nat /\ bundle \in Nat
      /\ AlignUp(BundleLen, Page) \in Nat
      /\ KernelPhys <= kernelEnd /\ kernelEnd <= cursor
      /\ cursor <= modulep /\ modulep <= kernend
      /\ BundleLen # 0 => bundle + AlignUp(BundleLen, Page) <= cursor
      /\ \A i \in DOMAIN addr : ModuleEnd(i) \in Nat /\ ModuleEnd(i) <= cursor
  BY FinishedStack
<1> QED BY ONLY <1>1, <1>2

\* A kernel block ends on a page, so its segment is as long as the block.
LEMMA KernelBlockPaged ==
  ASSUME TypeInv, NEW file \in KernelFiles, ~BadKernel(file),
         NEW ph \in file
  PROVE  LET e == AlignUp(ph.off + ph.memsz, Page)
         IN  AlignUp(e - KernelPhysBase, Page) = e - KernelPhysBase
<1> DEFINE e == AlignUp(ph.off + ph.memsz, Page)
<1>1. e \in Nat /\ e >= KernelPhysBase
  BY PtLoadEnd
<1>2. PICK p \in Nat : e = p * Page
  <2>1. ph.off + ph.memsz \in Nat
    BY DEF PtLoad
  <2> QED BY <2>1, AlignUpMultiple
<1>3. PICK q \in Nat : KernelPhysBase = q * Page
  <2>1. KernelPhysBase \in Nat /\ Page \in Nat \ {0} /\ KernelPhysBase % Page = 0
    OBVIOUS
  <2> QED BY ONLY <2>1, Divides
<1> HIDE DEF e
<1>4. e - KernelPhysBase = (p - q) * Page
  BY <1>2, <1>3
<1>5. p - q \in Nat
  <2>1. (p - q) * Page >= 0
    BY <1>1, <1>4
  <2>2. ASSUME p - q < 0 PROVE FALSE
    <3>1. (p - q) * Page < 0
      BY <2>2
    <3> QED BY <2>1, <3>1
  <2> QED BY <2>2
<1>6. AlignUp((p - q) * Page, Page) = (p - q) * Page
  BY <1>5, AlignUpIdle
<1> QED BY <1>4, <1>6 DEF e

\* The only step that finishes a plan makes one of which PlanGood holds.
LEMMA PrepareKeepsLayout ==
  ASSUME TypeInv, LayoutInv, PrepareKexecSegments
  PROVE  LayoutInv'
<1>0. pc = "segments" /\ UNCHANGED foreign
  BY DEF PrepareKexecSegments
<1>1. CASE Fail
  BY <1>1, FailKeepsLayout
<1>2. ASSUME ~BadKernel(kernelFile), NEW ph \in kernelFile,
             IsMaxEnd(kernelFile, AlignUp(ph.off + ph.memsz, Page)),
             IsSegmentList(segments', AlignUp(ph.off + ph.memsz, Page)),
             pc' = "planned", UNCHANGED <<given, plan, loop>>
      PROVE  LayoutInv'
  <2>1. kernelFile \in KernelFiles
    BY DEF TypeInv, TypeOK
  <2>2. PICK e \in Nat : e = AlignUp(ph.off + ph.memsz, Page) /\ e >= KernelPhysBase
    BY <1>2, <2>1, PtLoadEnd
  <2>3. PICK list : list = segments' /\ IsSegmentList(list, e)
    BY <1>2, <2>2
  <2>4. ModulesStacked' /\ BundleStacked' /\ MetadataStacked' /\ KernelCurrent'
    BY <1>2
    DEF ModulesStacked, BundleStacked, MetadataStacked, KernelCurrent, LayoutDone,
        BundleDone, LoopDone
  <2>5. /\ KernelNotGrown' <=>
             \A k \in DOMAIN list : list[k].kind = "kernel" => End(list[k]) <= kernelEnd
        /\ kernend' = kernend
    BY <1>2, <2>3 DEF KernelNotGrown, Kernels, End, plan, loop
  <2>6. SegmentsDisjoint'
    <3>1. ASSUME KernelNotGrown', NEW a \in DOMAIN list, NEW b \in DOMAIN list, a # b
          PROVE  End(list[a]) <= list[b].mem \/ End(list[b]) <= list[a].mem
      BY <1>0, <2>2, <2>3, <2>5, <3>1, SegmentsApart
    <3> QED BY <2>3, <3>1 DEF SegmentsDisjoint, End
  <2>7. KernendAboveSegments'
    <3>1. ASSUME KernelNotGrown', NEW k \in DOMAIN list
          PROVE  End(list[k]) <= kernend
      BY <1>0, <2>2, <2>3, <2>5, <3>1, SegmentsBelowKernend
    <3> QED BY <2>3, <2>5, <3>1 DEF KernendAboveSegments, End
  <2>8. MetadataDescribesPlan'
    <3>1. /\ meta = Metadata(modulep - staging, kernend - KernelPhys)
          /\ modulep + MetaSpace = kernend
      BY <1>0 DEF LayoutInv, MetadataStacked, LoopDone
    <3>2. modulep \in Nat /\ kernend \in Nat /\ staging \in Nat /\ KernelPhys \in Nat
      BY DEF TypeInv, TypeOK, KernelPhys
    <3>3. meta.modulep + staging = modulep /\ meta.kernend + KernelPhys = kernend
      BY <3>1, <3>2 DEF Metadata
    <3>4. ASSUME changes = 0, NEW k \in DOMAIN list, list[k].kind = "kernel"
          PROVE  list[k].memsz = kernelEnd - KernelPhys
      <4>1. list[k] = Segment("kernel", KernelPhys, e - KernelPhysBase)
        <5>1. list[k].kind = "kernel"
          BY <3>4
        <5>2. \/ list[k] = Segment("boot", staging + BootPhysBase, BootLen)
              \/ list[k] = Segment("kernel", KernelPhys, e - KernelPhysBase)
              \/ \E i \in DOMAIN addr : list[k] = Segment("module", addr[i], files[i])
              \/ list[k] = Segment("modulep", modulep, meta.len)
              \/ list[k] = Segment("bundle", bundle, BundleLen)
          BY <2>3, <3>4, SegmentShapes DEF TypeInv
        <5> QED BY ONLY <5>1, <5>2 DEF Segment
      <4>2. list[k].memsz = e - KernelPhysBase
        BY <1>2, <2>1, <2>2, <4>1, KernelBlockPaged DEF Segment
      <4>3. IsMaxEnd(kernelFile, kernelEnd - staging) /\ kernelEnd \in Nat
        BY <1>0, <3>4 DEF LayoutInv, KernelCurrent, LayoutDone, TypeInv, TypeOK
      <4>4. e = kernelEnd - staging
        <5>1. e <= kernelEnd - staging /\ kernelEnd - staging <= e
          BY <1>2, <2>2, <4>3 DEF IsMaxEnd
        <5> QED BY <2>2, <3>2, <4>3, <5>1
      <4> QED BY <3>2, <4>2, <4>3, <4>4 DEF KernelPhys
    <3>5. /\ changes' = changes /\ meta' = meta /\ staging' = staging
          /\ modulep' = modulep /\ kernend' = kernend /\ kernelEnd' = kernelEnd
      BY <1>0, <1>2 DEF foreign, plan, loop
    <3>6. MetaSpace' = MetaSpace /\ KernelPhys' = KernelPhys
      BY <3>5 DEF MetaSpace, KernelPhys
    <3> QED
      BY <2>3, <3>1, <3>3, <3>4, <3>5, <3>6 DEF MetadataDescribesPlan, Kernels
  <2> QED BY <2>4, <2>6, <2>7, <2>8 DEF LayoutInv, PlanGood
<1> QED BY <1>1, <1>2 DEF PrepareKexecSegments, IsSegmentList

\* A step that changes nothing keeps everything.
LEMMA StutterKeepsLayout ==
  ASSUME LayoutInv, UNCHANGED vars
  PROVE  LayoutInv'
BY DEF LayoutInv, vars, foreign, given, plan, loop, ModulesStacked, BundleStacked,
       MetadataStacked, KernelCurrent, PlanGood, LayoutDone, BundleDone, LoopDone,
       KernelPhys, ModuleEnd, BundleLen, FontOffset, EnvOffset, Metadata, Late,
       MetaSpace, SegmentsDisjoint, KernendAboveSegments, MetadataDescribesPlan,
       Planned, KernelNotGrown, Kernels, End

\* What every step of boot() relies on holds in every state it can reach.
THEOREM LayoutInvariant == Spec => []LayoutInv
<1>1. Init => LayoutInv
  BY DEF Init, LayoutInv, ModulesStacked, BundleStacked, MetadataStacked, KernelCurrent,
         PlanGood, SegmentsDisjoint, KernendAboveSegments, MetadataDescribesPlan,
         Planned, LayoutDone, BundleDone, LoopDone
<1>2. TypeInv /\ LayoutInv /\ [Next]_vars => LayoutInv'
  BY EarlyKeepsLayout, LayoutKeepsLayout, AssignKeepsLayout, ModulesDoneKeepsLayout,
     PreloadKeepsLayout, MetadataKeepsLayout, IterationKeepsLayout, AssembleKeepsLayout,
     PrepareKeepsLayout, ForeignKeepsLayout, StutterKeepsLayout
  DEF Next, Boot, Done
<1> QED BY <1>1, <1>2, TypeInvariant, PTL DEF Spec

\* No two segments of a finished plan share a byte, for any page size, regions,
\* modules and kernel images, as long as the kernel file did not grow.
THEOREM SegmentsNeverOverlap == Spec => []SegmentsDisjoint
<1>1. LayoutInv => SegmentsDisjoint
  BY DEF LayoutInv, PlanGood
<1> QED BY <1>1, LayoutInvariant, PTL

\* The memory the booted kernel takes for itself begins above every segment.
THEOREM KernendIsAboveSegments == Spec => []KernendAboveSegments
<1>1. LayoutInv => KernendAboveSegments
  BY DEF LayoutInv, PlanGood
<1> QED BY <1>1, LayoutInvariant, PTL

\* The metadata that is loaded describes the plan it is loaded with.
THEOREM MetadataIsCurrent == Spec => []MetadataDescribesPlan
<1>1. LayoutInv => MetadataDescribesPlan
  BY DEF LayoutInv, PlanGood
<1> QED BY <1>1, LayoutInvariant, PTL
---------------------------------------------------------------------------
(* Where the segments of a finished plan lie, on whole pages of RAM; and   *)
(* that every planning step reserves one block at or above all earlier     *)
(* ones, or moves nothing.                                                 *)

LEMMA NoRemainder ==
  ASSUME NEW x \in Nat, NEW a \in Nat \ {0}, NEW q \in Nat, x = q * a
  PROVE  x % a = 0
<1>1. a \in Nat /\ a # 0
  OBVIOUS
<1> QED BY ONLY x \in Nat, q \in Nat, x = q * a, <1>1, SMTT(60)

\* The start of a page leaves no remainder.
LEMMA OnPageRemainder ==
  ASSUME NEW x \in Nat, OnPage(x)
  PROVE  x % Page = 0
BY NoRemainder DEF OnPage

\* A multiple of KEXEC_ALIGN is the start of a page.
LEMMA KexecAlignOnPage ==
  ASSUME NEW v \in Nat
  PROVE  OnPage(AlignUp(v, KexecAlign))
<1>1. PICK q \in Nat : AlignUp(v, KexecAlign) = q * KexecAlign
  BY AlignUpMultiple
<1>2. PICK k \in Nat : KexecAlign = k * Page
  BY PagesAssumption, Divides
<1>3. q * k \in Nat /\ q * KexecAlign = (q * k) * Page
  BY <1>2
<1> QED BY <1>1, <1>3 DEF OnPage

LEMMA FirstPageOnPage ==
  ASSUME TypeOK, NEW i \in DOMAIN regions
  PROVE  FirstPage(regions[i], cursor) \in Nat /\ OnPage(FirstPage(regions[i], cursor))
<1>1. cursor \in Nat /\ regions[i] \in Region
  BY RegionType DEF TypeOK
<1> QED BY <1>1, FirstPageFacts DEF OnPage

\* The boot block starts on a page when the staging base does.
LEMMA BootBlockOnPage ==
  ASSUME NEW s \in Nat, OnPage(s)
  PROVE  OnPage(s + BootPhysBase)
<1>1. PICK q \in Nat : s = q * Page
  BY DEF OnPage
<1>2. PICK k \in Nat : BootPhysBase = k * Page
  BY PagesAssumption, Divides
<1>3. q + k \in Nat /\ s + BootPhysBase = (q + k) * Page
  BY <1>1, <1>2
<1> QED BY <1>3 DEF OnPage
---------------------------------------------------------------------------
(* RAM. *)

\* What is_range_available accepts is made of bytes of one region.
LEMMA InRegionsOnRam ==
  ASSUME TypeOK, NEW s \in SegmentType, InRegions(s.mem, s.memsz, regions)
  PROVE  s.memsz > 0 /\ OnRam(s)
<1>1. s.mem \in Nat /\ s.memsz \in Nat /\ s.memsz > 0
  BY DEF SegmentType, InRegions
<1>2. PICK i \in DOMAIN regions :
        s.mem >= regions[i].start /\ s.mem + s.memsz - 1 <= regions[i].end
  BY DEF InRegions
<1>3. regions[i].start \in Nat /\ regions[i].end \in Nat
  BY RegionType DEF Region
<1>4. ASSUME NEW b \in s.mem .. End(s) - 1
      PROVE  regions[i].start <= b /\ b <= regions[i].end
  BY <1>1, <1>2, <1>3 DEF End
<1> QED BY <1>1, <1>4 DEF OnRam

\* A segment has room for its data, and none without data has room.
LEMMA SegmentRoom ==
  ASSUME NEW kind \in {"boot", "module", "modulep", "bundle", "kernel"},
         NEW mem \in Nat, NEW len \in Nat, NEW s, s = Segment(kind, mem, len),
         s.memsz > 0
  PROVE  s.mem = mem /\ s.bufsz > 0 /\ s.bufsz <= s.memsz
<1>1. s.mem = mem /\ s.bufsz = len /\ s.memsz = AlignUp(len, Page)
  BY DEF Segment
<1>2. len <= AlignUp(len, Page)
  BY AlignUpBounds
<1>3. ASSUME len = 0 PROVE FALSE
  <2>1. AlignUp(0 * Page, Page) = 0 * Page
    BY AlignUpIdle
  <2>2. AlignUp(0, Page) = 0
    BY <2>1
  <2> QED BY <1>1, <1>3, <2>2
<1> QED BY <1>1, <1>2, <1>3

\* Leaving out the second of three parts drops one element.
Parts2(b, t) == <<b>> \o t
Parts3(b, k, t) == <<b>> \o <<k>> \o t

LEMMA WithoutSecond ==
  ASSUME NEW S, NEW b \in S, NEW k \in S, NEW t \in Seq(S),
         NEW j \in DOMAIN Parts3(b, k, t), j # 2
  PROVE  \E i \in DOMAIN Parts2(b, t) : Parts2(b, t)[i] = Parts3(b, k, t)[j]
<1>1. PICK head : head = <<b>> \o <<k>>
  OBVIOUS
<1>2. head \in Seq(S) /\ Len(head) = 2 /\ head[1] = b
  BY <1>1
<1>3. PICK n \in Nat : n = Len(t)
  OBVIOUS
<1>4. PICK list : list = head \o t
  OBVIOUS
<1>5. /\ DOMAIN list = 1 .. 2 + n
      /\ \A i \in 1 .. 2 : list[i] = head[i]
      /\ \A i \in 1 .. n : list[2 + i] = t[i]
  <2>1. /\ DOMAIN (head \o t) = 1 .. Len(head) + Len(t)
        /\ \A i \in 1 .. Len(head) : (head \o t)[i] = head[i]
        /\ \A i \in 1 .. Len(t) : (head \o t)[Len(head) + i] = t[i]
    <3>1. head \in Seq(S)
      BY <1>2
    <3> QED BY <3>1, Concatenated
  <2> QED BY ONLY <2>1, <1>2, <1>3, <1>4
<1>6. PICK short : short = <<b>> \o t
  OBVIOUS
<1>7. /\ DOMAIN short = 1 .. 1 + n
      /\ short[1] = b
      /\ \A i \in 1 .. n : short[1 + i] = t[i]
  <2>1. PICK one : one = <<b>>
    OBVIOUS
  <2>2. one \in Seq(S) /\ Len(one) = 1 /\ one[1] = b
    BY <2>1
  <2>3. /\ DOMAIN (one \o t) = 1 .. Len(one) + Len(t)
        /\ \A i \in 1 .. Len(one) : (one \o t)[i] = one[i]
        /\ \A i \in 1 .. Len(t) : (one \o t)[Len(one) + i] = t[i]
    <3>1. one \in Seq(S)
      BY <2>2
    <3> QED BY <3>1, Concatenated
  <2>4. short = one \o t
    BY <1>6, <2>1
  <2> QED BY ONLY <1>3, <2>2, <2>3, <2>4
<1>8. j \in DOMAIN list
  BY <1>1, <1>4, Zenon DEF Parts3
<1>9. ASSUME j = 1 PROVE \E i \in DOMAIN short : short[i] = list[j]
  BY ONLY <1>2, <1>3, <1>5, <1>7, <1>9
<1>10. ASSUME j # 1 PROVE \E i \in DOMAIN short : short[i] = list[j]
  <2>1. PICK i \in 1 .. n : j = 2 + i
    <3>1. j - 2 \in 1 .. n /\ j = 2 + (j - 2)
      BY ONLY <1>3, <1>5, <1>8, <1>10, j # 2
    <3> QED BY <3>1
  <2>2. 1 + i \in 1 .. 1 + n /\ list[j] = t[i] /\ short[1 + i] = t[i]
    BY ONLY <1>3, <1>5, <1>7, <2>1
  <2> QED BY ONLY <1>7, <2>2
<1>11. \E i \in DOMAIN short : short[i] = list[j]
  BY <1>9, <1>10
<1> QED BY <1>1, <1>4, <1>6, <1>11, Zenon DEF Parts2, Parts3
---------------------------------------------------------------------------
(* The inductive step of RamInv, one lemma per group of actions. *)

\* What the steps that place nothing leave alone.
placed == <<staging, addr, bundle, modulep>>
surveyed == <<iomem, changes, regions>>

\* Nothing is claimed of a plan that is not finished.
LEMMA UnplannedRam == pc' # "planned" => SegmentsOnRamPages' /\ KernelInRam'
BY DEF SegmentsOnRamPages, KernelInRam, Planned

LEMMA PlacedKeepsPaged == PlanPaged /\ UNCHANGED placed => PlanPaged'
BY DEF PlanPaged, OnPage, placed

LEMMA FailKeepsRam == RamInv /\ Fail => RamInv'
<1> SUFFICES ASSUME RamInv, Fail PROVE RamInv'
  OBVIOUS
<1>1. UNCHANGED placed /\ pc' = "failed"
  BY DEF Fail, plan, loop, placed
<1> QED BY <1>1, PlacedKeepsPaged, UnplannedRam DEF RamInv, HoleKept, RegionsCurrent, LayoutDone

\* Steps after the second read keep what both reads said.
LEMMA SurveyKept ==
  ASSUME RamInv, UNCHANGED surveyed, staging' = staging, pc = "layout" \/ LayoutDone
  PROVE  HoleKept' /\ RegionsCurrent'
BY DEF RamInv, HoleKept, RegionsCurrent, LayoutDone, surveyed

LEMMA FindStagingKeepsRam ==
  ASSUME TypeOK, RamInv, FindStaging
  PROVE  RamInv'
<1>1. CASE Fail
  BY <1>1, FailKeepsRam
<1>2. ASSUME NEW i \in DOMAIN iomem, Roomy(iomem[i]),
             staging' = AlignUp(iomem[i].start, KexecAlign), pc' = "regions",
             UNCHANGED <<addr, bundle, modulep, iomem, changes>>
      PROVE  RamInv'
  <2>1. iomem[i].start \in Nat /\ iomem[i].end \in Nat
    <3>1. iomem \in Seq(Region)
      BY DEF TypeOK
    <3>2. iomem[i] \in Region
      BY <3>1
    <3> QED BY <3>2 DEF Region
  <2>2. staging' \in Nat /\ iomem[i].start <= staging' /\ OnPage(staging')
    BY <1>2, <2>1, AlignUpBounds, KexecAlignOnPage
  <2>3. staging' + KexecHoleSize - 1 <= iomem[i].end
    <3>1. iomem[i].end - staging' + 1 >= KexecHoleSize
      BY <1>2 DEF Roomy
    <3> QED BY <2>1, <2>2, <3>1
  <2>4. HoleKept' /\ RegionsCurrent'
    BY <1>2, <2>2, <2>3 DEF HoleKept, RegionsCurrent, LayoutDone
  <2>5. PlanPaged'
    BY <1>2, <2>2 DEF RamInv, PlanPaged, OnPage
  <2> QED BY <1>2, <2>4, <2>5, UnplannedRam DEF RamInv
<1> QED BY <1>1, <1>2 DEF FindStaging, loop, foreign

LEMMA ReadRegionsKeepsRam ==
  ASSUME RamInv, ReadRegions
  PROVE  RamInv'
<1>1. UNCHANGED placed /\ pc' = "layout" /\ pc = "regions"
  BY DEF ReadRegions, placed, loop
<1>2. HoleKept' /\ RegionsCurrent'
  BY <1>1 DEF ReadRegions, RamInv, HoleKept, RegionsCurrent, LayoutDone, foreign, placed
<1> QED BY <1>1, <1>2, PlacedKeepsPaged, UnplannedRam DEF RamInv

\* Steps that place nothing.
LEMMA QuietKeepsRam ==
  ASSUME RamInv, ComputeKernelLayout \/ ModulesAssigned \/ BuildMetadata \/ Assemble
  PROVE  RamInv'
<1>1. CASE Fail
  BY <1>1, FailKeepsRam
<1>2. CASE /\ UNCHANGED placed /\ UNCHANGED surveyed
           /\ pc = "layout" \/ LayoutDone
           /\ pc' # "planned"
  <2>1. staging' = staging
    BY <1>2 DEF placed
  <2> QED BY <1>2, <2>1, SurveyKept, PlacedKeepsPaged, UnplannedRam DEF RamInv
<1> QED
  BY <1>1, <1>2
  DEF ComputeKernelLayout, ModulesAssigned, BuildMetadata, Assemble, placed, surveyed,
      foreign, plan, loop, LayoutDone

LEMMA AssignKeepsRam ==
  ASSUME TypeOK, RamInv, AssignModule
  PROVE  RamInv'
<1>0. pc = "modules" /\ LayoutDone
  BY DEF AssignModule, LayoutDone
<1>1. CASE Fail
  BY <1>1, FailKeepsRam
<1>2. ASSUME NEW i \in DOMAIN regions,
             addr' = Append(addr, FirstPage(regions[i], cursor)),
             UNCHANGED <<pc, staging, bundle, modulep>>, UNCHANGED surveyed
      PROVE  RamInv'
  <2>1. PICK a \in Nat : a = FirstPage(regions[i], cursor) /\ OnPage(a)
    BY FirstPageOnPage
  <2>2. addr \in Seq(Nat) /\ addr' = Append(addr, a)
    BY <1>2, <2>1 DEF TypeOK
  <2>3. ASSUME NEW j \in DOMAIN addr'
        PROVE  addr'[j] = a \/ (j \in DOMAIN addr /\ addr'[j] = addr[j])
    BY ONLY <2>2, <2>3, a \in Nat
  <2>4. \A j \in DOMAIN addr' : OnPage(addr'[j])
    <3>1. \A j \in DOMAIN addr : OnPage(addr[j])
      BY DEF RamInv, PlanPaged
    <3> QED BY ONLY <2>1, <2>3, <3>1
  <2>5. PlanPaged'
    BY <1>2, <2>4 DEF RamInv, PlanPaged, OnPage
  <2>6. HoleKept' /\ RegionsCurrent'
    BY <1>0, <1>2, SurveyKept
  <2> QED BY <1>0, <1>2, <2>5, <2>6, UnplannedRam DEF RamInv
<1> QED BY <1>1, <1>2 DEF AssignModule, FirstFit, loop, foreign, surveyed

LEMMA PreloadKeepsRam ==
  ASSUME TypeOK, RamInv, BuildPreload
  PROVE  RamInv'
<1>0. pc = "preload" /\ LayoutDone /\ UNCHANGED foreign
  BY DEF BuildPreload, LayoutDone
<1>1. CASE Fail
  BY <1>1, FailKeepsRam
<1>2. ASSUME UNCHANGED <<staging, addr, modulep>>, UNCHANGED surveyed, pc' = "build",
             bundle' = bundle \/ OnPage(bundle')
      PROVE  RamInv'
  <2>1. PlanPaged'
    BY <1>2 DEF RamInv, PlanPaged, OnPage
  <2>2. HoleKept' /\ RegionsCurrent'
    BY <1>0, <1>2, SurveyKept
  <2> QED BY <1>2, <2>1, <2>2, UnplannedRam DEF RamInv
<1>3. ASSUME NEW i \in DOMAIN regions, bundle' = FirstPage(regions[i], cursor)
      PROVE  OnPage(bundle')
  BY <1>3, FirstPageOnPage
<1> QED
  BY <1>0, <1>1, <1>2, <1>3 DEF BuildPreload, FirstFit, loop, plan, foreign, surveyed

LEMMA IterationKeepsRam ==
  ASSUME TypeOK, RamInv, ModulepIteration
  PROVE  RamInv'
<1>0. pc = "iterate" /\ LayoutDone /\ UNCHANGED foreign
  BY DEF ModulepIteration, LayoutDone
<1>1. CASE Fail
  BY <1>1, FailKeepsRam
<1>2. ASSUME NEW i \in DOMAIN regions, modulep' = FirstPage(regions[i], cursor),
             pc' \in {"assemble", "iterate"}, UNCHANGED plan
      PROVE  RamInv'
  <2>1. OnPage(modulep')
    BY <1>2, FirstPageOnPage
  <2>2. PlanPaged'
    BY <1>2, <2>1 DEF RamInv, PlanPaged, OnPage, plan
  <2>3. UNCHANGED surveyed /\ staging' = staging
    BY <1>0, <1>2 DEF surveyed, foreign, plan
  <2>4. HoleKept' /\ RegionsCurrent'
    BY <1>0, <2>3, SurveyKept
  <2> QED BY <1>2, <2>2, <2>4, UnplannedRam DEF RamInv
<1> QED BY <1>0, <1>1, <1>2 DEF ModulepIteration

\* Another writer of /proc/iomem or of the kernel file ends the claims about
\* what was read; the addresses and the regions already read stay.
LEMMA ForeignKeepsRam ==
  ASSUME TypeOK, RamInv, ReplaceKernel \/ IomemChanges
  PROVE  RamInv'
<1>1. /\ UNCHANGED placed /\ pc' = pc /\ pc # "planned" /\ changes' # 0
  BY DEF TypeOK, ReplaceKernel, IomemChanges, Running, placed, plan, loop
<1> QED BY <1>1, PlacedKeepsPaged, UnplannedRam DEF RamInv, HoleKept, RegionsCurrent

LEMMA StutterKeepsRam ==
  ASSUME RamInv, UNCHANGED vars
  PROVE  RamInv'
BY DEF RamInv, vars, foreign, plan, loop, PlanPaged, OnPage, HoleKept, RegionsCurrent,
       LayoutDone, SegmentsOnRamPages, KernelInRam, Planned, Kernels, OnRam, End, KernelPhys
---------------------------------------------------------------------------
(* The finished plan. *)

\* A segment whose range was enforced starts on a page and holds its data.
LEMMA EnforcedOnRamPages ==
  ASSUME TypeInv, RamInv, NEW s \in SegmentType, InRegions(s.mem, s.memsz, regions),
         \/ s = Segment("boot", staging + BootPhysBase, BootLen)
         \/ \E i \in DOMAIN addr : s = Segment("module", addr[i], files[i])
         \/ s = Segment("modulep", modulep, meta.len)
         \/ s = Segment("bundle", bundle, BundleLen)
  PROVE  s.mem % Page = 0 /\ s.bufsz > 0 /\ s.bufsz <= s.memsz /\ OnRam(s)
<1>1. s.memsz > 0 /\ OnRam(s)
  BY InRegionsOnRam DEF TypeInv
<1>2. ASSUME NEW kind \in {"boot", "module", "modulep", "bundle"},
             NEW mem \in Nat, NEW len \in Nat, s = Segment(kind, mem, len), OnPage(mem)
      PROVE  s.mem % Page = 0 /\ s.bufsz > 0 /\ s.bufsz <= s.memsz
  BY <1>1, <1>2, SegmentRoom, OnPageRemainder
<1>3. CASE s = Segment("boot", staging + BootPhysBase, BootLen)
  <2>1. staging \in Nat /\ OnPage(staging) /\ BootLen \in Nat
    BY DEF TypeInv, TypeOK, RamInv, PlanPaged
  <2>2. staging + BootPhysBase \in Nat /\ OnPage(staging + BootPhysBase)
    BY <2>1, BootBlockOnPage
  <2> QED BY <1>1, <1>2, <1>3, <2>1, <2>2
<1>4. ASSUME NEW i \in DOMAIN addr, s = Segment("module", addr[i], files[i])
      PROVE  s.mem % Page = 0 /\ s.bufsz > 0 /\ s.bufsz <= s.memsz
  <2>1. i \in DOMAIN files /\ addr[i] \in Nat /\ OnPage(addr[i])
    BY PlacedType DEF TypeInv, RamInv, PlanPaged
  <2>2. files[i] \in Nat
    BY <2>1, FileLengthType DEF TypeInv
  <2> QED BY <1>2, <1>4, <2>1, <2>2
<1>5. CASE s = Segment("modulep", modulep, meta.len)
  <2>1. modulep \in Nat /\ meta.len \in Nat /\ OnPage(modulep)
    BY DEF TypeInv, TypeOK, RamInv, PlanPaged
  <2> QED BY <1>1, <1>2, <1>5, <2>1
<1>6. CASE s = Segment("bundle", bundle, BundleLen)
  <2>1. bundle \in Nat /\ BundleLen \in Nat /\ OnPage(bundle)
    BY BundleLenType DEF TypeInv, TypeOK, RamInv, PlanPaged
  <2> QED BY <1>1, <1>2, <1>6, <2>1
<1> QED BY <1>1, <1>3, <1>4, <1>5, <1>6

\* The hole holds a kernel block that is not larger than it.
LEMMA KernelInHole ==
  ASSUME TypeOK, RamInv, changes = 0, pc = "segments",
         kernelEnd <= staging + KexecHoleSize,
         NEW s \in SegmentType, s.mem = KernelPhys, End(s) <= kernelEnd
  PROVE  OnRam(s)
<1>1. regions = iomem
  BY DEF RamInv, RegionsCurrent, LayoutDone
<1>2. PICK i \in DOMAIN regions :
        regions[i].start <= staging /\ staging + KexecHoleSize - 1 <= regions[i].end
  BY <1>1 DEF RamInv, HoleKept, LayoutDone
<1>3. /\ regions[i].start \in Nat /\ regions[i].end \in Nat
      /\ staging \in Nat /\ kernelEnd \in Nat
      /\ KernelPhys \in Nat /\ staging <= KernelPhys
  <2>1. regions[i] \in Region /\ staging \in Nat /\ kernelEnd \in Nat
    BY RegionType DEF TypeOK
  <2>2. KernelPhys \in Nat /\ staging <= KernelPhys
    BY ONLY <2>1, SizesAssumption DEF KernelPhys
  <2> QED BY <2>1, <2>2 DEF Region
<1>4. s.memsz \in Nat /\ End(s) \in Nat
  BY <1>3 DEF SegmentType, End
<1>5. ASSUME NEW b \in s.mem .. End(s) - 1
      PROVE  regions[i].start <= b /\ b <= regions[i].end
  BY <1>2, <1>3, <1>4
<1> QED BY <1>5 DEF OnRam

LEMMA PrepareKeepsRam ==
  ASSUME TypeInv, TypeInv', LayoutInv, LayoutInv', RamInv, PrepareKexecSegments
  PROVE  RamInv'
<1>0. pc = "segments" /\ UNCHANGED foreign
  BY DEF PrepareKexecSegments
<1>1. CASE Fail
  BY <1>1, FailKeepsRam
<1>2. ASSUME \A k \in DOMAIN Enforced :
               InRegions(Enforced[k].mem, Enforced[k].memsz, regions),
             ~BadKernel(kernelFile), NEW ph \in kernelFile,
             IsSegmentList(segments', AlignUp(ph.off + ph.memsz, Page)),
             pc' = "planned", UNCHANGED <<given, plan, loop>>
      PROVE  RamInv'
  <2>1. PICK e \in Nat : e = AlignUp(ph.off + ph.memsz, Page) /\ e >= KernelPhysBase
    BY <1>2, PtLoadEnd DEF TypeInv, TypeOK
  <2>2. PICK list : list = segments' /\ IsSegmentList(list, e)
    BY <1>2, <2>1
  <2>3. PICK ker : ker = Segment("kernel", KernelPhys, e - KernelPhysBase)
    OBVIOUS
  <2>4. ker \in SegmentType /\ list \in Seq(SegmentType) /\ ker.kind = "kernel"
    <3>1. KernelPhys \in Nat /\ e - KernelPhysBase \in Nat
      <4>1. staging \in Nat
        BY DEF TypeInv, TypeOK
      <4> QED BY ONLY <2>1, <4>1, SizesAssumption DEF KernelPhys
    <3>2. list \in Seq(SegmentType)
      BY <2>2 DEF TypeInv, TypeOK
    <3> QED BY <2>3, <3>1, <3>2, SegmentTyped DEF Segment
  <2>5. ASSUME NEW k \in DOMAIN list, list[k].kind # "kernel"
        PROVE  /\ list[k] \in SegmentType
               /\ InRegions(list[k].mem, list[k].memsz, regions)
               /\ \/ list[k] = Segment("boot", staging + BootPhysBase, BootLen)
                  \/ \E i \in DOMAIN addr : list[k] = Segment("module", addr[i], files[i])
                  \/ list[k] = Segment("modulep", modulep, meta.len)
                  \/ list[k] = Segment("bundle", bundle, BundleLen)
    <3>1. \/ k = 1 /\ list[k] = Segment("boot", staging + BootPhysBase, BootLen)
          \/ k = 2 /\ list[k] = ker
          \/ \E i \in DOMAIN addr :
               k = i + 2 /\ list[k] = Segment("module", addr[i], files[i])
          \/ k = Len(addr) + 3 /\ list[k] = Segment("modulep", modulep, meta.len)
          \/ k = Len(addr) + 4 /\ list[k] = Segment("bundle", bundle, BundleLen)
      BY <2>2, <2>3, SegmentShapes DEF TypeInv
    <3>2. k # 2
      <4>1. Len(addr) \in Nat /\ \A i \in DOMAIN addr : i \in Nat /\ i > 0
        <5>1. addr \in Seq(Nat)
          BY DEF TypeInv, TypeOK
        <5> QED BY ONLY <5>1
      <4>2. list[k] # ker
        BY <2>4, <2>5
      <4> QED BY ONLY <3>1, <4>1, <4>2
    <3>3. \E i \in DOMAIN Enforced : Enforced[i] = list[k]
      <4>1. PICK boot : boot = Segment("boot", staging + BootPhysBase, BootLen)
        OBVIOUS
      <4>2. boot \in SegmentType
        <5>1. staging + BootPhysBase \in Nat
          BY DEF TypeInv, TypeOK
        <5> QED BY <4>1, <5>1, SegmentTyped
      <4>3. PICK tail : tail = BlockSegments
        OBVIOUS
      <4>4. tail \in Seq(SegmentType)
        BY <4>3, EnforcedTyped DEF TypeInv
      <4>5. list = Parts3(boot, ker, tail) /\ Enforced = Parts2(boot, tail)
        BY <2>2, <2>3, <4>1, <4>3, Zenon
        DEF IsSegmentList, Enforced, BootSegments, Parts2, Parts3
      <4>6. ker \in SegmentType /\ k \in DOMAIN Parts3(boot, ker, tail)
        BY <2>4, <4>5
      <4>7. \E i \in DOMAIN Parts2(boot, tail) :
              Parts2(boot, tail)[i] = Parts3(boot, ker, tail)[k]
        BY ONLY <3>2, <4>2, <4>4, <4>6, WithoutSecond
      <4> QED BY <4>5, <4>7, Zenon
    <3>4. list[k] \in SegmentType
      BY <2>4, <2>5
    <3>5. InRegions(list[k].mem, list[k].memsz, regions)
      BY <1>2, <3>3, Zenon
    <3>6. list[k] # ker
      BY <2>4, <2>5
    <3> QED BY ONLY <3>1, <3>4, <3>5, <3>6
  <2>6. ASSUME NEW k \in DOMAIN list, list[k].kind # "kernel"
        PROVE  /\ list[k].mem % Page = 0
               /\ list[k].bufsz > 0 /\ list[k].bufsz <= list[k].memsz /\ OnRam(list[k])
    <3>1. PICK s : s = list[k]
      OBVIOUS
    <3> QED BY <2>5, <2>6, <3>1, EnforcedOnRamPages
  <2>7. ASSUME changes = 0, kernelEnd <= staging + KexecHoleSize,
               NEW k \in DOMAIN list, list[k].kind = "kernel"
        PROVE  OnRam(list[k])
    <3>1. list[k] = ker
      <4>1. \/ list[k] = Segment("boot", staging + BootPhysBase, BootLen)
            \/ list[k] = ker
            \/ \E i \in DOMAIN addr : list[k] = Segment("module", addr[i], files[i])
            \/ list[k] = Segment("modulep", modulep, meta.len)
            \/ list[k] = Segment("bundle", bundle, BundleLen)
        BY <2>2, <2>3, <2>7, SegmentShapes DEF TypeInv
      <4> QED BY ONLY <2>7, <4>1 DEF Segment
    <3>2. list[k].memsz = kernelEnd - KernelPhys
      BY <1>0, <1>2, <2>2, <2>7
      DEF LayoutInv, PlanGood, MetadataDescribesPlan, Planned, Kernels, foreign, plan, KernelPhys
    <3>3. ker.mem = KernelPhys
      BY <2>3 DEF Segment
    <3>4. End(ker) <= kernelEnd
      <4>1. KernelPhys \in Nat /\ kernelEnd \in Nat
        BY DEF TypeInv, TypeOK, KernelPhys
      <4> QED BY <3>1, <3>2, <3>3, <4>1 DEF End
    <3> QED BY <1>0, <2>4, <2>7, <3>1, <3>3, <3>4, KernelInHole DEF TypeInv
  <2>8. /\ regions' = regions /\ changes' = changes
        /\ kernelEnd' = kernelEnd /\ staging' = staging
    BY <1>0, <1>2 DEF foreign, plan
  <2>9. SegmentsOnRamPages'
    BY <2>2, <2>6, <2>8 DEF SegmentsOnRamPages, Kernels, OnRam, End
  <2>10. KernelInRam'
    BY <2>2, <2>7, <2>8 DEF KernelInRam, Kernels, OnRam, End
  <2>11. PlanPaged'
    BY <1>2, PlacedKeepsPaged DEF RamInv, placed, plan, loop
  <2> QED
    BY <1>2, <2>9, <2>10, <2>11 DEF RamInv, HoleKept, RegionsCurrent, LayoutDone
<1> QED BY <1>1, <1>2 DEF PrepareKexecSegments, IsSegmentList

\* Addresses are pages, and what the two reads of /proc/iomem said holds on.
THEOREM RamInvariant == Spec => []RamInv
<1>1. Init => RamInv
  <2>1. OnPage(0)
    BY DEF OnPage
  <2> QED
    BY <2>1 DEF Init, RamInv, PlanPaged, HoleKept, RegionsCurrent, LayoutDone,
                SegmentsOnRamPages, KernelInRam, Planned
<1>2. TypeInv /\ TypeInv' /\ LayoutInv /\ LayoutInv' /\ RamInv /\ [Next]_vars => RamInv'
  BY FindStagingKeepsRam, ReadRegionsKeepsRam, QuietKeepsRam, AssignKeepsRam,
     PreloadKeepsRam, IterationKeepsRam, PrepareKeepsRam, ForeignKeepsRam, StutterKeepsRam
  DEF Next, Boot, Done, TypeInv
<1> QED BY <1>1, <1>2, TypeInvariant, LayoutInvariant, PTL DEF Spec

\* Every segment but the kernel's lies on whole pages of available RAM and has
\* room for its data, for any memory map, modules and sizes, whatever the
\* other writers of the two files do.
THEOREM SegmentsLieOnRamPages == Spec => []SegmentsOnRamPages
<1>1. RamInv => SegmentsOnRamPages
  BY DEF RamInv
<1> QED BY <1>1, RamInvariant, PTL

\* A kernel that fits the staging hole lies in RAM, although boot() only warns
\* when it does not.
THEOREM KernelLiesInRam == Spec => []KernelInRam
<1>1. RamInv => KernelInRam
  BY DEF RamInv
<1> QED BY <1>1, RamInvariant, PTL
---------------------------------------------------------------------------
(* The inductive step of BumpInv. *)

\* What a step that places nothing keeps.
placing == <<regions, kernelEnd, addr, cursor, bundle, modulep, kernend>>

LEMMA FailKeepsBumpInv == Fail => BumpInv'
BY DEF Fail, BumpInv, PlacedInOrder, PlaceStands, Surveying, LayoutDone

LEMMA BumpInvStep ==
  ASSUME TypeInv, LayoutInv, BumpInv, [Next]_vars
  PROVE  BumpInv'
<1>1. CASE Fail
  BY <1>1, FailKeepsBumpInv
<1>2. CASE FindStaging \/ ReadRegions
  <2>1. CASE /\ UNCHANGED <<kernelEnd, cursor, bundle, kernend>>
             /\ Surveying /\ pc' \in {"regions", "layout"}
    BY <2>1 DEF BumpInv, PlacedInOrder, PlaceStands, Surveying, LayoutDone
  <2> QED BY <1>1, <1>2, <2>1 DEF FindStaging, ReadRegions, Surveying, loop
<1>3. CASE ComputeKernelLayout
  <2>1. ASSUME ~BadKernel(kernelFile), NEW ph \in kernelFile,
               kernelEnd' = staging + AlignUp(ph.off + ph.memsz, Page),
               pc = "layout", pc' = "modules", UNCHANGED <<bundle, kernend>>
        PROVE  BumpInv'
    <3>1. staging \in Nat /\ kernelFile \in KernelFiles
      BY DEF TypeInv, TypeOK
    <3>2. PICK e \in Nat : e = AlignUp(ph.off + ph.memsz, Page) /\ e >= KernelPhysBase
      BY <2>1, <3>1, PtLoadEnd
    <3>3. kernelEnd' > 0
      BY <2>1, <3>1, <3>2
    <3> QED
      BY <2>1, <3>3 DEF BumpInv, PlacedInOrder, PlaceStands, Surveying, LayoutDone
  <2> QED BY <1>1, <1>3, <2>1 DEF ComputeKernelLayout, loop
<1>4. CASE AssignModule \/ ModulesAssigned \/ BuildPreload
  <2>1. CASE /\ pc \in {"modules", "preload"} /\ pc' \in {"modules", "preload", "build"}
             /\ UNCHANGED <<kernelEnd, kernend>>
             /\ pc' # "build" => bundle' = bundle
    BY <2>1 DEF BumpInv, PlacedInOrder, PlaceStands, Surveying, LayoutDone
  <2> QED
    BY <1>1, <1>4, <2>1 DEF AssignModule, ModulesAssigned, BuildPreload, loop, plan
<1>5. CASE BuildMetadata \/ Assemble
  <2>1. CASE /\ pc = "build" /\ pc' = "iterate" /\ UNCHANGED <<kernelEnd, kernend, iteration>>
    <3>1. iteration = 0
      BY <2>1 DEF TypeInv, LoopCounted
    <3> QED
      BY <2>1, <3>1 DEF BumpInv, PlacedInOrder, PlaceStands, Surveying, LayoutDone
  <2>2. CASE pc = "assemble" /\ pc' = "segments" /\ UNCHANGED kernelEnd
    BY <2>2 DEF BumpInv, PlacedInOrder, PlaceStands, Surveying, LayoutDone
  <2> QED BY <1>1, <1>5, <2>1, <2>2 DEF BuildMetadata, Assemble, plan
<1>6. CASE ModulepIteration
  <2>1. ASSUME NEW i \in DOMAIN regions, FirstFit(i, cursor, MetaSpace, regions),
               modulep' = FirstPage(regions[i], cursor),
               kernend' = FirstPage(regions[i], cursor) + MetaSpace,
               iteration' = iteration + 1, pc = "iterate", pc' \in {"iterate", "assemble"},
               UNCHANGED plan
        PROVE  BumpInv'
    <3>1. PICK a \in Nat : a = FirstPage(regions[i], cursor)
      BY RegionType, FirstPageFacts DEF TypeInv, TypeOK
    <3>2. PICK n \in Nat : n = MetaSpace
      BY MetaSpaceType DEF TypeInv
    <3>3. kernend' - modulep' = MetaSpace
      BY <2>1, <3>1, <3>2
    <3>4. PlaceStands'
      BY <2>1, <3>3 DEF PlaceStands, plan
    <3>5. iteration' # 0 /\ kernelEnd' = kernelEnd
      BY <2>1 DEF TypeInv, TypeOK, plan
    <3> QED
      BY <2>1, <3>4, <3>5 DEF BumpInv, PlacedInOrder, Surveying, LayoutDone
  <2> QED BY <1>1, <1>6, <2>1 DEF ModulepIteration, FirstFit
<1>7. CASE PrepareKexecSegments
  BY <1>1, <1>7
  DEF PrepareKexecSegments, BumpInv, PlacedInOrder, PlaceStands, Surveying, LayoutDone
<1>8. CASE ReplaceKernel \/ IomemChanges \/ UNCHANGED vars
  <2>1. UNCHANGED placing /\ pc' = pc /\ iteration' = iteration
    BY <1>8 DEF ReplaceKernel, IomemChanges, vars, plan, loop, placing
  <2> QED
    BY <2>1 DEF BumpInv, PlacedInOrder, PlaceStands, Surveying, LayoutDone, placing
<1> QED BY <1>2, <1>3, <1>4, <1>5, <1>6, <1>7, <1>8 DEF Next, Boot, Done

\* What has no place yet has none, and a place found once is found again.
THEOREM BumpInvariant == Spec => []BumpInv
<1>1. Init => BumpInv
  BY DEF Init, BumpInv, PlacedInOrder, PlaceStands, Surveying, LayoutDone
<1> QED BY <1>1, BumpInvStep, TypeInvariant, LayoutInvariant, PTL DEF Spec
---------------------------------------------------------------------------
(* The refinement, one lemma per kind of step. *)

\* A step that moves no block is a stutter of the abstract plan.
LEMMA NothingMoved ==
  ASSUME UNCHANGED <<staging, kernelEnd, addr, cursor, bundle>>, UNCHANGED given,
         MetaPlaced' <=> MetaPlaced, MetaPlaced => UNCHANGED <<modulep, kernend>>
  PROVE  UNCHANGED Bump!vars
<1>1. /\ KernelPhys' = KernelPhys /\ BundleLen' = BundleLen
      /\ files' = files /\ addr' = addr
  BY DEF KernelPhys, BundleLen, FontOffset, EnvOffset, given
<1>2. CASE MetaPlaced
  <2>1. MetaPlaced' /\ UNCHANGED <<modulep, kernend>>
    BY <1>2
  <2>2. Blocks' = Blocks
    BY <1>1, <1>2, <2>1 DEF Blocks, Block
  <2>3. Top' = Top
    BY <1>2, <2>1 DEF Top
  <2> QED BY <2>2, <2>3 DEF Bump!vars
<1>3. CASE ~MetaPlaced
  <2>1. ~MetaPlaced'
    BY <1>3
  <2>2. Blocks' = Blocks
    BY <1>1, <1>3, <2>1 DEF Blocks, Block
  <2>3. Top' = Top
    BY <1>3, <2>1 DEF Top
  <2> QED BY <2>2, <2>3 DEF Bump!vars
<1> QED BY <1>2, <1>3

\* A step that adds one block at or above Top is a reservation.
LEMMA OneReserved ==
  ASSUME NEW mem \in Nat, NEW end \in Nat, Top <= mem, mem <= end,
         Blocks' = Blocks \union {Block(mem, end)}, Top' = end
  PROVE  Bump!Next
<1>1. /\ Block(mem, end).mem = mem /\ Block(mem, end).len = end - mem
      /\ end - mem >= 0 /\ mem + (end - mem) = end
  BY DEF Block
<1>2. Bump!Reserve(Block(mem, end))
  BY <1>1 DEF Bump!Reserve
<1>3. Block(mem, end) \in Blocks'
  OBVIOUS
<1> QED BY <1>2, <1>3 DEF Bump!Next

\* The metadata has no place before the first pass of the loop.
LEMMA NoMetadataYet == kernend = 0 => ~MetaPlaced /\ Top = cursor
BY DEF MetaPlaced, Top

LEMMA KernelReserved ==
  ASSUME TypeInv, BumpInv, LayoutInv, LayoutInv', BumpInv', ComputeKernelLayout, ~Fail
  PROVE  Bump!Next
<1>1. /\ pc = "layout" /\ pc' = "modules" /\ cursor' = kernelEnd'
      /\ UNCHANGED <<given, staging, addr, bundle, loop>>
      /\ \E ph \in kernelFile : ~BadKernel(kernelFile)
           /\ kernelEnd' = staging + AlignUp(ph.off + ph.memsz, Page)
  BY DEF ComputeKernelLayout
<1>2. /\ kernelEnd = 0 /\ cursor = 0 /\ bundle = 0 /\ kernend = 0 /\ addr = <<>>
      /\ kernelEnd' > 0
  BY <1>1 DEF BumpInv, PlacedInOrder, Surveying, LayoutDone, LayoutInv, ModulesStacked
<1>3. kernelEnd' \in Nat /\ KernelPhys \in Nat
  <2>1. staging \in Nat /\ kernelFile \in KernelFiles
    BY DEF TypeInv, TypeOK
  <2>2. PICK ph \in kernelFile : ~BadKernel(kernelFile)
           /\ kernelEnd' = staging + AlignUp(ph.off + ph.memsz, Page)
    BY <1>1
  <2> QED BY <2>1, <2>2, PtLoadEnd DEF KernelPhys
<1>4. KernelPhys' = KernelPhys /\ KernelPhys <= kernelEnd'
  <2>1. KernelPhys' = KernelPhys
    BY <1>1 DEF KernelPhys
  <2> QED BY <1>1, <2>1 DEF LayoutInv, ModulesStacked, LayoutDone
<1>5. ~MetaPlaced /\ ~MetaPlaced' /\ Top = 0 /\ Top' = kernelEnd'
  BY <1>1, <1>2 DEF MetaPlaced, Top, loop
<1>6. Blocks = {}
  BY <1>2, <1>5 DEF Blocks
<1>7. Blocks' = {Block(KernelPhys, kernelEnd')}
  BY <1>1, <1>2, <1>4, <1>5 DEF Blocks, Block
<1> QED BY <1>3, <1>4, <1>5, <1>6, <1>7, OneReserved

LEMMA ModuleReserved ==
  ASSUME TypeInv, BumpInv, NEW i \in DOMAIN regions,
         pc = "modules", Len(addr) < Len(files),
         addr' = Append(addr, FirstPage(regions[i], cursor)),
         cursor' = FirstPage(regions[i], cursor) + AlignUp(files[Len(addr) + 1], Page),
         UNCHANGED <<given, staging, kernelEnd, bundle, loop>>
  PROVE  Bump!Next
<1>1. PICK a \in Nat : a = FirstPage(regions[i], cursor) /\ cursor <= a
  BY RegionType, FirstPageFacts DEF TypeInv, TypeOK
<1>2. PICK n \in Nat : n = Len(addr) /\ n + 1 \in DOMAIN files
  BY DEF TypeInv, TypeOK
<1>3. PICK size \in Nat : size = AlignUp(files[n + 1], Page)
  BY <1>2, FileLengthType DEF TypeInv
<1>4. /\ DOMAIN addr = 1 .. n /\ DOMAIN addr' = 1 .. n + 1
      /\ \A j \in 1 .. n : addr'[j] = addr[j]
      /\ addr'[n + 1] = a
  <2>1. addr \in Seq(Nat) /\ addr' = Append(addr, a)
    BY <1>1 DEF TypeInv, TypeOK
  <2> QED BY ONLY <1>2, <2>1, a \in Nat
<1>5. cursor' = a + size /\ files' = files
  BY <1>1, <1>2, <1>3 DEF given
<1>6. kernend = 0 /\ bundle = 0 /\ kernend' = 0 /\ bundle' = 0
  BY DEF BumpInv, PlacedInOrder, loop
<1>7. ~MetaPlaced /\ ~MetaPlaced' /\ Top = cursor /\ Top' = cursor'
  BY <1>6 DEF MetaPlaced, Top
<1>8. Blocks' = Blocks \union {Block(a, a + size)}
  <2>1. {Block(addr'[j], addr'[j] + AlignUp(files[j], Page)) : j \in DOMAIN addr'}
          = {Block(addr[j], addr[j] + AlignUp(files[j], Page)) : j \in DOMAIN addr}
              \union {Block(a, a + size)}
    BY ONLY <1>2, <1>3, <1>4
  <2>2. KernelPhys' = KernelPhys /\ kernelEnd' = kernelEnd
    BY DEF KernelPhys
  <2> QED BY <1>5, <1>6, <1>7, <2>1, <2>2 DEF Blocks, Block
<1>9. a + size \in Nat /\ a <= a + size
  OBVIOUS
<1> QED BY <1>1, <1>5, <1>7, <1>8, <1>9, OneReserved

LEMMA BundleReserved ==
  ASSUME TypeInv, LayoutInv, BumpInv, NEW i \in DOMAIN regions,
         pc = "preload", bundle' = FirstPage(regions[i], cursor),
         cursor' = AlignUp(FirstPage(regions[i], cursor) + BundleLen, Page),
         UNCHANGED <<given, staging, kernelEnd, addr, loop>>
  PROVE  Bump!Next
<1>1. PICK a \in Nat : a = FirstPage(regions[i], cursor) /\ cursor <= a
  BY RegionType, FirstPageFacts DEF TypeInv, TypeOK
<1>2. PICK end \in Nat : end = AlignUp(a + BundleLen, Page) /\ a <= end
  <2>1. PICK len \in Nat : len = BundleLen
    BY BundleLenType DEF TypeInv
  <2>2. PICK v \in Nat : v = a + len
    OBVIOUS
  <2>3. AlignUp(v, Page) \in Nat /\ v <= AlignUp(v, Page)
    BY <2>2, AlignUpBounds
  <2> QED BY <2>1, <2>2, <2>3
<1>3. cursor \in Nat /\ kernelEnd \in Nat /\ kernelEnd > 0 /\ kernelEnd <= cursor
  BY DEF TypeInv, TypeOK, BumpInv, PlacedInOrder, LayoutInv, ModulesStacked, LayoutDone
<1>4. kernend = 0 /\ bundle = 0 /\ kernend' = 0 /\ bundle' = a /\ a # 0
  BY <1>1, <1>3 DEF BumpInv, PlacedInOrder, loop
<1>5. ~MetaPlaced /\ ~MetaPlaced' /\ Top = cursor /\ Top' = end
  BY <1>1, <1>2, <1>4 DEF MetaPlaced, Top
<1>6. /\ KernelPhys' = KernelPhys /\ BundleLen' = BundleLen
      /\ files' = files /\ addr' = addr /\ kernelEnd' = kernelEnd
  BY DEF KernelPhys, BundleLen, FontOffset, EnvOffset, given
<1>7. Blocks' = Blocks \union {Block(a, end)}
  BY <1>2, <1>4, <1>5, <1>6 DEF Blocks, Block
<1> QED BY <1>1, <1>2, <1>5, <1>7, OneReserved

\* The scan over the regions stops at one place.
LEMMA FirstFitUnique ==
  ASSUME TypeOK, NEW c, NEW size, NEW i, NEW j,
         FirstFit(i, c, size, regions), FirstFit(j, c, size, regions)
  PROVE  i = j
<1>1. i \in Nat /\ j \in Nat /\ i >= 1 /\ j >= 1
  <2>1. regions \in Seq(Region)
    BY DEF TypeOK
  <2> QED BY ONLY <2>1, FirstFit(i, c, size, regions), FirstFit(j, c, size, regions)
          DEF FirstFit
<1>2. ~(i < j) /\ ~(j < i)
  BY <1>1 DEF FirstFit
<1> QED BY <1>1, <1>2

\* A pass of the fix-point loop reserves the metadata block, or finds the place
\* it had, or leaves the block without room for its length.
LEMMA MetadataReserved ==
  ASSUME TypeInv, LayoutInv, BumpInv, NEW i \in DOMAIN regions,
         FirstFit(i, cursor, MetaSpace, regions), pc = "iterate",
         modulep' = FirstPage(regions[i], cursor),
         kernend' = FirstPage(regions[i], cursor) + MetaSpace,
         meta' = Metadata(modulep' - staging, kernend' - KernelPhys),
         UNCHANGED <<given, plan>>
  PROVE  Bump!Next \/ UNCHANGED Bump!vars
<1>1. PICK a \in Nat : a = FirstPage(regions[i], cursor) /\ cursor <= a
  BY RegionType, FirstPageFacts DEF TypeInv, TypeOK
<1>2. PICK n \in Nat : n = MetaSpace
  BY MetaSpaceType DEF TypeInv
<1>3. modulep' = a /\ kernend' = a + n
  BY <1>1, <1>2
<1>4. UNCHANGED <<staging, kernelEnd, addr, cursor, bundle>>
  BY DEF plan
<1>5. CASE MetaPlaced
  <2>1. iteration > 0
    BY <1>5 DEF MetaPlaced, BumpInv, PlacedInOrder, TypeInv, TypeOK
  <2>2. modulep \in Nat /\ kernend \in Nat /\ kernend - modulep = n
    BY <1>2, <1>5 DEF MetaPlaced, TypeInv, TypeOK
  <2>3. PICK j \in DOMAIN regions :
          FirstFit(j, cursor, n, regions) /\ modulep = FirstPage(regions[j], cursor)
    BY <2>1, <2>2 DEF BumpInv, PlaceStands
  <2>4. j = i
    BY <1>2, <2>3, FirstFitUnique DEF TypeInv
  <2>5. modulep' = modulep /\ kernend' = kernend
    BY <1>1, <1>3, <2>2, <2>3, <2>4
  <2>6. meta' = meta
    <3>1. meta = Metadata(modulep - staging, kernend - KernelPhys)
      BY <2>1 DEF LayoutInv, MetadataStacked
    <3> QED BY <2>5, <3>1
  <2>7. MetaPlaced'
    BY <1>5, <2>5, <2>6 DEF MetaPlaced, MetaSpace
  <2> QED BY <1>4, <1>5, <2>5, <2>7, NothingMoved
<1>6. CASE ~MetaPlaced /\ ~MetaPlaced'
  BY <1>4, <1>6, NothingMoved
<1>7. CASE ~MetaPlaced /\ MetaPlaced'
  <2>1. Top = cursor /\ Top' = a + n
    BY <1>3, <1>7 DEF Top
  <2>2. /\ KernelPhys' = KernelPhys /\ BundleLen' = BundleLen
        /\ files' = files /\ addr' = addr /\ kernelEnd' = kernelEnd /\ bundle' = bundle
    BY <1>4 DEF KernelPhys, BundleLen, FontOffset, EnvOffset, given
  <2>3. Blocks' = Blocks \union {Block(a, a + n)}
    BY <1>3, <1>7, <2>2 DEF Blocks, Block
  <2>4. a + n \in Nat /\ a <= a + n
    OBVIOUS
  <2> QED BY <1>1, <2>1, <2>3, <2>4, OneReserved
<1> QED BY <1>5, <1>6, <1>7
\* A step of boot() or of another process reserves one block or moves none.
LEMMA StepReserves ==
  ASSUME TypeInv, LayoutInv, LayoutInv', BumpInv, BumpInv', [Next]_vars
  PROVE  Bump!Next \/ UNCHANGED Bump!vars
<1>1. CASE UNCHANGED <<plan, loop, given>>
  <2>1. MetaPlaced' <=> MetaPlaced
    BY <1>1 DEF MetaPlaced, MetaSpace, loop
  <2> QED BY <1>1, <2>1, NothingMoved DEF plan, loop
<1>2. CASE Fail
  BY <1>1, <1>2 DEF Fail
<1>3. CASE FindStaging \/ ReadRegions
  <2>1. CASE /\ Surveying
             /\ UNCHANGED <<kernelEnd, addr, cursor, bundle, kernend>>
    <3>1. addr = <<>> /\ kernelEnd = 0 /\ bundle = 0 /\ kernend = 0 /\ cursor = 0
      BY <2>1 DEF BumpInv, PlacedInOrder, Surveying, LayoutInv, ModulesStacked
    <3>2. ~MetaPlaced /\ ~MetaPlaced'
      BY <2>1, <3>1 DEF MetaPlaced
    <3>3. Blocks = {} /\ Blocks' = {} /\ Top = 0 /\ Top' = 0
      BY <2>1, <3>1, <3>2 DEF Blocks, Top
    <3> QED BY <3>3 DEF Bump!vars
  <2> QED BY <1>2, <1>3, <2>1 DEF FindStaging, ReadRegions, Surveying, loop
<1>4. CASE ComputeKernelLayout
  BY <1>2, <1>4, KernelReserved
<1>5. CASE AssignModule
  <2>1. CASE \E i \in DOMAIN regions :
               /\ addr' = Append(addr, FirstPage(regions[i], cursor))
               /\ cursor' = FirstPage(regions[i], cursor)
                              + AlignUp(files[Len(addr) + 1], Page)
               /\ UNCHANGED <<given, staging, kernelEnd, bundle, loop>>
    <3>1. pc = "modules" /\ Len(addr) < Len(files)
      BY <1>5 DEF AssignModule
    <3> QED BY <2>1, <3>1, ModuleReserved
  <2> QED BY <1>2, <1>5, <2>1 DEF AssignModule, AfterModule, FirstFit
<1>6. CASE BuildPreload
  <2>1. CASE \E i \in DOMAIN regions :
               /\ bundle' = FirstPage(regions[i], cursor)
               /\ cursor' = AlignUp(FirstPage(regions[i], cursor) + BundleLen, Page)
               /\ UNCHANGED <<given, staging, kernelEnd, addr, loop>>
    <3>1. pc = "preload"
      BY <1>6 DEF BuildPreload
    <3> QED BY <2>1, <3>1, BundleReserved
  <2> QED BY <1>1, <1>2, <1>6, <2>1 DEF BuildPreload, AfterPreload, FirstFit
<1>7. CASE BuildMetadata
  <2>1. CASE pc = "build" /\ UNCHANGED <<given, plan, kernend>>
    <3>1. kernend = 0 /\ kernend' = 0
      BY <2>1 DEF BumpInv, PlacedInOrder
    <3> QED BY <2>1, <3>1, NothingMoved DEF MetaPlaced, plan
  <2> QED BY <1>2, <1>7, <2>1 DEF BuildMetadata
<1>8. CASE ModulepIteration
  <2>1. CASE \E i \in DOMAIN regions :
               /\ FirstFit(i, cursor, MetaSpace, regions)
               /\ modulep' = FirstPage(regions[i], cursor)
               /\ kernend' = FirstPage(regions[i], cursor) + MetaSpace
               /\ meta' = Metadata(modulep' - staging, kernend' - KernelPhys)
               /\ UNCHANGED <<given, plan>>
    <3>1. pc = "iterate"
      BY <1>8 DEF ModulepIteration
    <3> QED BY <2>1, <3>1, MetadataReserved
  <2> QED BY <1>2, <1>8, <2>1 DEF ModulepIteration
<1>9. CASE ModulesAssigned \/ Assemble \/ PrepareKexecSegments
  BY <1>1, <1>2, <1>9 DEF ModulesAssigned, Assemble, PrepareKexecSegments
<1>10. CASE ReplaceKernel \/ IomemChanges \/ UNCHANGED vars
  BY <1>1, <1>10 DEF ReplaceKernel, IomemChanges, vars
<1> QED
  BY <1>3, <1>4, <1>5, <1>6, <1>7, <1>8, <1>9, <1>10 DEF Next, Boot, Done

\* The planning steps of boot() are reservations of a bump allocator, for every
\* memory map, kernel, modules and sizes.
THEOREM PlanImplementsBump == Spec => ImplementsBump
<1>1. Init => Bump!Init
  BY DEF Init, Bump!Init, Blocks, Top, MetaPlaced
<1>2. TypeInv /\ LayoutInv /\ LayoutInv' /\ BumpInv /\ BumpInv' /\ [Next]_vars
        => [Bump!Next]_Bump!vars
  BY StepReserves
<1> QED
  BY <1>1, <1>2, TypeInvariant, LayoutInvariant, BumpInvariant, PTL
  DEF Spec, ImplementsBump, Bump!Spec
---------------------------------------------------------------------------
(* Inside the window of the trampoline's tables.                           *)

\* What a finished plan describes lies below the end of the metadata.
LEMMA FinishedBelowKernend ==
  ASSUME TypeInv, LayoutInv, pc = "segments"
  PROVE  /\ \A i \in DOMAIN addr : addr[i] + files[i] <= kernend
         /\ BundleLen > 0 => bundle + BundleLen <= kernend
         /\ modulep + meta.len <= kernend
<1>1. /\ cursor \in Nat /\ modulep \in Nat /\ kernend \in Nat /\ bundle \in Nat
      /\ AlignUp(BundleLen, Page) \in Nat /\ BundleLen \in Nat
      /\ cursor <= modulep /\ modulep <= kernend
      /\ BundleLen # 0 => bundle + AlignUp(BundleLen, Page) <= cursor
      /\ \A i \in DOMAIN addr : addr[i] \in Nat /\ ModuleEnd(i) \in Nat /\ ModuleEnd(i) <= cursor
  BY FinishedStack
<1>2. ASSUME NEW i \in DOMAIN addr PROVE addr[i] + files[i] <= kernend
  <2>1. files[i] \in Nat
    BY PlacedType, FileLengthType DEF TypeInv
  <2>2. AlignUp(files[i], Page) \in Nat /\ files[i] <= AlignUp(files[i], Page)
    BY <2>1, AlignUpBounds, PageAssumption
  <2>3. addr[i] + AlignUp(files[i], Page) <= cursor /\ addr[i] \in Nat
    BY <1>1 DEF ModuleEnd
  <2> QED BY ONLY <1>1, <2>1, <2>2, <2>3
<1>3. BundleLen > 0 => bundle + BundleLen <= kernend
  <2>1. BundleLen <= AlignUp(BundleLen, Page)
    BY <1>1, AlignUpBounds, PageAssumption
  <2> QED BY ONLY <1>1, <2>1
<1>4. modulep + meta.len <= kernend
  <2>1. MetaSpace \in Nat /\ meta.len <= MetaSpace /\ meta.len \in Nat
    BY MetaSpaceType DEF TypeInv, TypeOK
  <2>2. modulep + MetaSpace = kernend
    BY DEF LayoutInv, MetadataStacked, LoopDone
  <2> QED BY ONLY <1>1, <2>1, <2>2
<1> QED BY <1>2, <1>3, <1>4

LEMMA WindowStep ==
  ASSUME TypeInv, LayoutInv, WindowInv, [Next]_vars
  PROVE  WindowInv'
<1>1. CASE pc' \notin {"assemble", "segments", "planned"}
  BY <1>1 DEF WindowInv, Planned
<1>2. CASE ModulepIteration
  <2>1. ASSUME NEW i \in DOMAIN regions, FirstFit(i, cursor, MetaSpace, regions),
               kernend' = FirstPage(regions[i], cursor) + MetaSpace,
               regions' = regions, pc' \in {"assemble", "iterate"}
        PROVE  WindowInv'
    <3>1. cursor \in Nat /\ regions[i] \in Region
      BY RegionType DEF TypeInv, TypeOK
    <3>2. FirstPage(regions[i], cursor) \in Nat /\ MetaSpace \in Nat /\ regions[i].end \in Nat
      BY <3>1, FirstPageFacts, MetaSpaceType DEF TypeInv, Region
    <3>3. FirstPage(regions[i], cursor) + MetaSpace - 1 <= regions[i].end
      BY <2>1 DEF FirstFit, Fits
    <3>4. kernend' <= regions[i].end + 1
      BY ONLY <2>1, <3>2, <3>3
    <3>5. pc' # "planned" /\ i \in DOMAIN regions' /\ kernend' <= regions'[i].end + 1
      BY <2>1, <3>4
    <3> QED BY <3>5 DEF WindowInv, Planned
  <2>2. CASE Fail
    BY <2>2 DEF Fail, WindowInv, Planned
  <2> QED BY <1>2, <2>1, <2>2 DEF ModulepIteration, plan
<1>3. CASE Assemble
  BY <1>3 DEF Assemble, Fail, WindowInv, Planned, plan, loop
<1>4. CASE PrepareKexecSegments
  <2>1. CASE pc = "segments" /\ UNCHANGED <<given, plan, loop>>
    <3>1. /\ \A i \in DOMAIN addr : addr[i] + files[i] <= kernend
          /\ BundleLen > 0 => bundle + BundleLen <= kernend
          /\ modulep + meta.len <= kernend
      BY <2>1, FinishedBelowKernend
    <3>2. \E i \in DOMAIN regions : kernend <= regions[i].end + 1
      BY <2>1 DEF WindowInv
    <3>3. /\ addr' = addr /\ files' = files /\ kernend' = kernend /\ bundle' = bundle
          /\ modulep' = modulep /\ meta' = meta /\ regions' = regions /\ BundleLen' = BundleLen
      BY <2>1 DEF given, plan, loop, BundleLen, FontOffset, EnvOffset
    <3> QED BY <3>1, <3>2, <3>3, Zenon DEF WindowInv
  <2>2. CASE Fail
    BY <2>2 DEF Fail, WindowInv, Planned
  <2> QED BY <1>4, <2>1, <2>2 DEF PrepareKexecSegments
<1>5. CASE pc' = pc /\ UNCHANGED <<given, plan, loop>>
  <2>1. /\ addr' = addr /\ files' = files /\ kernend' = kernend /\ bundle' = bundle
        /\ modulep' = modulep /\ meta' = meta /\ regions' = regions /\ BundleLen' = BundleLen
    BY <1>5 DEF given, plan, loop, BundleLen, FontOffset, EnvOffset
  <2> QED BY <1>5, <2>1, Zenon DEF WindowInv, Planned
<1>6. CASE ReplaceKernel \/ IomemChanges \/ UNCHANGED vars
  <2>1. pc' = pc /\ UNCHANGED <<given, plan, loop>>
    BY <1>6 DEF ReplaceKernel, IomemChanges, vars
  <2> QED BY <1>5, <2>1
<1>7. CASE FindStaging \/ ReadRegions \/ ComputeKernelLayout \/ AssignModule
           \/ ModulesAssigned \/ BuildPreload \/ BuildMetadata
  <2>1. pc' \notin {"assemble", "segments", "planned"}
    BY <1>7 DEF FindStaging, ReadRegions, ComputeKernelLayout, AssignModule,
                ModulesAssigned, BuildPreload, BuildMetadata, Fail
  <2> QED BY <1>1, <2>1
<1> QED BY <1>2, <1>3, <1>4, <1>6, <1>7 DEF Next, Boot, Done

\* Without RAM behind the window of the trampoline's tables, all the metadata
\* points to is mapped, whatever the sizes and the other writers; the gap that
\* MetadataMapped fails on is the only way.
THEOREM MappedUnlessRamIsHigh == Spec => [](RamInWindow => MetadataMapped)
<1>1. Init => WindowInv
  BY DEF Init, WindowInv, Planned
<1>2. ASSUME TypeInv, WindowInv, RamInWindow PROVE MetadataMapped
  <2> SUFFICES ASSUME Planned PROVE MetadataMapped
    BY DEF MetadataMapped
  <2>1. PICK i \in DOMAIN regions : kernend <= regions[i].end + 1
    BY <1>2 DEF WindowInv, Planned
  <2>2. /\ staging \in Nat /\ kernend \in Nat /\ bundle \in Nat /\ modulep \in Nat /\ meta.len \in Nat
        /\ regions[i].end \in Nat /\ Window \in Nat /\ BundleLen \in Nat
    BY <1>2, RegionType, BundleLenType, SizesAssumption DEF TypeInv, TypeOK, Region
  <2>3. kernend - staging <= Window
    <3>1. regions[i].end < staging + Window
      BY <1>2 DEF RamInWindow
    <3> QED BY ONLY <2>1, <2>2, <3>1
  <2>4. ASSUME NEW j \in DOMAIN addr PROVE addr[j] + files[j] - staging <= Window
    <3>1. addr[j] \in Nat /\ files[j] \in Nat
      BY <1>2, PlacedType, FileLengthType DEF TypeInv
    <3>2. addr[j] + files[j] <= kernend
      BY <1>2 DEF WindowInv
    <3> QED BY ONLY <2>2, <2>3, <3>1, <3>2
  <2>5. BundleLen > 0 => bundle + BundleLen - staging <= Window
    <3>1. BundleLen > 0 => bundle + BundleLen <= kernend
      BY <1>2 DEF WindowInv
    <3> QED BY ONLY <2>2, <2>3, <3>1
  <2>6. modulep + meta.len - staging <= Window
    <3>1. modulep + meta.len <= kernend
      BY <1>2 DEF WindowInv
    <3> QED BY ONLY <2>2, <2>3, <3>1
  <2> QED BY <2>4, <2>5, <2>6 DEF MetadataMapped
<1> QED BY <1>1, <1>2, WindowStep, TypeInvariant, LayoutInvariant, PTL DEF Spec
===========================================================================
