-------------------------- MODULE TrampolineProofs --------------------------
(***************************************************************************)
(* Theorems about Trampoline: the page tables, for tables of any size and  *)
(* any staging base, and that the CPU walks them and no others.            *)
(***************************************************************************)
EXTENDS Trampoline, TLAPS

USE PageTablesAssumption

\* Four tables of N entries end at 4 * N; the window's two are the last.
LEMMA Rows ==
  ASSUME NEW a \in 0 .. N - 1, NEW b \in 0 .. N - 1
  PROVE  /\ a >= 4 => a * N + b >= 4 * N
         /\ a < N - 2 => a * N + b < (N - 2) * N
         /\ (N - 1) * N = (N - 2) * N + N
         /\ a * N \in Nat /\ (N - 2) * N \in Nat
<1>1. a >= 4 => a * N >= 4 * N
  OBVIOUS
<1>2. a < N - 2 => (a + 1) * N <= (N - 2) * N
  OBVIOUS
<1>3. (a + 1) * N = a * N + N /\ a * N \in Nat /\ (N - 2) * N \in Nat
  OBVIOUS
<1>4. (N - 1) * N = (N - 2) * N + N
  OBVIOUS
<1> QED BY <1>1, <1>2, <1>3, <1>4

\* What is in the pages, one slice after the other.
LEMMA Contents ==
  ASSUME NEW s \in Nat, NEW n \in 0 .. N - 1
  PROVE  /\ DOMAIN Pages(s) = 0 .. 8
         /\ Pages(s)[0][n] = IF n = 0 THEN Table(Pt4 + 1) ELSE IF n = N - 1 THEN Table(Pt4 + 2) ELSE None
         /\ Pages(s)[1][n] = IF n <= 3 THEN Table(Pt4 + 3 + n) ELSE None
         /\ Pages(s)[2][n] = IF n >= N - 2 THEN Table(Pt4 + 7 + n - (N - 2)) ELSE None
         /\ Pages(s)[3][n] = Leaf(n) /\ Pages(s)[4][n] = Leaf(N + n)
         /\ Pages(s)[5][n] = Leaf(2 * N + n) /\ Pages(s)[6][n] = Leaf(3 * N + n)
         /\ Pages(s)[7][n] = IF n = 0 THEN Leaf(0) ELSE Leaf(s + n)
         /\ Pages(s)[8][n] = Leaf(s + N + n)
<1> DEFINE P(f) == IF HighWindow(f, n, s) # None THEN HighWindow(f, n, s) ELSE LowIdentity(f, n)
<1>1. \A f \in 0 .. 8 : Pages(s)[f][n] = P(f)
  BY DEF Pages
<1>2. DOMAIN Pages(s) = 0 .. 8
  BY DEF Pages
<1> USE DEF HighWindow, LowIdentity, None, Table, Leaf,
            SlicePt4, SlicePt3Low, SlicePt3High, SlicePt2Low, SlicePt2High
<1>3. P(0) = IF n = 0 THEN Table(Pt4 + 1) ELSE IF n = N - 1 THEN Table(Pt4 + 2) ELSE None
  OBVIOUS
<1>4. P(1) = IF n <= 3 THEN Table(Pt4 + 3 + n) ELSE None
  OBVIOUS
<1>5. P(2) = IF n >= N - 2 THEN Table(Pt4 + 7 + n - (N - 2)) ELSE None
  OBVIOUS
<1>6. P(3) = Leaf(n) /\ P(4) = Leaf(N + n) /\ P(5) = Leaf(2 * N + n) /\ P(6) = Leaf(3 * N + n)
  OBVIOUS
<1>7. P(7) = IF n = 0 THEN Leaf(0) ELSE Leaf(s + n)
  <2>1. CASE n = 0
    BY <2>1
  <2>2. CASE n # 0
    <3>1. HighWindow(7, n, s) = Leaf(s + (7 - 7) * N + n)
      BY <2>2
    <3>2. s + (7 - 7) * N + n = s + n
      BY ONLY PageTablesAssumption, s \in Nat, n \in 0 .. N - 1
    <3> QED BY <2>2, <3>1, <3>2
  <2> QED BY <2>1, <2>2
<1>8. P(8) = Leaf(s + N + n)
  OBVIOUS
<1> HIDE DEF P
<1> QED BY ONLY <1>1, <1>2, <1>3, <1>4, <1>5, <1>6, <1>7, <1>8

\* Following an entry.
LEMMA Following ==
  ASSUME NEW s \in Nat, NEW n \in 0 .. N - 1, NEW f \in 0 .. 8, NEW a
  PROVE  /\ Lookup(Pages(s), Table(Pt4 + f), n) = Pages(s)[f][n]
         /\ Lookup(Pages(s), None, n) = None
         /\ Leaf(a).kind = "leaf" /\ Leaf(a).at = a /\ None.kind # "leaf"
<1>1. DOMAIN Pages(s) = 0 .. 8
  BY DEF Pages
<1> QED BY <1>1 DEF Lookup, Table, None, Leaf

\* Every virtual address leads where it is meant to lead, and nowhere else.
THEOREM WalkIsMeant ==
  ASSUME NEW s \in Nat, NEW va \in Virtual
  PROVE  Walk(Pages(s), va) = Meant(va, s)
<1> DEFINE pages == Pages(s)
           e1 == Lookup(pages, Table(Pt4), va[1])
           e2 == Lookup(pages, e1, va[2])
           e3 == Lookup(pages, e2, va[3])
           low == va[2] * N + va[3]
<1>1. va[1] \in 0 .. N - 1 /\ va[2] \in 0 .. N - 1 /\ va[3] \in 0 .. N - 1
  BY DEF Virtual
<1>2. e1 = pages[0][va[1]]
  <2>1. Pt4 = Pt4 + 0
    OBVIOUS
  <2> QED BY <1>1, <2>1, Following
<1>3. /\ va[2] >= 4 => low >= 4 * N
      /\ va[2] < N - 2 => low < (N - 2) * N
      /\ (N - 1) * N = (N - 2) * N + N
      /\ low \in Nat /\ (N - 2) * N \in Nat
  BY <1>1, Rows
<1>4. Walk(pages, va) = IF e3.kind = "leaf" THEN e3.at ELSE -1
  BY DEF Walk
<1> HIDE DEF e1, e2, e3
<1>n. ASSUME e2 = None PROVE Walk(pages, va) = -1
  BY <1>1, <1>4, <1>n, Following DEF e3
<1>5. CASE va[1] = 0
  <2>1. e1 = Table(Pt4 + 1)
    BY <1>1, <1>2, <1>5, Contents
  <2>2. e2 = pages[1][va[2]]
    BY <1>1, <2>1, Following DEF e2
  <2>p. pages[1][va[2]] = IF va[2] <= 3 THEN Table(Pt4 + 3 + va[2]) ELSE None
    BY ZenonT(60), <1>1, Contents
  <2>3. CASE va[2] >= 4
    <3>1. e2 = None
      BY ONLY <1>1, <2>2, <2>3, <2>p
    <3>2. Meant(va, s) = -1
      BY <1>1, <1>3, <1>5, <2>3 DEF Meant
    <3> QED BY <1>n, <3>1, <3>2
  <2>4. CASE va[2] < 4
    <3>1. e2 = Table(Pt4 + (3 + va[2])) /\ 3 + va[2] \in 0 .. 8
      <4>1. Pt4 + 3 + va[2] = Pt4 + (3 + va[2]) /\ 3 + va[2] \in 0 .. 8
        BY <1>1, <2>4
      <4> QED BY ONLY <1>1, <2>2, <2>4, <2>p, <4>1
    <3>2. e3 = pages[3 + va[2]][va[3]]
      BY SMTT(60), <1>1, <3>1, Following DEF e3
    <3>3. e3 = Leaf(low)
      <4>1. va[2] \in {0, 1, 2, 3}
        BY <1>1, <2>4
      <4>2. /\ pages[3][va[3]] = Leaf(va[3]) /\ pages[4][va[3]] = Leaf(N + va[3])
            /\ pages[5][va[3]] = Leaf(2 * N + va[3]) /\ pages[6][va[3]] = Leaf(3 * N + va[3])
        <5>1. pages[3][va[3]] = Leaf(va[3])
          BY ZenonT(60), <1>1, Contents
        <5>2. pages[4][va[3]] = Leaf(N + va[3])
          BY ZenonT(60), <1>1, Contents
        <5>3. pages[5][va[3]] = Leaf(2 * N + va[3])
          BY ZenonT(60), <1>1, Contents
        <5>4. pages[6][va[3]] = Leaf(3 * N + va[3])
          BY ZenonT(60), <1>1, Contents
        <5> QED BY <5>1, <5>2, <5>3, <5>4
      <4> HIDE DEF pages
      <4>3. va[3] \in Nat /\ N \in Nat /\ 3 + 0 = 3 /\ 3 + 1 = 4 /\ 3 + 2 = 5 /\ 3 + 3 = 6
        BY <1>1
      <4>4. 0 * N + va[3] = va[3] /\ 1 * N + va[3] = N + va[3]
        BY ONLY <4>3
      <4> QED BY ONLY <3>2, <4>1, <4>2, <4>3, <4>4, Zenon
    <3>4. Meant(va, s) = low
      <4>1. low < 4 * N
        BY <1>1, <2>4
      <4> QED BY <1>5, <4>1 DEF Meant
    <3> QED BY <1>1, <1>4, <3>3, <3>4, Following
  <2> QED BY <1>1, <2>3, <2>4
<1>6. CASE va[1] = N - 1
  <2>1. e1 = Table(Pt4 + 2)
    BY <1>1, <1>2, <1>6, Contents
  <2>2. e2 = pages[2][va[2]]
    BY <1>1, <2>1, Following DEF e2
  <2>p. pages[2][va[2]] = IF va[2] >= N - 2 THEN Table(Pt4 + 7 + va[2] - (N - 2)) ELSE None
    BY ZenonT(60), <1>1, Contents
  <2>3. CASE va[2] < N - 2
    <3>1. e2 = None
      BY ONLY PageTablesAssumption, <1>1, <2>2, <2>3, <2>p
    <3>2. Meant(va, s) = -1
      BY <1>1, <1>3, <1>6, <2>3 DEF Meant
    <3> QED BY <1>n, <3>1, <3>2
  <2>4. CASE va[2] = N - 2
    <3>1. e2 = Table(Pt4 + 7)
      <4>1. Pt4 + 7 + va[2] - (N - 2) = Pt4 + 7 /\ va[2] >= N - 2
        BY <1>1, <2>4
      <4> QED BY ONLY <2>2, <2>p, <4>1
    <3>2. e3 = IF va[3] = 0 THEN Leaf(0) ELSE Leaf(s + va[3])
      <4>1. e3 = pages[7][va[3]]
        BY <1>1, <3>1, Following DEF e3
      <4>2. pages[7][va[3]] = IF va[3] = 0 THEN Leaf(0) ELSE Leaf(s + va[3])
        BY ZenonT(60), <1>1, Contents
      <4> QED BY <4>1, <4>2
    <3>3. Meant(va, s) = IF va[3] = 0 THEN 0 ELSE s + va[3]
      BY <1>1, <1>3, <1>6, <2>4 DEF Meant
    <3> QED BY <1>1, <1>4, <3>2, <3>3, Following
  <2>5. CASE va[2] = N - 1
    <3>1. e2 = Table(Pt4 + 8)
      <4>1. Pt4 + 7 + va[2] - (N - 2) = Pt4 + 8 /\ va[2] >= N - 2
        BY <1>1, <2>5
      <4> QED BY ONLY <2>2, <2>p, <4>1
    <3>2. e3 = Leaf(s + N + va[3])
      <4>1. e3 = pages[8][va[3]]
        BY <1>1, <3>1, Following DEF e3
      <4>2. pages[8][va[3]] = Leaf(s + N + va[3])
        BY ZenonT(60), <1>1, Contents
      <4> QED BY ONLY <4>1, <4>2
    <3>3. Meant(va, s) = s + N + va[3]
      BY <1>1, <1>3, <1>6, <2>5 DEF Meant
    <3> QED BY <1>1, <1>4, <3>2, <3>3, Following
  <2> QED BY <1>1, <2>3, <2>4, <2>5
<1>7. CASE va[1] # 0 /\ va[1] # N - 1
  <2>1. e1 = None
    <3>1. pages[0][va[1]] =
            IF va[1] = 0 THEN Table(Pt4 + 1) ELSE IF va[1] = N - 1 THEN Table(Pt4 + 2) ELSE None
      BY ZenonT(60), <1>1, Contents
    <3> QED BY ONLY <1>2, <1>7, <3>1
  <2>2. e2 = None
    BY <1>1, <2>1, Following DEF e2
  <2>3. Meant(va, s) = -1
    BY <1>7 DEF Meant
  <2> QED BY <1>n, <2>2, <2>3
<1> QED BY <1>5, <1>6, <1>7
---------------------------------------------------------------------------
(* The memory.                                                             *)

\* Bytes of memory that hold the first n of a word.
Held(m, a, w, n) == \A i \in 0 .. n - 1 : m[a + i] = w[i]

\* What was written is there, and stays when something else is written.
LEMMA WriteHeld ==
  ASSUME NEW m, DOMAIN m = Lowest .. DataEnd, NEW a \in Lowest .. DataEnd, NEW w,
         NEW n \in 1 .. 8, a + n - 1 <= DataEnd
  PROVE  Held(Written(m, a, w, n), a, w, n)
BY DEF Held, Written, Lowest, DataEnd

LEMMA WriteKeeps ==
  ASSUME NEW m, DOMAIN m = Lowest .. DataEnd, NEW a \in Lowest .. DataEnd, NEW w,
         NEW n \in 1 .. 8, a + n - 1 <= DataEnd, Held(m, a, w, n),
         NEW b \in Int, NEW k \in Nat, NEW u, b + k <= a \/ a + n <= b
  PROVE  Held(Written(m, b, u, k), a, w, n)
<1> SUFFICES ASSUME NEW i \in 0 .. n - 1
             PROVE  Written(m, b, u, k)[a + i] = w[i]
  BY DEF Held
<1>1. a + i \in DOMAIN m /\ a + i \notin b .. b + k - 1
  BY DEF Lowest, DataEnd
<1>2. m[a + i] = w[i]
  BY DEF Held
<1>3. Written(m, b, u, k)[a + i] = m[a + i]
  BY ONLY <1>1 DEF Written
<1> QED BY <1>2, <1>3

\* The seven parameters, eight bytes each from the start of the data.
Parameter(at, modulep, kernend) ==
  CASE at = Src -> Word(job.src) [] at = Dst -> Word(job.dst) [] at = Length -> Word(job.len)
    [] at = TableAt -> Word(Pt4) [] at = EntryAt -> Word(Entry)
    [] at = ModulepAt -> Long(modulep) [] at = KernendAt -> Long(kernend)

\* The data holds every parameter where the block pops it from.
LEMMA DataHolds ==
  ASSUME NEW modulep, NEW kernend
  PROVE  /\ DOMAIN Data(modulep, kernend) = Lowest .. DataEnd
         /\ \A a \in {Src, Dst, Length, TableAt, EntryAt, ModulepAt, KernendAt} :
              Held(Data(modulep, kernend), a, Parameter(a, modulep, kernend), 8)
<1> DEFINE P(a) == Parameter(a, modulep, kernend)
           Places == {0, 8, 16, 24, 32, 40, 48}
           M0 == [x \in Lowest .. DataEnd |-> <<0, 0>>]
           M1 == Written(M0, 0, P(0), 8)
           M2 == Written(M1, 8, P(8), 8)
           M3 == Written(M2, 16, P(16), 8)
           M4 == Written(M3, 24, P(24), 8)
           M5 == Written(M4, 32, P(32), 8)
           M6 == Written(M5, 40, P(40), 8)
           M7 == Written(M6, 48, P(48), 8)
           M8 == Written(M7, Gdt + GcodeSel, Word(GcodeDescriptor), 8)
           M9 == Written(M8, Gdt + GdataSel, Word(GdataDescriptor), 8)
           M10 == Written(M9, Gdtr, Word(GdtLimit), 2)
           M11 == Written(M10, Gdtr + 2, Word(GdtBase), 8)
           Below(m, b) == /\ DOMAIN m = Lowest .. DataEnd
                          /\ \A a \in Places : a < b => Held(m, a, P(a), 8)
<1>1. /\ P(0) = Word(job.src) /\ P(8) = Word(job.dst) /\ P(16) = Word(job.len) /\ P(24) = Word(Pt4)
      /\ P(32) = Word(Entry) /\ P(40) = Long(modulep) /\ P(48) = Long(kernend)
  BY DEF Parameter, Src, Dst, Length, TableAt, EntryAt, ModulepAt, KernendAt
<1>2. Data(modulep, kernend) = M11
  BY <1>1, Zenon DEF Data, Src, Dst, Length, TableAt, EntryAt, ModulepAt, KernendAt
<1>3. Below(M0, 0)
  OBVIOUS
<1>4. \A m, a, w, n : DOMAIN Written(m, a, w, n) = DOMAIN m
  BY DEF Written
<1> HIDE DEF P, M0
<1>5. ASSUME NEW m, NEW b \in Places, Below(m, b) PROVE Below(Written(m, b, P(b), 8), b + 8)
  <2>1. Held(Written(m, b, P(b), 8), b, P(b), 8)
    BY <1>5, WriteHeld DEF Lowest, DataEnd
  <2>2. ASSUME NEW a \in Places, a < b PROVE Held(Written(m, b, P(b), 8), a, P(a), 8)
    <3>1. Held(m, a, P(a), 8) /\ DOMAIN m = Lowest .. DataEnd
      BY <1>5, <2>2
    <3>2. a \in Lowest .. DataEnd /\ 8 \in 1 .. 8 /\ a + 8 - 1 <= DataEnd /\ b \in Int /\ a + 8 <= b
      BY <2>2 DEF Lowest, DataEnd
    <3> QED BY <3>1, <3>2, WriteKeeps
  <2>3. \A a \in Places : a < b + 8 => a = b \/ a < b
    OBVIOUS
  <2>4. DOMAIN Written(m, b, P(b), 8) = Lowest .. DataEnd
    BY <1>4, <1>5
  <2> QED BY <2>1, <2>2, <2>3, <2>4
<1>6. ASSUME NEW m, Below(m, 56), NEW b \in Int, b >= 56, NEW u, NEW k \in Nat
      PROVE  Below(Written(m, b, u, k), 56)
  <2>1. ASSUME NEW a \in Places PROVE Held(Written(m, b, u, k), a, P(a), 8)
    <3>1. Held(m, a, P(a), 8) /\ DOMAIN m = Lowest .. DataEnd
      BY <1>6
    <3>2. a \in Lowest .. DataEnd /\ 8 \in 1 .. 8 /\ a + 8 - 1 <= DataEnd /\ a + 8 <= b
      BY <1>6 DEF Lowest, DataEnd
    <3> QED BY <1>6, <3>1, <3>2, WriteKeeps
  <2>2. DOMAIN Written(m, b, u, k) = Lowest .. DataEnd
    BY <1>4, <1>6
  <2> QED BY <2>1, <2>2
<1> HIDE DEF Below
<1>7. Below(M3, 24)
  <2>1. Below(M1, 0 + 8)
    BY <1>3, <1>5
  <2>2. Below(M2, 8 + 8)
    BY <1>5, <2>1
  <2>3. Below(M3, 16 + 8)
    BY <1>5, <2>2
  <2> QED BY <2>3
<1> HIDE DEF M3
<1>8. Below(M7, 56)
  <2>1. Below(M4, 24 + 8)
    BY <1>5, <1>7
  <2>2. Below(M5, 32 + 8)
    BY <1>5, <2>1
  <2>3. Below(M6, 40 + 8)
    BY <1>5, <2>2
  <2>4. Below(M7, 48 + 8)
    BY <1>5, <2>3
  <2> QED BY <2>4
<1> HIDE DEF M7
<1>9. Below(M11, 56)
  <2>1. Below(M8, 56)
    BY <1>6, <1>8 DEF Gdt, GcodeSel
  <2>2. Below(M9, 56)
    BY <1>6, <2>1 DEF Gdt, GdataSel
  <2>3. Below(M10, 56)
    BY <1>6, <2>2 DEF Gdtr
  <2> QED BY <1>6, <2>3 DEF Gdtr
<1> QED
  BY <1>2, <1>9 DEF Below, P, Src, Dst, Length, TableAt, EntryAt, ModulepAt, KernendAt

\* The address of the page tables is where the block pops it from.
LEMMA DataHoldsTable ==
  ASSUME NEW modulep, NEW kernend
  PROVE  /\ DOMAIN Data(modulep, kernend) = Lowest .. DataEnd
         /\ \A i \in Index : Data(modulep, kernend)[TableAt + i] = Word(Pt4)[i]
<1>1. Parameter(TableAt, modulep, kernend) = Word(Pt4)
  BY DEF Parameter, Src, Dst, Length, TableAt, EntryAt, ModulepAt, KernendAt
<1>2. Held(Data(modulep, kernend), TableAt, Word(Pt4), 8)
  BY <1>1, DataHolds
<1> QED BY <1>2, DataHolds DEF Held, Index
---------------------------------------------------------------------------
(* Where the stack pointer is at each point of the block: the code moves   *)
(* it by what it pushes and pops, and returns to what it kept.             *)
Stack ==
  /\ pc \in {"copy", "tables"} => rsp = TableAt
  /\ pc \in {"lgdt", "cs", "debug", "frame", "frameprint", "jump", "kernel"} => rsp = EntryAt
  /\ pc \in {"cs", "lretq", "debug", "stub", "return", "frame", "frameprint", "jump"} => r11 = EntryAt
  /\ pc \in {"stub", "return"} => rsp = EntryAt - 80

\* What CR3 is loaded from, and that nothing loads it again.
Loaded ==
  /\ job.staging \in Nat
  /\ pc \in {"wait", "params", "copy", "tables"} => \A i \in Index : mem[TableAt + i] = Word(Pt4)[i]
  /\ pc \in {"lgdt", "cs", "lretq", "debug", "stub", "return", "frame", "frameprint", "jump", "kernel"} =>
       cr3 = Word(Pt4)

LEMMA WrittenDomain ==
  ASSUME NEW m, NEW a, NEW w, NEW n
  PROVE  DOMAIN Written(m, a, w, n) = DOMAIN m /\ DOMAIN Push(m, a, w) = DOMAIN m
BY DEF Written, Push

LEMMA FrameDomain ==
  ASSUME NEW m
  PROVE  DOMAIN Frame(m) = DOMAIN m
<1> DEFINE F1 == Written(m, r11, Word(0), 4)
           F2 == Written(F1, r11 + 4, Long(ModulepOff), 4)
           F3 == Written(F2, r11 + 8, Long(KernendOff), 4)
<1>1. Frame(m) = Written(F3, r11 + 12, Word(0), 4)
  BY Zenon DEF Frame
<1>2. \A x, a, w, n : DOMAIN Written(x, a, w, n) = DOMAIN x
  BY DEF Written
<1>3. DOMAIN F1 = DOMAIN m
  BY ONLY <1>2
<1>4. DOMAIN F2 = DOMAIN F1
  BY ONLY <1>2
<1>5. DOMAIN F3 = DOMAIN F2
  BY ONLY <1>2
<1>6. DOMAIN Frame(m) = DOMAIN F3
  BY ONLY <1>1, <1>2
<1> QED BY ONLY <1>3, <1>4, <1>5, <1>6

\* The invariant is kept by every step.
LEMMA BlockStep ==
  ASSUME TypeOK, Stack, Loaded, [Next]_vars
  PROVE  TypeOK' /\ Stack' /\ Loaded'
<1> USE DEF TypeOK, Stack, Loaded, TableAt, EntryAt, Scratch
<1>1. CASE Assemble
  <2>1. DOMAIN mem' = Lowest .. DataEnd
    BY <1>1, DataHoldsTable DEF Assemble
  <2>2. pc' = "wait" => \A i \in Index : mem'[TableAt + i] = Word(Pt4)[i]
    BY <1>1, DataHoldsTable DEF Assemble
  <2>3. pc' \in {"wait", "error"} /\ UNCHANGED <<job, cpu, thr>>
    BY <1>1 DEF Assemble
  <2> QED BY <2>1, <2>2, <2>3 DEF cpu
<1>2. CASE WaitUart
  BY <1>2 DEF WaitUart, cpu
<1>3. CASE PopParams
  BY <1>3 DEF PopParams
<1>4. CASE CopyMap
  BY <1>4 DEF CopyMap
<1>5. CASE SkipCopy
  BY <1>5 DEF SkipCopy, cpu
<1>6. CASE LoadTables
  <2>1. cr3' = Word(Pt4)
    <3>1. cr3' = [i \in Index |-> mem[TableAt + i]]
      BY <1>6 DEF LoadTables, Read
    <3>2. \A i \in Index : mem[TableAt + i] = Word(Pt4)[i]
      BY <1>6 DEF LoadTables
    <3> QED BY <3>1, <3>2 DEF Word
  <2>2. DOMAIN mem' = Lowest .. DataEnd
    BY <1>6, WrittenDomain DEF LoadTables
  <2>3. rsp' = EntryAt /\ pc' \in {"lgdt", "fault"} /\ UNCHANGED <<job, r11, cs, thr>>
    BY <1>6 DEF LoadTables, RunsOn
  <2> QED BY <2>1, <2>2, <2>3
<1>7. CASE LoadGdt
  BY <1>7 DEF LoadGdt
<1>8. CASE ReloadCs
  <2>1. DOMAIN mem' = Lowest .. DataEnd
    <3>1. \A x, a, w : DOMAIN Push(x, a, w) = DOMAIN x
      BY DEF Push, Written
    <3>2. \/ mem' = mem
          \/ mem' = Push(Push(mem, ReloadStack, Byte(GcodeSel)), ReloadStack - 8, Word(ReloadLabel))
      BY <1>8, Zenon DEF ReloadCs
    <3>3. DOMAIN mem' = DOMAIN mem
      BY ONLY <3>1, <3>2
    <3> QED BY <3>3
  <2> QED BY <1>8, <2>1 DEF ReloadCs, ReloadStack
<1>9. CASE FarReturn
  <2>1. cs' \in {cs, GcodeSel} /\ pc' \in {"debug", "fault"} /\ rsp' \in {rsp, r11}
        /\ (pc' = "debug" => rsp' = r11) /\ pc = "lretq"
    BY <1>9 DEF FarReturn
  <2>2. UNCHANGED <<job, mem, r11, cr3, thr>>
    BY <1>9 DEF FarReturn
  <2> QED BY <2>1, <2>2
<1>10. CASE NoDebug
  BY <1>10 DEF NoDebug, cpu
<1>11. CASE EnterStub
  <2>1. DOMAIN mem' = Lowest .. DataEnd
    BY <1>11 DEF EnterStub
  <2> QED BY <1>11, <2>1 DEF EnterStub
<1>12. CASE PrintState
  <2>1. DOMAIN mem' = Lowest .. DataEnd
    BY <1>12 DEF PrintState
  <2>2. pc = "stub" /\ pc' = "return" /\ UNCHANGED <<job, cpu, thr>>
    BY <1>12 DEF PrintState
  <2> QED BY <2>1, <2>2 DEF cpu
<1>13. CASE LeaveStub
  BY <1>13 DEF LeaveStub
<1>14. CASE BuildFrame
  <2>1. DOMAIN mem' = Lowest .. DataEnd
    BY <1>14, FrameDomain DEF BuildFrame
  <2> QED BY <1>14, <2>1 DEF BuildFrame
<1>15. CASE PrintFrame
  <2>1. DOMAIN mem' = Lowest .. DataEnd
    BY <1>15, WrittenDomain DEF PrintFrame
  <2>2. pc = "frameprint" /\ pc' = "jump" /\ UNCHANGED <<job, rsp, r11, cs, cr3, thr>>
    BY <1>15 DEF PrintFrame
  <2> QED BY <2>1, <2>2
<1>16. CASE Jump
  <2>1. DOMAIN mem' = Lowest .. DataEnd
    <3>1. mem' = Push(Frame(mem), rsp, rax)
      BY <1>16, Zenon DEF Jump
    <3>2. DOMAIN mem' = DOMAIN Frame(mem) /\ DOMAIN Frame(mem) = DOMAIN mem
      BY ONLY <3>1, WrittenDomain, FrameDomain
    <3> QED BY <3>2
  <2>2. pc = "jump" /\ pc' = "kernel" /\ UNCHANGED <<job, rsp, r11, cs, cr3, thr>>
    BY <1>16 DEF Jump
  <2> QED BY <2>1, <2>2
<1>17. CASE Transmitted
  BY <1>17 DEF Transmitted, cpu
<1>18. CASE UNCHANGED vars
  BY <1>18 DEF vars, cpu
<1> HIDE DEF TypeOK, Stack, Loaded
<1> QED
  BY <1>1, <1>2, <1>3, <1>4, <1>5, <1>6, <1>7, <1>8, <1>9, <1>10, <1>11, <1>12, <1>13,
     <1>14, <1>15, <1>16, <1>17, <1>18 DEF Next, Cpu

LEMMA BlockInit == Init => TypeOK /\ Stack /\ Loaded
BY TrampolineAssumption DEF Init, TypeOK, Stack, Loaded

\* The stack pointer is where the code means it to be, for any parameters.
THEOREM BlockTypes == Spec => []TypeOK
BY BlockInit, BlockStep, PTL DEF Spec

(* From the load of CR3 to the kernel's first instruction, every address   *)
(* leads where it is meant to lead.                                        *)
THEOREM AlwaysMapped == Spec => []Mapped
<1>1. Loaded => Mapped
  BY WalkIsMeant DEF Loaded, Mapped
<1> QED BY <1>1, BlockInit, BlockStep, PTL DEF Spec
---------------------------------------------------------------------------
(* What the kernel is handed, from the parameters through the registers to *)
(* the frame. The parameters, until they have been used.                   *)
MapCopy ==
  IF job.src # 0 /\ job.len <= CopyMax THEN <<Word(job.src), Word(job.dst), Word(job.len)>> ELSE <<>>

Parameters ==
  /\ pc \notin {"assemble", "error"} => CanAssemble
  /\ pc \in {"wait", "params"} =>
       /\ Held(mem, Src, Word(job.src), 8) /\ Held(mem, Dst, Word(job.dst), 8)
       /\ Held(mem, Length, Word(job.len), 8)
  /\ pc = "copy" => rsi = Word(job.src) /\ rdi = Word(job.dst) /\ rcx = Word(job.len)
  /\ {job.src, job.len, job.staging, job.kernel, job.modulep, job.kernend} \subseteq Nat
  /\ copied = IF pc \in {"assemble", "error", "wait", "params", "copy"} THEN <<>> ELSE MapCopy

\* Words of different numbers differ.
LEMMA WordInjective ==
  ASSUME NEW v, NEW w, Word(v) = Word(w)
  PROVE  v = w
<1>1. Word(v)[0] = <<v, 0>> /\ Word(w)[0] = <<w, 0>>
  BY DEF Word, Index
<1> QED BY ONLY <1>1, Word(v) = Word(w)

\* A word read where it is held is that word.
LEMMA ReadHeld ==
  ASSUME NEW a, NEW v
  PROVE  /\ Held(mem, a, Word(v), 8) => Read(a) = Word(v)
         /\ Held(mem, a, Word(v), 4) => ReadLong(a) = Long(v)
<1>1. ASSUME Held(mem, a, Word(v), 8) PROVE Read(a) = Word(v)
  BY <1>1 DEF Held, Read, Word, Index
<1>2. ASSUME Held(mem, a, Word(v), 4) PROVE ReadLong(a) = Long(v)
  <2>1. \A i \in Index : i < 4 => mem[a + i] = Word(v)[i]
    BY <1>2 DEF Held, Index
  <2> QED BY <2>1 DEF ReadLong, Long, Narrow
<1> QED BY <1>1, <1>2

LEMMA ParametersStep ==
  ASSUME TypeOK, Parameters, [Next]_vars
  PROVE  Parameters'
<1> USE DEF Parameters
<1>1. CASE Assemble
  <2>1. pc' = "error" \/ (pc' = "wait" /\ CanAssemble /\ mem' = Data(ModulepOff, KernendOff))
    BY <1>1 DEF Assemble
  <2>2. UNCHANGED <<job, copied>> /\ pc = "assemble"
    BY <1>1 DEF Assemble
  <2>3. mem' = Data(ModulepOff, KernendOff) =>
          /\ Held(mem', Src, Word(job.src), 8) /\ Held(mem', Dst, Word(job.dst), 8)
          /\ Held(mem', Length, Word(job.len), 8)
    BY DataHolds DEF Parameter, Src, Dst, Length, TableAt, EntryAt, ModulepAt, KernendAt
  <2>4. CanAssemble' <=> CanAssemble
    BY <2>2 DEF CanAssemble, ModulepOff, KernendOff
  <2> QED BY <2>1, <2>2, <2>3, <2>4
<1>k. UNCHANGED job => CanAssemble' = CanAssemble /\ MapCopy' = MapCopy
  BY DEF CanAssemble, ModulepOff, KernendOff, MapCopy
<1>2. CASE WaitUart
  BY <1>2, <1>k DEF WaitUart
<1>3. CASE PopParams
  BY <1>3, <1>k, ReadHeld DEF PopParams
<1>c. ASSUME pc = "copy" PROVE MayCopy <=> job.src # 0 /\ job.len <= CopyMax
  <2>1. rsi # Word(0) <=> job.src # 0
    BY <1>c, WordInjective
  <2>2. rcx \in {Word(n) : n \in 0 .. CopyMax} <=> job.len <= CopyMax
    <3>1. ASSUME job.len <= CopyMax PROVE rcx \in {Word(n) : n \in 0 .. CopyMax}
      BY <1>c, <3>1, TrampolineAssumption
    <3>2. ASSUME NEW n \in 0 .. CopyMax, rcx = Word(n) PROVE job.len <= CopyMax
      <4>1. job.len = n
        BY <1>c, <3>2, WordInjective
      <4> QED BY <4>1
    <3> QED BY <3>1, <3>2
  <2> QED BY <2>1, <2>2 DEF MayCopy
<1>4. CASE CopyMap
  <2>1. pc = "copy" /\ pc' = "tables" /\ UNCHANGED job /\ copied' = <<rsi, rdi, rcx>> /\ MayCopy
    BY <1>4 DEF CopyMap
  <2> QED BY <1>c, <1>k, <2>1 DEF MapCopy
<1>5. CASE SkipCopy
  <2>1. pc = "copy" /\ pc' = "tables" /\ UNCHANGED <<job, copied>> /\ ~MayCopy
    BY <1>5 DEF SkipCopy
  <2> QED BY <1>c, <1>k, <2>1 DEF MapCopy
<1>6. ASSUME UNCHANGED <<job, copied>>,
             {pc, pc'} \cap {"assemble", "error", "wait", "params", "copy"} = {}
      PROVE  Parameters'
  BY <1>6, <1>k
<1>7. CASE LoadTables
  BY <1>6, <1>7 DEF LoadTables, RunsOn
<1>8. CASE LoadGdt \/ ReloadCs \/ FarReturn
  BY <1>6, <1>8 DEF LoadGdt, ReloadCs, FarReturn
<1>9. CASE NoDebug \/ EnterStub \/ PrintState \/ LeaveStub
  BY <1>6, <1>9 DEF NoDebug, EnterStub, PrintState, LeaveStub
<1>10. CASE BuildFrame \/ PrintFrame \/ Jump
  BY <1>6, <1>10 DEF BuildFrame, PrintFrame, Jump
<1>11. CASE Transmitted
  BY <1>11, <1>k DEF Transmitted, cpu
<1>12. CASE UNCHANGED vars
  BY <1>12, <1>k DEF vars, cpu
<1> HIDE DEF Parameters
<1> QED
  BY <1>1, <1>2, <1>3, <1>4, <1>5, <1>7, <1>8, <1>9, <1>10, <1>11, <1>12 DEF Next, Cpu
---------------------------------------------------------------------------
(* The entry and the kernel's end stay in memory until the stub has shown  *)
(* them, under everything that is pushed; the entry goes on in a register, *)
(* the page tables' address in the slot. The code segment is reloaded in   *)
(* any case, since the character of the debug output replaced what was     *)
(* compared.                                                               *)
Switched ==
  /\ pc \in {"wait", "params", "copy", "tables", "lgdt", "cs", "lretq", "debug", "stub"} =>
       Held(mem, EntryAt, Word(Entry), 8) /\ Held(mem, KernendAt, Word(KernendOff), 4)
  /\ pc \in {"lgdt", "cs", "lretq", "debug", "stub"} => Held(mem, Slot, Word(Pt4), 8)
  /\ pc \in {"lgdt", "cs", "lretq", "debug", "stub", "return", "frame", "frameprint", "jump", "kernel"} =>
       r9 = Word(Entry)
  /\ pc = "cs" => rax[0] = <<99, 0>>
  /\ pc \in {"debug", "stub", "return", "frame", "frameprint", "jump", "kernel"} =>
       cs = GcodeSel /\ gdtr[2] = Word(GdtBase)

LEMMA SwitchedStep ==
  ASSUME TypeOK, Stack, Loaded, Switched, [Next]_vars
  PROVE  Switched'
<1> USE DEF Switched
<1>k. UNCHANGED job => UNCHANGED KernendOff
  BY DEF KernendOff, OffsetOf
<1>p. /\ EntryAt \in Lowest .. DataEnd /\ KernendAt \in Lowest .. DataEnd /\ Slot \in Lowest .. DataEnd
      /\ EntryAt + 8 - 1 <= DataEnd /\ KernendAt + 4 - 1 <= DataEnd /\ Slot + 8 - 1 <= DataEnd
      /\ 8 \in 1 .. 8 /\ 4 \in 1 .. 8
  BY DEF EntryAt, KernendAt, Slot, Lowest, DataEnd
<1>d. DOMAIN mem = Lowest .. DataEnd
  BY DEF TypeOK
<1>1. CASE Assemble
  <2>1. pc' = "error" \/ (pc' = "wait" /\ mem' = Data(ModulepOff, KernendOff))
    BY <1>1 DEF Assemble
  <2>2. UNCHANGED job
    BY <1>1 DEF Assemble
  <2>3. mem' = Data(ModulepOff, KernendOff) =>
          Held(mem', EntryAt, Word(Entry), 8) /\ Held(mem', KernendAt, Word(KernendOff), 4)
    <3> SUFFICES ASSUME mem' = Data(ModulepOff, KernendOff)
                 PROVE  Held(mem', EntryAt, Word(Entry), 8) /\ Held(mem', KernendAt, Word(KernendOff), 4)
      OBVIOUS
    <3>1. Held(mem', EntryAt, Word(Entry), 8) /\ Held(mem', KernendAt, Long(KernendOff), 8)
      BY DataHolds DEF Parameter, Src, Dst, Length, TableAt, EntryAt, ModulepAt, KernendAt
    <3>2. \A i \in 0 .. 3 : Long(KernendOff)[i] = Word(KernendOff)[i]
      BY DEF Long, Narrow, Index
    <3> QED BY <3>1, <3>2 DEF Held
  <2> QED BY <1>k, <2>1, <2>2, <2>3
<1>2. CASE WaitUart \/ PopParams \/ CopyMap \/ SkipCopy
  <2>1. UNCHANGED <<job, mem>> /\ {pc, pc'} \subseteq {"wait", "params", "copy", "tables"}
    BY <1>2 DEF WaitUart, PopParams, CopyMap, SkipCopy
  <2> QED BY <1>k, <2>1
<1>3. CASE LoadTables
  <2>1. UNCHANGED job /\ pc = "tables" /\ pc' \in {"lgdt", "fault"}
    BY <1>3 DEF LoadTables, RunsOn
  <2>2. rsp = TableAt /\ mem' = Written(mem, Slot, Read(rsp), 8) /\ r9' = Read(rsp + 8)
    BY <1>3, Zenon DEF LoadTables, Stack
  <2>3. r9' = Word(Entry)
    <3>1. rsp + 8 = EntryAt
      BY <2>2 DEF TableAt, EntryAt
    <3> QED BY <2>1, <2>2, <3>1, ReadHeld
  <2>4. Read(rsp) = Word(Pt4)
    <3>1. Held(mem, TableAt, Word(Pt4), 8)
      BY <2>1 DEF Loaded, Held, Index
    <3> QED BY <2>2, <3>1, ReadHeld
  <2>5. Held(mem', Slot, Word(Pt4), 8)
    BY <1>d, <1>p, <2>2, <2>4, WriteHeld
  <2>6. Slot \in Int /\ 8 \in Nat /\ EntryAt + 8 <= Slot /\ KernendAt + 4 <= Slot
    BY DEF Slot, EntryAt, KernendAt
  <2>7. Held(mem', EntryAt, Word(Entry), 8)
    BY <1>d, <1>p, <2>1, <2>2, <2>6, WriteKeeps
  <2>8. Held(mem', KernendAt, Word(KernendOff), 4)
    BY <1>d, <1>p, <2>1, <2>2, <2>6, WriteKeeps
  <2> QED BY <1>k, <2>1, <2>3, <2>5, <2>7, <2>8
<1>4. CASE LoadGdt
  <2>1. UNCHANGED <<job, mem, r9>> /\ pc = "lgdt" /\ pc' = "cs" /\ rax' = Uart(Byte(cs), 99)
    BY <1>4 DEF LoadGdt
  <2>2. rax'[0] = <<99, 0>>
    BY <2>1 DEF Uart, Byte, Narrow, Index
  <2> QED BY <1>k, <2>1, <2>2
<1>5. CASE ReloadCs
  <2>1. rax # Byte(GcodeSel)
    <3>1. Byte(GcodeSel)[0] = <<32, 0>>
      BY DEF Byte, Narrow, Word, Index, GcodeSel
    <3>2. rax[0] = <<99, 0>>
      BY <1>5 DEF ReloadCs
    <3> QED BY ONLY <3>1, <3>2
  <2>2. /\ mem' = Push(Push(mem, ReloadStack, Byte(GcodeSel)), ReloadStack - 8, Word(ReloadLabel))
        /\ pc = "cs" /\ pc' = "lretq" /\ UNCHANGED <<job, r9>>
    BY <1>5, <2>1, Zenon DEF ReloadCs
  <2> DEFINE m == Written(mem, 106, Byte(GcodeSel), 8)
  <2>3. mem' = Written(m, 98, Word(ReloadLabel), 8)
    <3>1. ReloadStack - 8 = 106 /\ (ReloadStack - 8) - 8 = 98
      BY DEF ReloadStack, Scratch
    <3> QED BY <2>2, <3>1, Zenon DEF Push
  <2>4. DOMAIN m = Lowest .. DataEnd
    BY <1>d DEF Written
  <2>5. ASSUME NEW a \in {EntryAt, KernendAt, Slot}, NEW n \in 1 .. 8, NEW w,
               a + n - 1 <= DataEnd, a + n <= 98 \/ 114 <= a, Held(mem, a, w, n)
        PROVE  Held(mem', a, w, n)
    <3>1. a \in Lowest .. DataEnd
      BY <1>p
    <3>2. Held(m, a, w, n)
      <4>1. 106 \in Int /\ 8 \in Nat /\ (106 + 8 <= a \/ a + n <= 106)
        BY <2>5, <3>1
      <4> QED BY <1>d, <2>5, <3>1, <4>1, WriteKeeps
    <3>3. 98 \in Int /\ 8 \in Nat /\ (98 + 8 <= a \/ a + n <= 98)
      BY <2>5, <3>1
    <3> HIDE DEF m
    <3> QED BY <2>3, <2>4, <2>5, <3>1, <3>2, <3>3, WriteKeeps
  <2>6. EntryAt + 8 <= 98 /\ KernendAt + 4 <= 98 /\ 114 <= Slot
    BY DEF EntryAt, KernendAt, Slot
  <2>7. Held(mem', EntryAt, Word(Entry), 8)
    BY <1>p, <2>2, <2>5, <2>6
  <2>8. Held(mem', KernendAt, Word(KernendOff), 4)
    BY <1>p, <2>2, <2>5, <2>6
  <2>9. Held(mem', Slot, Word(Pt4), 8)
    BY <1>p, <2>2, <2>5, <2>6
  <2> QED BY <1>k, <2>2, <2>7, <2>8, <2>9
<1>6. CASE FarReturn
  <2>1. UNCHANGED <<job, mem, r9, gdtr>> /\ pc = "lretq" /\ pc' \in {"debug", "fault"}
    BY <1>6 DEF FarReturn
  <2>2. pc' = "debug" => cs' = GcodeSel /\ gdtr = <<Narrow(GdtLimit, 2), Word(GdtBase)>>
    BY <1>6, Zenon DEF FarReturn
  <2> QED BY <1>k, <2>1, <2>2
<1>7. CASE NoDebug
  BY <1>7 DEF NoDebug, cpu
<1>8. CASE EnterStub
  <2>1. pc = "debug" /\ pc' = "stub" /\ UNCHANGED <<job, r9, cs, gdtr>>
    BY <1>8 DEF EnterStub
  <2>2. rsp = EntryAt
    BY <2>1 DEF Stack
  <2>3. ASSUME NEW x \in DOMAIN mem, x >= EntryAt PROVE mem'[x] = mem[x]
    BY <1>8, <2>2, <2>3 DEF EnterStub, EntryAt, Lowest, DataEnd
  <2>4. Held(mem', EntryAt, Word(Entry), 8)
    <3>1. \A i \in 0 .. 7 : EntryAt + i \in DOMAIN mem /\ EntryAt + i >= EntryAt
      BY <1>d DEF EntryAt, Lowest, DataEnd
    <3> QED BY <2>1, <2>3, <3>1 DEF Held
  <2>5. Held(mem', KernendAt, Word(KernendOff), 4)
    <3>1. \A i \in 0 .. 3 : KernendAt + i \in DOMAIN mem /\ KernendAt + i >= EntryAt
      BY <1>d DEF EntryAt, KernendAt, Lowest, DataEnd
    <3> QED BY <2>1, <2>3, <3>1 DEF Held
  <2>6. Held(mem', Slot, Word(Pt4), 8)
    <3>1. \A i \in 0 .. 7 : Slot + i \in DOMAIN mem /\ Slot + i >= EntryAt
      BY <1>d DEF EntryAt, Slot, Lowest, DataEnd
    <3> QED BY <2>1, <2>3, <3>1 DEF Held
  <2> QED BY <1>k, <2>1, <2>4, <2>5, <2>6
<1>9. CASE PrintState \/ LeaveStub \/ BuildFrame \/ PrintFrame \/ Jump
  <2>1. /\ UNCHANGED <<r9, cs, gdtr>> /\ pc \in {"stub", "return", "frame", "frameprint", "jump"}
        /\ pc' \in {"return", "frame", "frameprint", "jump", "kernel", "fault"}
    BY <1>9 DEF PrintState, LeaveStub, BuildFrame, PrintFrame, Jump, cpu
  <2> QED BY <2>1
<1>10. CASE Transmitted
  BY <1>10, <1>k DEF Transmitted, cpu
<1>11. CASE UNCHANGED vars
  BY <1>11, <1>k DEF vars, cpu
<1> HIDE DEF Switched
<1> QED BY <1>1, <1>2, <1>3, <1>4, <1>5, <1>6, <1>7, <1>8, <1>9, <1>10, <1>11 DEF Next, Cpu
---------------------------------------------------------------------------
(* The frame, over the parameters it was made from.                        *)
FrameAt(m) ==
  /\ Held(m, EntryAt, Word(0), 4) /\ Held(m, EntryAt + 4, Word(ModulepOff), 4)
  /\ Held(m, EntryAt + 8, Word(KernendOff), 4) /\ Held(m, EntryAt + 12, Word(0), 4)

Framed == pc \in {"frameprint", "jump", "kernel"} => FrameAt(mem) /\ rax = Word(Entry)

LEMMA FrameHeld ==
  ASSUME NEW m, DOMAIN m = Lowest .. DataEnd, r11 = EntryAt
  PROVE  FrameAt(Frame(m)) /\ DOMAIN Frame(m) = Lowest .. DataEnd
<1> DEFINE F1 == Written(m, EntryAt, Word(0), 4)
           F2 == Written(F1, EntryAt + 4, Long(ModulepOff), 4)
           F3 == Written(F2, EntryAt + 8, Long(KernendOff), 4)
           F4 == Written(F3, EntryAt + 12, Word(0), 4)
           Inside(a) == a \in Lowest .. DataEnd /\ a + 4 - 1 <= DataEnd /\ 4 \in 1 .. 8 /\ 4 \in Nat
<1>1. Frame(m) = F4
  BY r11 = EntryAt, Zenon DEF Frame
<1>2. Inside(EntryAt) /\ Inside(EntryAt + 4) /\ Inside(EntryAt + 8) /\ Inside(EntryAt + 12)
  BY DEF EntryAt, Lowest, DataEnd
<1>3. /\ EntryAt \in Int /\ EntryAt + 4 \in Int /\ EntryAt + 8 \in Int /\ EntryAt + 12 \in Int
      /\ EntryAt + 4 <= EntryAt + 8 /\ EntryAt + 4 <= EntryAt + 12
      /\ (EntryAt + 4) + 4 <= EntryAt + 8 /\ (EntryAt + 4) + 4 <= EntryAt + 12
      /\ (EntryAt + 8) + 4 <= EntryAt + 12
  BY DEF EntryAt
<1>4. \A x, a, w, n : DOMAIN Written(x, a, w, n) = DOMAIN x
  BY DEF Written
<1>5. Held(F1, EntryAt, Word(0), 4) /\ DOMAIN F1 = Lowest .. DataEnd
  BY <1>2, <1>4, WriteHeld
<1> HIDE DEF F1
<1>6. /\ Held(F2, EntryAt, Word(0), 4) /\ Held(F2, EntryAt + 4, Long(ModulepOff), 4)
      /\ DOMAIN F2 = Lowest .. DataEnd
  <2>1. Held(F2, EntryAt, Word(0), 4)
    BY <1>2, <1>3, <1>5, WriteKeeps
  <2>2. Held(F2, EntryAt + 4, Long(ModulepOff), 4)
    BY <1>2, <1>5, WriteHeld
  <2> QED BY <1>4, <1>5, <2>1, <2>2
<1> HIDE DEF F2
<1>7. /\ Held(F3, EntryAt, Word(0), 4) /\ Held(F3, EntryAt + 4, Long(ModulepOff), 4)
      /\ Held(F3, EntryAt + 8, Long(KernendOff), 4) /\ DOMAIN F3 = Lowest .. DataEnd
  <2>1. Held(F3, EntryAt, Word(0), 4)
    BY <1>2, <1>3, <1>6, WriteKeeps
  <2>2. Held(F3, EntryAt + 4, Long(ModulepOff), 4)
    BY <1>2, <1>3, <1>6, WriteKeeps
  <2>3. Held(F3, EntryAt + 8, Long(KernendOff), 4)
    BY <1>2, <1>6, WriteHeld
  <2> QED BY <1>4, <1>6, <2>1, <2>2, <2>3
<1> HIDE DEF F3
<1>8. Held(F4, EntryAt, Word(0), 4)
  BY <1>2, <1>3, <1>7, WriteKeeps
<1>9. Held(F4, EntryAt + 4, Long(ModulepOff), 4)
  BY <1>2, <1>3, <1>7, WriteKeeps
<1>10. Held(F4, EntryAt + 8, Long(KernendOff), 4)
  BY <1>2, <1>3, <1>7, WriteKeeps
<1>11. Held(F4, EntryAt + 12, Word(0), 4)
  BY <1>2, <1>7, WriteHeld
<1>12. \A v : \A i \in 0 .. 4 - 1 : Long(v)[i] = Word(v)[i]
  BY DEF Long, Narrow, Index
<1>13. DOMAIN F4 = Lowest .. DataEnd
  BY <1>4, <1>7
<1> HIDE DEF F4
<1>14. Held(F4, EntryAt + 4, Word(ModulepOff), 4)
  BY <1>9, <1>12 DEF Held
<1>15. Held(F4, EntryAt + 8, Word(KernendOff), 4)
  BY <1>10, <1>12 DEF Held
<1> QED BY <1>1, <1>8, <1>11, <1>13, <1>14, <1>15 DEF FrameAt

\* What is pushed onto the frame goes below it.
LEMMA FramePushed ==
  ASSUME NEW m, DOMAIN m = Lowest .. DataEnd, FrameAt(m), NEW w
  PROVE  FrameAt(Push(m, EntryAt, w))
<1>1. Push(m, EntryAt, w) = Written(m, EntryAt - 8, w, 8)
  BY DEF Push
<1>2. /\ EntryAt - 8 \in Int /\ (EntryAt - 8) + 8 <= EntryAt /\ 8 \in Nat /\ 4 \in 1 .. 8
      /\ (EntryAt - 8) + 8 <= EntryAt + 4 /\ (EntryAt - 8) + 8 <= EntryAt + 8
      /\ (EntryAt - 8) + 8 <= EntryAt + 12
  BY DEF EntryAt
<1>3. \A a \in {EntryAt, EntryAt + 4, EntryAt + 8, EntryAt + 12} :
        a \in Lowest .. DataEnd /\ a + 4 - 1 <= DataEnd
  BY DEF EntryAt, Lowest, DataEnd
<1> DEFINE P == Written(m, EntryAt - 8, w, 8)
<1>4. Held(P, EntryAt, Word(0), 4)
  BY <1>2, <1>3, WriteKeeps DEF FrameAt
<1>5. Held(P, EntryAt + 4, Word(ModulepOff), 4)
  BY <1>2, <1>3, WriteKeeps DEF FrameAt
<1>6. Held(P, EntryAt + 8, Word(KernendOff), 4)
  BY <1>2, <1>3, WriteKeeps DEF FrameAt
<1>7. Held(P, EntryAt + 12, Word(0), 4)
  BY <1>2, <1>3, WriteKeeps DEF FrameAt
<1> QED BY <1>1, <1>4, <1>5, <1>6, <1>7 DEF FrameAt

LEMMA FramedStep ==
  ASSUME TypeOK, Stack, Switched, Framed, [Next]_vars
  PROVE  Framed'
<1>d. DOMAIN mem = Lowest .. DataEnd
  BY DEF TypeOK
<1>k. ASSUME UNCHANGED job, NEW m, mem' = m PROVE FrameAt(mem)' <=> FrameAt(m)
  BY <1>k DEF FrameAt, ModulepOff, KernendOff, OffsetOf
<1>1. CASE BuildFrame
  <2>1. mem' = Frame(mem) /\ rax' = r9 /\ UNCHANGED job /\ r11 = EntryAt /\ r9 = Word(Entry)
    BY <1>1 DEF BuildFrame, Stack, Switched
  <2> QED BY <1>d, <1>k, <2>1, FrameHeld DEF Framed
<1>2. CASE PrintFrame
  <2>1. /\ mem' = Push(mem, rsp, Word(Junk)) /\ rax' = r9 /\ UNCHANGED job
        /\ pc = "frameprint"
    BY <1>2, Zenon DEF PrintFrame
  <2>2. rsp = EntryAt /\ r9 = Word(Entry) /\ FrameAt(mem)
    BY <2>1 DEF Stack, Switched, Framed
  <2>3. FrameAt(Push(mem, EntryAt, Word(Junk)))
    BY <1>d, <2>2, FramePushed
  <2>4. FrameAt(mem)'
    BY <1>k, <2>1, <2>2, <2>3, Zenon
  <2> QED BY <2>1, <2>2, <2>4 DEF Framed
<1>3. CASE Jump
  <2>1. mem' = Push(Frame(mem), rsp, rax) /\ rax' = rax /\ UNCHANGED job /\ pc = "jump"
    BY <1>3, Zenon DEF Jump, JumpTarget
  <2>2. rsp = EntryAt /\ r11 = EntryAt /\ rax = Word(Entry)
    BY <2>1 DEF Stack, Framed
  <2>3. FrameAt(Frame(mem)) /\ DOMAIN Frame(mem) = Lowest .. DataEnd
    BY <1>d, <2>2, FrameHeld
  <2>4. FrameAt(Push(Frame(mem), EntryAt, rax))
    BY <2>3, FramePushed
  <2>5. FrameAt(mem)'
    BY <1>k, <2>1, <2>2, <2>4, Zenon
  <2> QED BY <2>1, <2>2, <2>5 DEF Framed
<1>4. CASE UNCHANGED <<pc, job, mem, rax>>
  BY <1>k, <1>4 DEF Framed
<1>5. ASSUME pc' \notin {"frameprint", "jump", "kernel"} PROVE Framed'
  BY <1>5 DEF Framed
<1>6. CASE Assemble \/ WaitUart \/ PopParams \/ CopyMap \/ SkipCopy \/ LoadTables
  BY <1>5, <1>6 DEF Assemble, WaitUart, PopParams, CopyMap, SkipCopy, LoadTables, RunsOn
<1>7. CASE LoadGdt \/ ReloadCs \/ FarReturn
  BY <1>5, <1>7 DEF LoadGdt, ReloadCs, FarReturn
<1>8. CASE NoDebug \/ EnterStub \/ PrintState \/ LeaveStub
  BY <1>5, <1>8 DEF NoDebug, EnterStub, PrintState, LeaveStub
<1> QED
  BY <1>1, <1>2, <1>3, <1>4, <1>6, <1>7, <1>8 DEF Next, Cpu, Transmitted, vars, cpu

\* Everything the block rests on.
BlockInv == TypeOK /\ Stack /\ Loaded /\ Parameters /\ Switched /\ Framed

LEMMA BlockAlways == Spec => []BlockInv
<1>1. Init => BlockInv
  <2> SUFFICES ASSUME Init PROVE BlockInv
    OBVIOUS
  <2>1. pc = "assemble" /\ copied = <<>>
    BY DEF Init
  <2>2. {job.src, job.len, job.staging, job.kernel, job.modulep, job.kernend} \subseteq Nat
    <3>1. /\ job.src \in Sources /\ job.len \in Lengths /\ {job.staging, job.kernel} \subseteq Bases
          /\ {job.modulep, job.kernend} \subseteq Tops
      BY DEF Init
    <3> QED BY ONLY <3>1, TrampolineAssumption
  <2>3. Parameters
    BY ONLY <2>1, <2>2 DEF Parameters
  <2>4. Switched /\ Framed
    BY ONLY <2>1 DEF Switched, Framed
  <2> QED BY BlockInit, <2>3, <2>4 DEF BlockInv
<1>2. BlockInv /\ [Next]_vars => BlockInv'
  BY BlockStep, ParametersStep, SwitchedStep, FramedStep DEF BlockInv
<1> QED BY <1>1, <1>2, PTL DEF Spec

\* For any addresses, sizes and limits, the kernel starts with its entry, its
\* page tables, its code segment and its frame, and the map was copied exactly
\* if there is one that is not too long, however the block wrote over itself.
THEOREM KernelIsHandedOver == Spec => []HandsOver
<1>1. BlockInv => HandsOver
  <2> SUFFICES ASSUME BlockInv, pc = "kernel"
               PROVE  /\ rax = Word(Entry) /\ cr3 = Word(Pt4) /\ cs = GcodeSel /\ rsp = EntryAt
                      /\ ReadLong(rsp) = Word(0) /\ ReadLong(rsp + 12) = Word(0)
                      /\ ReadLong(rsp + 4) = Long(ModulepOff) /\ ModulepOff \in 0 .. Max32
                      /\ ReadLong(rsp + 8) = Long(KernendOff) /\ KernendOff \in 0 .. Max32
                      /\ copied = MapCopy
    BY DEF HandsOver, MapCopy
  <2>1. rax = Word(Entry) /\ FrameAt(mem)
    BY DEF BlockInv, Framed
  <2>2. cr3 = Word(Pt4) /\ rsp = EntryAt
    BY DEF BlockInv, Loaded, Stack
  <2>3. cs = GcodeSel /\ copied = MapCopy /\ CanAssemble
    BY DEF BlockInv, Switched, Parameters
  <2>4. Long(0) = Word(0)
    BY DEF Long, Narrow, Word, Index
  <2>5. /\ ReadLong(rsp) = Word(0) /\ ReadLong(rsp + 12) = Word(0)
        /\ ReadLong(rsp + 4) = Long(ModulepOff) /\ ReadLong(rsp + 8) = Long(KernendOff)
    BY <2>1, <2>2, <2>4, ReadHeld DEF FrameAt
  <2>6. ModulepOff \in 0 .. Max32 /\ KernendOff \in 0 .. Max32
    BY <2>3, TrampolineAssumption DEF CanAssemble, ModulepOff, KernendOff, OffsetOf, BlockInv, Parameters
  <2> QED BY <2>1, <2>2, <2>3, <2>5, <2>6
<1> QED BY <1>1, BlockAlways, PTL
---------------------------------------------------------------------------
(* What the debug output has said by now, of what is still to come.        *)
Told ==
  job.debug =>
    /\ pc \in {"return", "frame", "frameprint", "jump", "kernel"} =>
         /\ {"SE", "K", "Q", "c", "b"} \subseteq DOMAIN printed
         /\ printed["SE"] = Word(Entry) /\ printed["K"] = Long(KernendOff)
         /\ printed["Q"] = Word(Pt4) /\ printed["c"] = Byte(GcodeSel) /\ printed["b"] = Word(GdtBase)
    /\ pc \in {"jump", "kernel"} =>
         /\ {"BT0", "BT1", "BT2"} \subseteq DOMAIN printed
         /\ printed["BT0"] = Long(0) /\ printed["BT1"] = Long(ModulepOff)
         /\ printed["BT2"] = Long(KernendOff)
    /\ pc = "kernel" => printed["CJ"] = Word(Entry)

\* What is said is known from then on, and so is what was said before.
LEMMA Saying ==
  ASSUME NEW m, NEW x
  PROVE  /\ x \in DOMAIN m => x \in DOMAIN Say(m) /\ Say(m)[x] = m[x]
         /\ x \in DOMAIN printed /\ x \notin DOMAIN m => x \in DOMAIN Say(m) /\ Say(m)[x] = printed[x]
BY DEF Say

LEMMA ToldStep ==
  ASSUME BlockInv, Told, [Next]_vars
  PROVE  Told'
<1>k. UNCHANGED job => UNCHANGED <<ModulepOff, KernendOff>>
  BY DEF ModulepOff, KernendOff, OffsetOf
<1>1. CASE PrintState
  <2> DEFINE m == [SE |-> Read(R12 + 8), M |-> ReadLong(R12 + 20), K |-> ReadLong(R12 + 24),
                   Q |-> Read(Slot), c |-> Byte(cs), b |-> gdtr[2]]
  <2>1. pc = "stub" /\ pc' = "return" /\ UNCHANGED job /\ printed' = Say(m)
    BY <1>1 DEF PrintState
  <2>2. cs = GcodeSel /\ gdtr[2] = Word(GdtBase) /\ rsp = EntryAt - 80
    BY <2>1 DEF BlockInv, Switched, Stack
  <2>3. R12 + 8 = EntryAt /\ R12 + 24 = KernendAt
    BY <2>2 DEF R12, EntryAt, KernendAt
  <2>4. /\ Read(R12 + 8) = Word(Entry) /\ ReadLong(R12 + 24) = Long(KernendOff)
        /\ Read(Slot) = Word(Pt4)
    BY <2>1, <2>3, ReadHeld DEF BlockInv, Switched
  <2>5. /\ DOMAIN m = {"SE", "M", "K", "Q", "c", "b"}
        /\ m["SE"] = Word(Entry) /\ m["K"] = Long(KernendOff) /\ m["Q"] = Word(Pt4)
        /\ m["c"] = Byte(GcodeSel) /\ m["b"] = Word(GdtBase)
    BY <2>2, <2>4
  <2> HIDE DEF m
  <2>6. \A x \in {"SE", "K", "Q", "c", "b"} : x \in DOMAIN printed' /\ printed'[x] = m[x]
    BY <2>1, <2>5, Saying
  <2> QED BY <1>k, <2>1, <2>5, <2>6 DEF Told
<1>2. CASE LeaveStub
  <2>1. pc = "return" /\ pc' \in {"frame", "fault"} /\ UNCHANGED <<job, printed>>
    BY <1>2 DEF LeaveStub
  <2> QED BY <1>k, <2>1 DEF Told
<1>3. CASE BuildFrame
  <2>1. pc = "frame" /\ UNCHANGED <<job, printed>> /\ pc' = IF job.debug THEN "frameprint" ELSE "jump"
    BY <1>3 DEF BuildFrame
  <2> QED BY <1>k, <2>1 DEF Told
<1>4. CASE PrintFrame
  <2> DEFINE m == [BT0 |-> ReadLong(rsp), BT1 |-> ReadLong(rsp + 4), BT2 |-> ReadLong(rsp + 8)]
  <2>1. pc = "frameprint" /\ pc' = "jump" /\ UNCHANGED job /\ printed' = Say(m)
    BY <1>4 DEF PrintFrame
  <2>2. rsp = EntryAt /\ FrameAt(mem)
    BY <2>1 DEF BlockInv, Stack, Framed
  <2>3. /\ ReadLong(rsp) = Long(0) /\ ReadLong(rsp + 4) = Long(ModulepOff)
        /\ ReadLong(rsp + 8) = Long(KernendOff)
    BY <2>2, ReadHeld DEF FrameAt
  <2>4. /\ DOMAIN m = {"BT0", "BT1", "BT2"}
        /\ m["BT0"] = Long(0) /\ m["BT1"] = Long(ModulepOff) /\ m["BT2"] = Long(KernendOff)
    BY <2>3
  <2> HIDE DEF m
  <2>5. \A x \in {"BT0", "BT1", "BT2"} : x \in DOMAIN printed' /\ printed'[x] = m[x]
    BY <2>1, <2>4, Saying
  <2>6. job.debug => \A x \in {"SE", "K", "Q", "c", "b"} : x \in DOMAIN printed' /\ printed'[x] = printed[x]
    BY <2>1, <2>4, Saying DEF Told
  <2> QED BY <1>k, <2>1, <2>4, <2>5, <2>6 DEF Told
<1>5. CASE Jump
  <2> DEFINE m == [CJ |-> rax]
  <2>1. pc = "jump" /\ pc' = "kernel" /\ UNCHANGED job /\ (job.debug => printed' = Say(m))
    BY <1>5 DEF Jump
  <2>2. rax = Word(Entry)
    BY <2>1 DEF BlockInv, Framed
  <2>3. DOMAIN m = {"CJ"} /\ m["CJ"] = Word(Entry)
    BY <2>2
  <2> HIDE DEF m
  <2>4. job.debug => printed'["CJ"] = Word(Entry)
    BY <2>1, <2>3, Saying
  <2>5. job.debug => \A x \in {"SE", "K", "Q", "c", "b", "BT0", "BT1", "BT2"} :
          x \in DOMAIN printed' /\ printed'[x] = printed[x]
    BY <2>1, <2>3, Saying DEF Told
  <2> QED BY <1>k, <2>1, <2>4, <2>5 DEF Told
<1>6. CASE UNCHANGED <<pc, job, printed>>
  BY <1>k, <1>6 DEF Told
<1>7. ASSUME \/ pc' \notin {"return", "frame", "frameprint", "jump", "kernel"}
             \/ ~job'.debug
      PROVE  Told'
  BY <1>7 DEF Told
<1>8. CASE Assemble \/ WaitUart \/ PopParams \/ CopyMap \/ SkipCopy \/ LoadTables
  BY <1>7, <1>8 DEF Assemble, WaitUart, PopParams, CopyMap, SkipCopy, LoadTables, RunsOn
<1>9. CASE LoadGdt \/ ReloadCs \/ FarReturn \/ NoDebug \/ EnterStub
  BY <1>7, <1>9 DEF LoadGdt, ReloadCs, FarReturn, NoDebug, EnterStub
<1> QED
  BY <1>1, <1>2, <1>3, <1>4, <1>5, <1>6, <1>8, <1>9 DEF Next, Cpu, Transmitted, vars

\* What was printed is what the kernel gets, although the printing used the
\* kernel's stack and registers.
THEOREM DebugIsTrue == Spec => []DebugTells
<1>1. Init => Told
  BY DEF Init, Told
<1>2. BlockInv /\ Told => DebugTells
  <2> SUFFICES ASSUME BlockInv, Told, pc = "kernel", job.debug
               PROVE  /\ printed["SE"] = rax /\ printed["CJ"] = rax
                      /\ printed["K"] = Long(KernendOff) /\ printed["Q"] = cr3
                      /\ printed["c"] = Byte(cs) /\ printed["b"] = Word(GdtBase)
                      /\ printed["BT0"] = ReadLong(rsp) /\ printed["BT1"] = ReadLong(rsp + 4)
                      /\ printed["BT2"] = ReadLong(rsp + 8)
    BY DEF DebugTells
  <2>1. rax = Word(Entry) /\ FrameAt(mem)
    BY DEF BlockInv, Framed
  <2>2. cr3 = Word(Pt4) /\ rsp = EntryAt /\ cs = GcodeSel
    BY DEF BlockInv, Loaded, Stack, Switched
  <2>3. /\ ReadLong(rsp) = Long(0) /\ ReadLong(rsp + 4) = Long(ModulepOff)
        /\ ReadLong(rsp + 8) = Long(KernendOff)
    BY <2>1, <2>2, ReadHeld DEF FrameAt
  <2> QED BY <2>1, <2>2, <2>3 DEF Told
<1> QED BY <1>1, <1>2, ToldStep, BlockAlways, PTL DEF Spec
---------------------------------------------------------------------------
(* Faults.                                                                 *)

\* Below four gigabytes the block's own address leads to the block.
LEMMA RunsOnLow ==
  ASSUME NEW s \in Nat, s < 4 * N
  PROVE  Walk(Pages(s), Same(s)) = s
<1> DEFINE q == s \div N
           r == s % N
<1>1. q \in Nat /\ r \in 0 .. N - 1 /\ s = q * N + r
  OBVIOUS
<1>2. q <= 3
  <2> HIDE DEF q, r
  <2>1. q >= 4 => q * N >= 4 * N
    BY <1>1
  <2> QED BY <1>1, <2>1
<1>3. s \div (N * N) = 0
  <2>1. N * N \in Nat /\ N * N >= 4 * N /\ N * N > s
    OBVIOUS
  <2>2. \A a, b \in Nat : b > a => a \div b = 0
    OBVIOUS
  <2> QED BY <2>1, <2>2
<1>4. q % N = q
  <2> HIDE DEF q
  <2>1. q \in Nat /\ q < N
    BY <1>1, <1>2
  <2> QED BY <2>1
<1>5. Same(s) = <<0, q, r>>
  BY <1>3, <1>4, Zenon DEF Same
<1> HIDE DEF q, r
<1>6. <<0, q, r>> \in Virtual
  BY <1>1, <1>2 DEF Virtual
<1>7. Walk(Pages(s), Same(s)) = Meant(<<0, q, r>>, s)
  BY <1>5, <1>6, WalkIsMeant
<1>8. Meant(<<0, q, r>>, s) = s
  BY <1>1 DEF Meant
<1> QED BY <1>7, <1>8

\* What is written elsewhere leaves the segment table, lgdt's operand and the
\* far return's words as they are.
LEMMA TableKept ==
  ASSUME NEW m, DOMAIN m = Lowest .. DataEnd, NEW w, NEW u
  PROVE  /\ Held(m, 88, w, 8) =>
              /\ Held(Written(m, 96, u, 8), 88, w, 8) /\ Held(Written(m, 104, u, 2), 88, w, 8)
              /\ Held(Written(m, 106, u, 8), 88, w, 8) /\ Held(Written(m, 130, u, 8), 88, w, 8)
              /\ Held(Written(m, 98, u, 8), 88, w, 8)
         /\ Held(m, 104, w, 2) =>
              /\ Held(Written(m, 106, u, 8), 104, w, 2) /\ Held(Written(m, 130, u, 8), 104, w, 2)
         /\ Held(m, 106, w, 8) =>
              /\ Held(Written(m, 98, u, 8), 106, w, 8) /\ Held(Written(m, 130, u, 8), 106, w, 8)
<1>1. {88, 104, 106} \subseteq Lowest .. DataEnd /\ {2, 8} \subseteq 1 .. 8 \cap Nat
  BY DEF Lowest, DataEnd
<1>2. 88 + 8 - 1 <= DataEnd /\ 104 + 2 - 1 <= DataEnd /\ 106 + 8 - 1 <= DataEnd
  BY DEF DataEnd
<1>3. ASSUME Held(m, 88, w, 8), NEW b \in Int, NEW k \in Nat, 88 + 8 <= b
      PROVE  Held(Written(m, b, u, k), 88, w, 8)
  BY ONLY <1>1, <1>2, <1>3, WriteKeeps, DOMAIN m = Lowest .. DataEnd
<1>4. ASSUME Held(m, 104, w, 2), NEW b \in Int, NEW k \in Nat, 104 + 2 <= b
      PROVE  Held(Written(m, b, u, k), 104, w, 2)
  BY ONLY <1>1, <1>2, <1>4, WriteKeeps, DOMAIN m = Lowest .. DataEnd
<1>5. ASSUME Held(m, 106, w, 8), NEW b \in Int, NEW k \in Nat, b + k <= 106 \/ 106 + 8 <= b
      PROVE  Held(Written(m, b, u, k), 106, w, 8)
  BY ONLY <1>1, <1>2, <1>5, WriteKeeps, DOMAIN m = Lowest .. DataEnd
<1> QED BY ONLY <1>3, <1>4, <1>5

\* The data holds the segment table and the operand of lgdt.
LEMMA DataHoldsGdt ==
  ASSUME NEW modulep, NEW kernend
  PROVE  /\ Held(Data(modulep, kernend), Gdt + GcodeSel, Word(GcodeDescriptor), 8)
         /\ Held(Data(modulep, kernend), Gdtr, Word(GdtLimit), 2)
         /\ Held(Data(modulep, kernend), Gdtr + 2, Word(GdtBase), 8)
<1>1. PICK m : /\ DOMAIN m = Lowest .. DataEnd
               /\ Data(modulep, kernend) =
                    Written(Written(Written(Written(m, Gdt + GcodeSel, Word(GcodeDescriptor), 8),
                      Gdt + GdataSel, Word(GdataDescriptor), 8), Gdtr, Word(GdtLimit), 2),
                      Gdtr + 2, Word(GdtBase), 8)
  <2> DEFINE Blank == [x \in Lowest .. DataEnd |-> <<0, 0>>]
             P == Written(Written(Written(Written(Written(Written(Written(Blank,
                    Src, Word(job.src), 8), Dst, Word(job.dst), 8), Length, Word(job.len), 8),
                    TableAt, Word(Pt4), 8), EntryAt, Word(Entry), 8),
                    ModulepAt, Long(modulep), 8), KernendAt, Long(kernend), 8)
  <2>1. \A m, a, w, n : DOMAIN Written(m, a, w, n) = DOMAIN m
    BY DEF Written
  <2>2. DOMAIN Blank = Lowest .. DataEnd
    OBVIOUS
  <2>3. DOMAIN P = DOMAIN Blank
    BY ONLY <2>1
  <2>4. Data(modulep, kernend) =
          Written(Written(Written(Written(P, Gdt + GcodeSel, Word(GcodeDescriptor), 8),
            Gdt + GdataSel, Word(GdataDescriptor), 8), Gdtr, Word(GdtLimit), 2),
            Gdtr + 2, Word(GdtBase), 8)
    BY Zenon DEF Data
  <2> HIDE DEF P
  <2> QED BY <2>2, <2>3, <2>4
<1> DEFINE D1 == Written(m, Gdt + GcodeSel, Word(GcodeDescriptor), 8)
           D2 == Written(D1, Gdt + GdataSel, Word(GdataDescriptor), 8)
           D3 == Written(D2, Gdtr, Word(GdtLimit), 2)
           D4 == Written(D3, Gdtr + 2, Word(GdtBase), 8)
<1>2. Data(modulep, kernend) = D4
  BY <1>1
<1>3. \A x, a, w, n : DOMAIN Written(x, a, w, n) = DOMAIN x
  BY DEF Written
<1>4. /\ DOMAIN m = Lowest .. DataEnd /\ DOMAIN D1 = DOMAIN m /\ DOMAIN D2 = DOMAIN D1
      /\ DOMAIN D3 = DOMAIN D2
  BY ONLY <1>1, <1>3
<1> HIDE DEF D1, D2, D3, D4
<1>5. /\ Gdt + GcodeSel = 88 /\ Gdt + GdataSel = 96 /\ Gdtr = 104 /\ Gdtr + 2 = 106
      /\ Lowest = -88 /\ DataEnd = 137
  BY DEF Gdt, GcodeSel, GdataSel, Gdtr, Lowest, DataEnd
<1>6. /\ D1 = Written(m, 88, Word(GcodeDescriptor), 8)
      /\ D2 = Written(D1, 96, Word(GdataDescriptor), 8)
      /\ D3 = Written(D2, 104, Word(GdtLimit), 2)
      /\ D4 = Written(D3, 106, Word(GdtBase), 8)
  BY ONLY <1>5 DEF D1, D2, D3, D4
<1>7. DOMAIN D1 = Lowest .. DataEnd /\ DOMAIN D2 = Lowest .. DataEnd /\ DOMAIN D3 = Lowest .. DataEnd
  BY ONLY <1>4
<1>8. Held(D1, 88, Word(GcodeDescriptor), 8)
  BY ONLY <1>4, <1>5, <1>6, WriteHeld
<1>9. Held(D4, 88, Word(GcodeDescriptor), 8)
  <2>1. Held(D2, 88, Word(GcodeDescriptor), 8)
    BY ONLY <1>6, <1>7, <1>8, TableKept
  <2>2. Held(D3, 88, Word(GcodeDescriptor), 8)
    BY ONLY <1>6, <1>7, <2>1, TableKept
  <2> QED BY ONLY <1>6, <1>7, <2>2, TableKept
<1>10. Held(D3, 104, Word(GdtLimit), 2)
  BY ONLY <1>5, <1>6, <1>7, WriteHeld
<1>11. Held(D4, 104, Word(GdtLimit), 2)
  BY ONLY <1>6, <1>7, <1>10, TableKept
<1>12. Held(D4, 106, Word(GdtBase), 8)
  BY ONLY <1>5, <1>6, <1>7, WriteHeld
<1> QED BY <1>2, <1>5, <1>9, <1>11, <1>12

\* What the returns of the block take, from where it is written on.
Returns ==
  /\ pc \in {"wait", "params", "copy", "tables", "lgdt", "cs", "lretq"} =>
       Held(mem, Gdt + GcodeSel, Word(GcodeDescriptor), 8)
  /\ pc \in {"wait", "params", "copy", "tables", "lgdt"} =>
       Held(mem, Gdtr, Word(GdtLimit), 2) /\ Held(mem, Gdtr + 2, Word(GdtBase), 8)
  /\ pc \in {"cs", "lretq"} => gdtr = <<Narrow(GdtLimit, 2), Word(GdtBase)>>
  /\ pc = "lretq" =>
       /\ rsp = Scratch - 16
       /\ Read(rsp) = Word(ReloadLabel) /\ Read(rsp + 8) = Byte(GcodeSel)
  /\ pc \in {"stub", "return"} => Held(mem, TableAt, Word(StubReturn), 8)
  /\ FaultsOnlyHigh

LEMMA ReturnsStep ==
  ASSUME BlockInv, Returns, [Next]_vars
  PROVE  Returns'
<1> USE DEF Returns
<1>d. DOMAIN mem = Lowest .. DataEnd
  BY DEF BlockInv, TypeOK
<1>p. /\ Gdt + GcodeSel = 88 /\ Gdtr = 104 /\ Gdtr + 2 = 106 /\ TableAt = 24 /\ EntryAt = 32
      /\ Scratch = 114 /\ Slot = 130 /\ Lowest = -88 /\ DataEnd = 137
  BY DEF Gdt, GcodeSel, Gdtr, TableAt, EntryAt, Scratch, Slot, Lowest, DataEnd
<1>f. ASSUME UNCHANGED job, pc' # "fault" PROVE FaultsOnlyHigh'
  BY <1>f DEF FaultsOnlyHigh
<1>1. CASE Assemble
  <2>1. pc' = "error" \/ (pc' = "wait" /\ mem' = Data(ModulepOff, KernendOff))
    BY <1>1 DEF Assemble
  <2>2. UNCHANGED job
    BY <1>1 DEF Assemble
  <2> QED BY <1>f, <2>1, <2>2, DataHoldsGdt
<1>2. CASE WaitUart \/ PopParams \/ CopyMap \/ SkipCopy
  <2>1. /\ UNCHANGED <<job, mem>> /\ pc \in {"wait", "params", "copy", "tables"}
        /\ pc' \in {"wait", "params", "copy", "tables"}
    BY <1>2 DEF WaitUart, PopParams, CopyMap, SkipCopy
  <2> QED BY <1>f, <2>1
<1>3. CASE LoadTables
  <2>1. UNCHANGED job /\ pc = "tables" /\ pc' = RunsOn /\ mem' = Written(mem, Slot, Read(rsp), 8)
    BY <1>3, Zenon DEF LoadTables
  <2>2. /\ Held(mem', 88, Word(GcodeDescriptor), 8) /\ Held(mem', 104, Word(GdtLimit), 2)
        /\ Held(mem', 106, Word(GdtBase), 8)
    <3>s. mem' = Written(mem, 130, Read(rsp), 8)
      BY ONLY <1>p, <2>1
    <3>h. /\ Held(mem, 88, Word(GcodeDescriptor), 8) /\ Held(mem, 104, Word(GdtLimit), 2)
          /\ Held(mem, 106, Word(GdtBase), 8)
      BY <1>p, <2>1
    <3>1. Held(mem', 88, Word(GcodeDescriptor), 8)
      BY ONLY <1>d, <3>s, <3>h, TableKept
    <3>2. Held(mem', 104, Word(GdtLimit), 2)
      BY ONLY <1>d, <3>s, <3>h, TableKept
    <3>3. Held(mem', 106, Word(GdtBase), 8)
      BY ONLY <1>d, <3>s, <3>h, TableKept
    <3> QED BY <3>1, <3>2, <3>3
  <2>3. FaultsOnlyHigh'
    <3>1. job.staging \in Nat
      BY DEF BlockInv, Loaded
    <3>2. job.staging < 4 * N => RunsOn = "lgdt"
      BY <3>1, RunsOnLow DEF RunsOn
    <3>3. 4 * N \in Nat
      OBVIOUS
    <3> QED BY <2>1, <3>1, <3>2, <3>3 DEF FaultsOnlyHigh
  <2>4. pc' \in {"lgdt", "fault"}
    BY <2>1 DEF RunsOn
  <2> QED BY <1>p, <2>2, <2>3, <2>4
<1>4. CASE LoadGdt
  <2>1. /\ UNCHANGED <<job, mem>> /\ pc = "lgdt" /\ pc' = "cs"
        /\ gdtr' = <<[i \in Index |-> IF i < 2 THEN mem[Gdtr + i] ELSE <<0, 0>>], Read(Gdtr + 2)>>
    BY <1>4 DEF LoadGdt
  <2>2. Read(Gdtr + 2) = Word(GdtBase)
    BY <2>1, ReadHeld
  <2>3. [i \in Index |-> IF i < 2 THEN mem[Gdtr + i] ELSE <<0, 0>>] = Narrow(GdtLimit, 2)
    <3>1. \A i \in Index : i < 2 => mem[Gdtr + i] = Word(GdtLimit)[i]
      BY <2>1 DEF Held, Index
    <3> QED BY <3>1 DEF Narrow
  <2> QED BY <1>f, <2>1, <2>2, <2>3
<1>5. CASE ReloadCs
  <2>1. \/ pc' = "debug"
        \/ /\ mem' = Push(Push(mem, ReloadStack, Byte(GcodeSel)), ReloadStack - 8, Word(ReloadLabel))
           /\ rsp' = ReloadStack - 16 /\ pc' = "lretq"
    BY <1>5, Zenon DEF ReloadCs
  <2>2. UNCHANGED <<job, gdtr>> /\ pc = "cs"
    BY <1>5 DEF ReloadCs
  <2>3. CASE pc' = "debug"
    BY <1>f, <2>2, <2>3
  <2>4. ASSUME mem' = Push(Push(mem, ReloadStack, Byte(GcodeSel)), ReloadStack - 8, Word(ReloadLabel)),
               rsp' = ReloadStack - 16, pc' = "lretq"
        PROVE  Returns'
    <3> DEFINE m == Written(mem, 106, Byte(GcodeSel), 8)
    <3>1. mem' = Written(m, 98, Word(ReloadLabel), 8)
      <4>1. ReloadStack - 8 = 106 /\ (ReloadStack - 8) - 8 = 98
        BY DEF ReloadStack, Scratch
      <4> QED BY <2>4, <4>1, Zenon DEF Push
    <3>2. DOMAIN m = Lowest .. DataEnd
      BY <1>d DEF Written
    <3>3. Held(m, 106, Byte(GcodeSel), 8)
      BY <1>d, <1>p, WriteHeld
    <3>4. Held(m, 88, Word(GcodeDescriptor), 8)
      <4>1. Held(mem, 88, Word(GcodeDescriptor), 8)
        BY <1>p, <2>2
      <4> QED BY ONLY <1>d, <4>1, TableKept
    <3> HIDE DEF m
    <3>5. Held(mem', 98, Word(ReloadLabel), 8)
      BY <1>p, <3>1, <3>2, WriteHeld
    <3>6. Held(mem', 106, Byte(GcodeSel), 8)
      BY ONLY <3>1, <3>2, <3>3, TableKept
    <3>7. Held(mem', 88, Word(GcodeDescriptor), 8)
      BY ONLY <3>1, <3>2, <3>4, TableKept
    <3>8. rsp' = 98 /\ rsp' = Scratch' - 16
      BY <1>p, <2>4 DEF ReloadStack
    <3>9. Read(rsp)' = Word(ReloadLabel)
      <4>1. Read(rsp)' = [i \in Index |-> mem'[98 + i]]
        BY <3>8 DEF Read
      <4> QED BY <3>5, <4>1 DEF Held, Word, Index
    <3>10. Read(rsp + 8)' = Byte(GcodeSel)
      <4>1. Read(rsp + 8)' = [i \in Index |-> mem'[106 + i]]
        BY <3>8 DEF Read
      <4> QED BY <3>6, <4>1 DEF Held, Byte, Narrow, Index
    <3> QED BY <1>f, <1>p, <2>2, <2>4, <3>7, <3>8, <3>9, <3>10
  <2> QED BY <2>1, <2>3, <2>4
<1>6. CASE FarReturn
  <2>1. pc = "lretq" /\ UNCHANGED job
    BY <1>6 DEF FarReturn
  <2>2. Read(Gdt + GcodeSel) = Word(GcodeDescriptor)
    BY <2>1, ReadHeld
  <2>3. pc' = "debug"
    BY <1>6, <2>1, <2>2 DEF FarReturn
  <2> QED BY <1>f, <2>1, <2>3
<1>7. CASE NoDebug
  BY <1>f, <1>7 DEF NoDebug
<1>8. CASE EnterStub
  <2>1. /\ pc = "debug" /\ pc' = "stub" /\ UNCHANGED job
        /\ mem' = [x \in DOMAIN mem |->
               IF x \in rsp - 8 .. rsp - 1 THEN Word(StubReturn)[x - (rsp - 8)]
               ELSE IF x \in rsp - 80 .. rsp - 9 THEN <<Junk, 0>> ELSE mem[x]]
    BY <1>8, Zenon DEF EnterStub
  <2>2. rsp = 32
    BY <1>p, <2>1 DEF BlockInv, Stack
  <2>3. ASSUME NEW i \in 0 .. 7 PROVE mem'[24 + i] = Word(StubReturn)[i]
    <3>1. 24 + i \in DOMAIN mem /\ 24 + i \in rsp - 8 .. rsp - 1 /\ (24 + i) - (rsp - 8) = i
      BY <1>d, <1>p, <2>2
    <3> QED BY ONLY <2>1, <3>1
  <2>4. Held(mem', 24, Word(StubReturn), 8)
    BY <2>3 DEF Held
  <2> QED BY <1>f, <1>p, <2>1, <2>4
<1>9. CASE PrintState
  <2>1. /\ pc = "stub" /\ pc' = "return" /\ UNCHANGED job
        /\ mem' = [x \in DOMAIN mem |-> IF x \in rsp - 40 .. rsp - 1 THEN <<Junk, 0>> ELSE mem[x]]
    BY <1>9 DEF PrintState
  <2>2. rsp = -48
    BY <1>p, <2>1 DEF BlockInv, Stack
  <2>3. ASSUME NEW i \in 0 .. 7 PROVE mem'[24 + i] = mem[24 + i]
    <3>1. 24 + i \in DOMAIN mem /\ 24 + i \notin rsp - 40 .. rsp - 1
      BY <1>d, <1>p, <2>2
    <3> QED BY ONLY <2>1, <3>1
  <2>4. Held(mem', 24, Word(StubReturn), 8)
    BY <1>p, <2>1, <2>3 DEF Held
  <2> QED BY <1>f, <1>p, <2>1, <2>4
<1>10. CASE LeaveStub
  <2>1. pc = "return" /\ UNCHANGED job /\ pc' = IF Read(R12) = Word(StubReturn) THEN "frame" ELSE "fault"
    BY <1>10 DEF LeaveStub
  <2>2. R12 = TableAt
    BY <1>p, <2>1 DEF BlockInv, Stack, R12
  <2>3. Read(R12) = Word(StubReturn)
    BY <2>1, <2>2, ReadHeld
  <2> QED BY <1>f, <2>1, <2>3
<1>11. CASE BuildFrame \/ PrintFrame \/ Jump
  <2>1. UNCHANGED job /\ pc' \in {"frameprint", "jump", "kernel"}
    BY <1>11 DEF BuildFrame, PrintFrame, Jump
  <2> QED BY <1>f, <2>1
<1>12. CASE UNCHANGED <<pc, job, mem, rsp, gdtr>>
  BY <1>12 DEF FaultsOnlyHigh, Read, Held
<1> HIDE DEF Returns
<1> QED
  BY <1>1, <1>2, <1>3, <1>4, <1>5, <1>6, <1>7, <1>8, <1>9, <1>10, <1>11, <1>12
     DEF Next, Cpu, Transmitted, vars, cpu

\* The block faults only where the new tables do not map it: neither its far
\* return nor the stub's meets a word the block has written over, for any
\* parameters, tables and addresses.
THEOREM NoFaultBelowFourGigabytes == Spec => []FaultsOnlyHigh
<1>1. Init => Returns
  BY DEF Init, Returns, FaultsOnlyHigh
<1>2. Returns => FaultsOnlyHigh
  BY DEF Returns
<1> QED BY <1>1, <1>2, BlockAlways, ReturnsStep, PTL DEF Spec
=============================================================================
