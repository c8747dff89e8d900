---------------------------- MODULE IomemRegions ----------------------------
(***************************************************************************)
(* How src/system/memory.rs turns /proc/iomem into the regions that the    *)
(* plan of BootLayout takes from: build_available_regions, line by line,   *)
(* with subtract_ranges, piece by piece, and, on the result, the search    *)
(* find_free_memory_regions. fetch_smap of src/system/sysinfo.rs makes the *)
(* table of memory for the FreeBSD kernel from the same file.              *)
(***************************************************************************)
EXTENDS PhysicalMemory, Sublists, Sequences, Functions

CONSTANTS
  Desc,        \* what a line describes: "ram" (System RAM), "reserved",
               \* "keeper" (Kernel code, data, bss) and anything else
  MaxAddr,     \* bound: highest address
  MaxLines,    \* bound: lines of /proc/iomem
  MaxIndent,   \* bound: depth of the resource tree
  Required,    \* required_size
  Alignment,   \* alignment
  AvoidLists,  \* arguments avoid_regions
  MaxRows,     \* length of e820_table
  FirmwareMap  \* the entries of /sys/firmware/memmap

Ranges == {r \in [start : 0 .. MaxAddr, end : 0 .. MaxAddr] : r.start <= r.end}

ASSUME IomemAssumption ==
  /\ {"ram", "reserved", "keeper"} \subseteq Desc
  /\ MaxAddr \in Nat /\ MaxLines \in Nat /\ MaxIndent \in Nat
  /\ Required \in Nat \ {0} /\ Alignment \in Nat \ {0}
  /\ AvoidLists \subseteq Seq(Ranges)
  /\ MaxRows \in Nat

Entry == [start : 0 .. MaxAddr, end : 0 .. MaxAddr, desc : Desc, indent : 0 .. MaxIndent]

VARIABLES
  pc,
  lines,       \* the lines read so far (history)
  top,         \* current_top: is it System RAM?
  available,   \* system_ram
  reserved,
  res,         \* index of the reserved range being subtracted
  next,        \* what is left of the regions drained so far
  avoid,       \* avoid_regions
  region,      \* index of the region being searched
  av,          \* index of the avoided range being compared
  free_start,
  free         \* free_regions

reading == <<lines, top, reserved>>
query == <<avoid, region, av, free_start, free>>
vars == <<pc, reading, available, res, next, query>>

Overlaps(a, b) == a.end >= b.start /\ b.end >= a.start
R(s, e) == [start |-> s, end |-> e]

Init ==
  /\ pc = "read"
  /\ lines = <<>> /\ top = FALSE /\ available = <<>> /\ reserved = <<>>
  /\ res = 1 /\ next = <<>>
  /\ avoid = <<>> /\ region = 1 /\ av = 1 /\ free_start = 0 /\ free = <<>>
---------------------------------------------------------------------------
(* /proc/iomem prints a tree: a line is inside the nearest line before it  *)
(* with less indentation, and after all others that are not outside it.    *)

TreeLine(e) ==
  /\ e.start <= e.end
  /\ \A i \in DOMAIN lines : lines[i].indent >= e.indent => lines[i].end < e.start
  /\ e.indent > 0 =>
       \E i \in DOMAIN lines :
         /\ lines[i].indent = e.indent - 1
         /\ lines[i].start <= e.start /\ e.end <= lines[i].end
         /\ \A j \in i + 1 .. Len(lines) : lines[j].indent >= e.indent

IsReservedTopOnly(e) == e.indent = 0 /\ e.desc = "reserved"

IsReserved(e) ==
  \/ e.indent = 0 /\ e.desc = "reserved"
  \/ e.indent > 0 /\ top /\ e.desc # "keeper"

ReadLine(e) ==
  /\ pc = "read" /\ Len(lines) < MaxLines /\ TreeLine(e)
  /\ lines' = Append(lines, e)
  /\ top' = IF e.indent = 0 THEN e.desc = "ram" ELSE top
  /\ available' = IF e.indent = 0 /\ e.desc = "ram"
                  THEN Append(available, R(e.start, e.end)) ELSE available
  /\ reserved' = IF IsReserved(e) THEN Append(reserved, R(e.start, e.end)) ELSE reserved
  /\ UNCHANGED <<pc, res, next, query>>

EndOfFile ==
  /\ pc = "read"
  /\ pc' = "subtract"
  /\ UNCHANGED <<reading, available, res, next, query>>
---------------------------------------------------------------------------
(* subtract_ranges *)

PiecesSwapped(r, s) ==
  IF ~Overlaps(r, s) THEN <<r>>
  ELSE (IF s.end < r.end THEN <<R(s.end + 1, r.end)>> ELSE <<>>)
       \o (IF s.start > r.start THEN <<R(r.start, s.start - 1)>> ELSE <<>>)

PiecesKeptEmpty(r, s) ==
  IF ~Overlaps(r, s) THEN <<r>>
  ELSE (IF s.start >= r.start THEN <<R(r.start, s.start - 1)>> ELSE <<>>)
       \o (IF s.end < r.end THEN <<R(s.end + 1, r.end)>> ELSE <<>>)

\* What is left of r around s.
Pieces(r, s) ==
  IF ~Overlaps(r, s) THEN <<r>>
  ELSE (IF s.start > r.start THEN <<R(r.start, s.start - 1)>> ELSE <<>>)
       \o (IF s.end < r.end THEN <<R(s.end + 1, r.end)>> ELSE <<>>)

Drain ==
  /\ pc = "subtract" /\ res <= Len(reserved) /\ available # <<>>
  /\ next' = next \o Pieces(Head(available), reserved[res])
  /\ available' = Tail(available)
  /\ UNCHANGED <<pc, reading, res, query>>

NextReserved ==
  /\ pc = "subtract" /\ res <= Len(reserved) /\ available = <<>>
  /\ available' = next /\ next' = <<>>
  /\ res' = res + 1
  /\ UNCHANGED <<pc, reading, query>>

Subtracted ==
  /\ pc = "subtract" /\ res > Len(reserved)
  /\ pc' = "ready"
  /\ UNCHANGED <<reading, available, res, next, query>>
---------------------------------------------------------------------------
(* find_free_memory_regions *)

StartSearch ==
  /\ pc = "ready" /\ available # <<>>
  /\ avoid' \in AvoidLists
  /\ free_start' = available[1].start
  /\ pc' = "search"
  /\ UNCHANGED <<reading, available, res, next, region, av, free>>

Large(s, e) == s <= e /\ e - s + 1 >= Required
Offer(s, e) == free' = IF Large(s, e) THEN Append(free, R(s, e)) ELSE free

PastAvoidedToStart(a) == a.start
PastAvoided(a) == a.end + 1

CompareAvoided ==
  LET r == available[region]  a == avoid[av] IN
  /\ pc = "search" /\ region <= Len(available) /\ av <= Len(avoid)
  /\ IF Overlaps(a, r) /\ a.start >= r.start /\ a.start <= r.end
     THEN Offer(free_start, a.start - 1) /\ free_start' = PastAvoided(a)
     ELSE UNCHANGED <<free, free_start>>
  /\ av' = av + 1
  /\ UNCHANGED <<pc, reading, available, res, next, avoid, region>>

EndRegion ==
  /\ pc = "search" /\ region <= Len(available) /\ av > Len(avoid)
  /\ Offer(free_start, available[region].end)
  /\ region' = region + 1 /\ av' = 1
  /\ free_start' = IF region < Len(available) THEN available[region + 1].start ELSE 0
  /\ UNCHANGED <<pc, reading, available, res, next, avoid>>

\* The last loop, retain and sort_by_key: order gives the places of those kept,
\* by their starts and, where these are equal, as they were.
Aligned(r) == R(AlignUp(r.start, Alignment), r.end)
Kept == {i \in DOMAIN free : Large(Aligned(free[i]).start, free[i].end)}
Sorted(order) ==
  \A i, j \in DOMAIN order : i < j =>
    LET a == Aligned(free[order[i]]).start  b == Aligned(free[order[j]]).start
    IN a < b \/ (a = b /\ order[i] < order[j])

AlignFree ==
  /\ pc = "search" /\ region > Len(available)
  /\ \E order \in Bijection(1 .. Cardinality(Kept), Kept) :
       /\ Sorted(order)
       /\ free' = [i \in 1 .. Cardinality(Kept) |-> Aligned(free[order[i]])]
  /\ pc' = "found"
  /\ UNCHANGED <<reading, available, res, next, avoid, region, av, free_start>>

---------------------------------------------------------------------------
(* fetch_smap *)

\* Types of the ACPI ranges are left out: like "reserved" they are not RAM.
TypeOf(desc) == CASE desc = "ram" -> 1 [] desc = "reserved" -> 2 [] OTHER -> 0
Row(e) == [start |-> e.start, end |-> e.end, type |-> TypeOf(e.desc)]
FirstRows(list, places) ==
  [k \in (1 .. Cardinality(places)) \intersect (1 .. MaxRows) |-> Row(list[Nth(places, k)])]

\* Linux writes its numbers with 0x, which from_str_radix does not read.
Readable == {i \in DOMAIN FirmwareMap : ~FirmwareMap[i].prefixed}
Typed == {i \in DOMAIN lines : TypeOf(lines[i].desc) # 0}

SmapRowsCountLines ==
  IF Readable # {} THEN FirstRows(FirmwareMap, Readable)
  ELSE FirstRows(lines, {i \in Typed : i <= MaxRows})

\* The lines of /proc/iomem, nested ones included, count if the other gave none.
SmapRows == IF Readable # {} THEN FirstRows(FirmwareMap, Readable) ELSE FirstRows(lines, Typed)
---------------------------------------------------------------------------
Done == pc = "found" \/ (pc = "ready" /\ available = <<>>)

Next ==
  \/ \E e \in Entry : ReadLine(e)
  \/ EndOfFile \/ Drain \/ NextReserved \/ Subtracted
  \/ StartSearch \/ CompareAvoided \/ EndRegion \/ AlignFree
  \/ Done /\ UNCHANGED vars

Spec == Init /\ [][Next]_vars
---------------------------------------------------------------------------
\* Type invariant.
TypeOK ==
  /\ pc \in {"read", "subtract", "ready", "search", "found"}
  /\ lines \in Seq(Entry) /\ top \in BOOLEAN
  /\ available \in Seq(Ranges) /\ reserved \in Seq(Ranges) /\ next \in Seq(Ranges)
  /\ res \in 1 .. Len(reserved) + 1
  /\ avoid \in AvoidLists \union {<<>>}
  /\ region \in 1 .. Len(available) + 1 \/ pc # "search"
  /\ av \in 1 .. Len(avoid) + 1 /\ free_start \in Nat
  /\ free \in Seq(Ranges)

In(b, regs) == \E i \in DOMAIN regs : regs[i].start <= b /\ b <= regs[i].end

\* Is byte b RAM that nothing but the running kernel's image occupies?
Free(b) ==
  /\ \E i \in DOMAIN lines :
       /\ lines[i].indent = 0 /\ lines[i].desc = "ram"
       /\ lines[i].start <= b /\ b <= lines[i].end
  /\ ~\E i \in DOMAIN lines :
       /\ lines[i].start <= b /\ b <= lines[i].end
       /\ lines[i].indent > 0 /\ lines[i].desc # "keeper"

Built == pc \in {"ready", "search", "found"}

\* build_available_regions: a byte is available exactly when it is System RAM
\* and every resource nested over it is the image of the running kernel. The
\* first-fit scans of boot() stop at the first region that fits and never look
\* below the cursor again: the regions are ascending and disjoint.
AvailableExact ==
  Built =>
    /\ \A b \in 0 .. MaxAddr : In(b, available) <=> Free(b)
    /\ \A i \in 1 .. Len(available) - 1 : available[i].end < available[i + 1].start

\* What boot() may put a segment into, fetch_smap tells the FreeBSD kernel of
\* as RAM, though the two read the file by different rules. If the table is
\* full, only memory above its last row is missing.
SmapCoversAvailable ==
  Built => \A b \in 0 .. MaxAddr : In(b, available) =>
    \/ \E i \in DOMAIN SmapRows :
         SmapRows[i].type = 1 /\ SmapRows[i].start <= b /\ b <= SmapRows[i].end
    \/ Len(SmapRows) = MaxRows /\ \A i \in DOMAIN SmapRows : SmapRows[i].start <= b

Ascending(s) == \A i, j \in DOMAIN s : i < j => s[i].end < s[j].start

\* The avoided ranges are ascending and disjoint, and none reaches into a
\* region it does not start in.
AvoidInOrder ==
  /\ Ascending(avoid)
  /\ \A i \in DOMAIN avoid, j \in DOMAIN available :
       Overlaps(avoid[i], available[j]) => avoid[i].start >= available[j].start

Open(s, e) == \A b \in s .. e : In(b, available) /\ ~In(b, avoid)

\* find_free_memory_regions: what it returns for such ranges is aligned, large
\* enough, available and not avoided, and every aligned block of the required
\* size that lies in one region and avoids them is in some returned region.
SearchExact ==
  pc = "found" /\ AvoidInOrder =>
    /\ \A i \in DOMAIN free :
         /\ free[i].start % Alignment = 0 /\ Large(free[i].start, free[i].end)
         /\ Open(free[i].start, free[i].end)
    /\ \A s \in 0 .. MaxAddr - Required + 1 :
         LET e == s + Required - 1 IN
         /\ s % Alignment = 0 /\ Open(s, e)
         /\ InRegions(s, Required, available)
         => InRegions(s, Required, free)
---------------------------------------------------------------------------
(* The inductive invariant behind AvailableExact: while the file is read,  *)
(* the regions hold the bytes of System RAM and the reserved ranges, where *)
(* there is RAM, the bytes of what is nested in it; while ranges are       *)
(* subtracted, what is free is what is left but for the ranges to come.    *)

Covers(r, b) == r.start <= b /\ b <= r.end

Root(i) == lines[i].indent = 0
RamByte(b) == \E i \in DOMAIN lines : Root(i) /\ lines[i].desc = "ram" /\ Covers(lines[i], b)
Nested(b) ==
  \E i \in DOMAIN lines : ~Root(i) /\ lines[i].desc # "keeper" /\ Covers(lines[i], b)

\* Every line lies in the last root before it, roots are ascending, and top
\* tells of the last.
Tree ==
  /\ \A i \in DOMAIN lines : \E j \in 1 .. i :
       /\ Root(j) /\ lines[j].start <= lines[i].start /\ lines[i].end <= lines[j].end
       /\ \A k \in j + 1 .. i : ~Root(k)
  /\ \A i, j \in DOMAIN lines : Root(i) /\ Root(j) /\ i < j => lines[i].end < lines[j].start
  /\ \A j \in DOMAIN lines :
       Root(j) /\ (\A k \in j + 1 .. Len(lines) : ~Root(k)) => top = (lines[j].desc = "ram")

\* A range taken from the file ends where a line ends.
FromLines(s) == \A k \in DOMAIN s : \E i \in DOMAIN lines : s[k].end = lines[i].end

ReadInv ==
  /\ next = <<>> /\ res = 1
  /\ Tree
  /\ FromLines(available) /\ FromLines(reserved) /\ Ascending(available)
  /\ \A b \in 0 .. MaxAddr : In(b, available) <=> RamByte(b)
  /\ \A b \in 0 .. MaxAddr : RamByte(b) => (In(b, reserved) <=> Nested(b))

\* No range still to be subtracted has byte b.
Spared(b) == \A k \in res .. Len(reserved) : ~Covers(reserved[k], b)

SubtractInv ==
  /\ \A b \in 0 .. MaxAddr : Free(b) <=> (In(b, next) \/ In(b, available)) /\ Spared(b)
  /\ \A b \in 0 .. MaxAddr : In(b, next) => res <= Len(reserved) /\ ~Covers(reserved[res], b)
  /\ Ascending(next) /\ Ascending(available)
  /\ \A i \in DOMAIN next, j \in DOMAIN available : next[i].end < available[j].start

RegionTypes ==
  /\ pc \in {"read", "subtract", "ready", "search", "found"}
  /\ lines \in Seq(Entry)
  /\ available \in Seq(Ranges) /\ reserved \in Seq(Ranges) /\ next \in Seq(Ranges)
  /\ res \in 1 .. Len(reserved) + 1

RegionInv ==
  /\ RegionTypes
  /\ pc = "read" => ReadInv
  /\ pc = "subtract" => SubtractInv
  /\ AvailableExact

\* A line starts at or after those before it.
LinesAscend ==
  \A i \in DOMAIN lines :
    lines[i].start <= lines[i].end /\ \A j \in 1 .. i - 1 : lines[j].start <= lines[i].start
---------------------------------------------------------------------------
(* The inductive invariant behind SearchExact: nothing from free_start on  *)
(* is avoided by a range already compared, and every block is offered, or  *)
(* lies at or after free_start or in a region to come.                     *)

QueryTypes ==
  /\ top \in BOOLEAN
  /\ avoid \in AvoidLists \union {<<>>}
  /\ pc \in {"read", "subtract", "ready"} => region = 1 /\ av = 1 /\ free = <<>>
  /\ pc = "search" => region \in 1 .. Len(available) + 1
  /\ av \in 1 .. Len(avoid) + 1 /\ free_start \in Nat
  /\ free \in Seq(Ranges)

\* The block from s on lies in r.
BlockIn(s, r) == r.start <= s /\ s + Required - 1 <= r.end
Offered(s) == \E i \in DOMAIN free : BlockIn(s, free[i])

SearchInv ==
  pc = "search" /\ AvoidInOrder =>
    /\ \A i \in DOMAIN free : Open(free[i].start, free[i].end)
    /\ region <= Len(available) =>
         /\ available[region].start <= free_start
         /\ \A i \in 1 .. av - 1, b \in free_start .. available[region].end : ~Covers(avoid[i], b)
    /\ \A s \in 0 .. MaxAddr, j \in DOMAIN available :
         BlockIn(s, available[j]) /\ Open(s, s + Required - 1) =>
           Offered(s) \/ region < j \/ (region = j /\ free_start <= s)
=============================================================================
