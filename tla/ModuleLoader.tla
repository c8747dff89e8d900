---------------------------- MODULE ModuleLoader ----------------------------
(***************************************************************************)
(* ModuleLoader of module/mod.rs and the patching of module metadata of    *)
(* module/metadata.rs: kernels and modules are loaded, then the linker set *)
(* of each module is followed, pointer by pointer, and the entries it      *)
(* names are patched in place. Any step may fail and leave the rest as it  *)
(* is. A module's data is a sequence of bytes, read and written at any     *)
(* offset. A kernel file is named by what the code asks of it.             *)
(***************************************************************************)
EXTENDS Integers, Sequences, FiniteSets

CONSTANTS
  Kernels,      \* bound: kernel files
  Modules,      \* bound: module files
  MaxKernels, MaxModules,  \* bounds: kernels and modules loaded
  MaxPatches,   \* bound: calls of patch_modmetadata
  Base, Top,    \* 256 and 2^64: how many bytes there are, and words of 8 bytes
  KernBase, KernelPhys,  \* KERNBASE, KERNEL_PHYS_BASE
  NotUtf8,      \* the strings that are not UTF-8
  OverflowChecks  \* built with overflow checks?

NoFile == [elf |-> FALSE, wide |-> FALSE, header |-> FALSE, segments |-> <<>>, symbols |-> <<>>, strings |-> FALSE]

\* No more bytes than isize::MAX.
Data == {d \in Seq(0 .. Base - 1) : 2 * Len(d) <= Top}

ASSUME LoaderAssumption ==
  /\ Base \in Nat /\ Top \in Nat \ {0} /\ KernBase \in 0 .. Top - 1 /\ KernelPhys \in 0 .. KernBase
  /\ MaxKernels \in Nat /\ MaxModules \in Nat /\ MaxPatches \in Nat /\ OverflowChecks \in BOOLEAN
  /\ \A f \in Kernels :
       /\ {f.elf, f.wide, f.header, f.strings} \subseteq BOOLEAN
       /\ Len(f.symbols) \in Nat /\ DOMAIN f.symbols = 1 .. Len(f.symbols)
       /\ Len(f.segments) \in Nat /\ DOMAIN f.segments = 1 .. Len(f.segments)
       /\ \A i \in DOMAIN f.symbols : f.symbols[i].value \in 0 .. Top - 1
       /\ \A i \in DOMAIN f.segments :
            f.segments[i].vaddr \in 0 .. Top - 1 /\ f.segments[i].size \in Nat /\ f.segments[i].inside \in BOOLEAN
  /\ \A f \in Modules :
       /\ f.kind \in {"obj", "dyn", "raw", "bad"}
       /\ f.data \in Data
       /\ f.offset \in 0 .. Top - 1 /\ f.count \in Nat
ASSUME ByteAssumption ==
  Base >= 2 /\ Top = Base * (Base * (Base * (Base * (Base * (Base * (Base * Base))))))

VARIABLES
  pc,
  kernel,    \* the file each of kernel_data, the parsed fields, the symbols and the header are of
  modules,
  loads, patches,  \* kernels loaded and calls of patch_modmetadata
  m, ptrs, k,  \* the module being patched, the pointers of its set, the next of them
  before     \* the modules when the call began (history)

call == <<m, ptrs, k, before>>
vars == <<pc, kernel, modules, loads, patches, call>>

Init ==
  /\ pc = "idle"
  /\ kernel = [data |-> NoFile, parsed |-> NoFile, symbols |-> NoFile, header |-> NoFile]
  /\ modules = <<>> /\ loads = 0 /\ patches = 0
  /\ m = 1 /\ ptrs = <<>> /\ k = 1 /\ before = <<>>

\* What is kept of a kernel and of a module.
KernelFile == Kernels \cup {NoFile}
Module ==
  [data : Data, offset : 0 .. Top - 1, count : Nat, relocated : BOOLEAN,
   file : Modules, shift : 0 .. Top - 1]

Idle == pc \in {"idle", "ok", "error", "patched", "failed"}
---------------------------------------------------------------------------
(* Loading *)

\* An x86-64 ET_EXEC file, of 64 bits and little-endian.
Parses(f) == f.elf /\ f.wide

DeltaUnderflows(f) == f.segments # <<>> /\ f.segments[1].vaddr < KernBase

\* virtual_delta: 0 without a segment to load.
Delta(f) ==
  IF f.segments = <<>> THEN 0
  ELSE IF DeltaUnderflows(f) THEN Top - KernelPhys ELSE KernBase - KernelPhys

LoadKernelKeepHeader(f) ==
  /\ Idle /\ loads < MaxKernels
  /\ loads' = loads + 1
  /\ IF ~Parses(f) THEN kernel' = [kernel EXCEPT !.data = f] /\ pc' = "error"
     ELSE /\ kernel' = [data |-> f, parsed |-> f,
                        symbols |-> IF f.symbols # <<>> THEN f ELSE kernel.symbols,
                        header |-> IF f.header THEN f ELSE kernel.header]
          /\ pc' = IF DeltaUnderflows(f) /\ OverflowChecks THEN "panic" ELSE "ok"
  /\ UNCHANGED <<modules, patches, call>>

\* The data is kept before it is parsed; a kernel without a symbol table
\* leaves the symbols of the one before.
LoadKernel(f) ==
  /\ Idle /\ loads < MaxKernels
  /\ loads' = loads + 1
  /\ IF ~Parses(f) THEN kernel' = [kernel EXCEPT !.data = f] /\ pc' = "error"
     ELSE /\ kernel' = [data |-> f, parsed |-> f,
                        symbols |-> IF f.symbols # <<>> THEN f ELSE kernel.symbols,
                        header |-> IF f.header THEN f ELSE NoFile]
          /\ pc' = IF DeltaUnderflows(f) /\ OverflowChecks THEN "panic" ELSE "ok"
  /\ UNCHANGED <<modules, patches, call>>

\* Only a relocatable object's set is looked for. file and shift are history.
LoadModule(f) ==
  /\ Idle /\ Len(modules) < MaxModules
  /\ IF f.kind = "bad" THEN pc' = "error" /\ UNCHANGED modules
     ELSE /\ modules' = Append(modules, [data |-> f.data, offset |-> f.offset,
                                         count |-> IF f.kind = "obj" THEN f.count ELSE 0,
                                         relocated |-> FALSE, file |-> f, shift |-> 0])
          /\ pc' = "ok"
  /\ UNCHANGED <<kernel, loads, patches, call>>
---------------------------------------------------------------------------
(* patch_modmetadata *)

\* to_le_bytes and from_le_bytes of a u64, and from_le_bytes of a u32.
ToLe(v) ==
  LET v1 == v \div Base   v2 == v1 \div Base  v3 == v2 \div Base  v4 == v3 \div Base
      v5 == v4 \div Base  v6 == v5 \div Base  v7 == v6 \div Base
  IN <<v % Base, v1 % Base, v2 % Base, v3 % Base, v4 % Base, v5 % Base, v6 % Base, v7>>
FromLe4(b) == b[1] + Base * (b[2] + Base * (b[3] + Base * b[4]))
FromLe(b) == b[1] + Base * (b[2] + Base * (b[3] + Base * (b[4] + Base *
               (b[5] + Base * (b[6] + Base * (b[7] + Base * b[8]))))))

\* A number at a byte offset, and a word written there.
Bytes(f) == Len(f.data)
At(f, a, n) == [i \in 1 .. n |-> f.data[a + i]]
U32(f, a) == FromLe4(At(f, a, 4))
U64(f, a) == FromLe(At(f, a, 8))
Set(f, a, v) ==
  [f EXCEPT !.data = [i \in DOMAIN f.data |-> IF i \in a + 1 .. a + 8 THEN ToLe(v)[i - a] ELSE f.data[i]]]

\* The string at a byte offset: up to a zero, or to the end of the data.
StringEnd(f, a) ==
  CHOOSE e \in a .. Bytes(f) :
    (\A i \in a + 1 .. e : f.data[i] # 0) /\ (e < Bytes(f) => f.data[e + 1] = 0)
String(f, a) == At(f, a, StringEnd(f, a) - a)

\* What becomes of reads up to end. A sum that wraps in a release build, and
\* then passes for inside, panics at the first read past the data.
Bound(f, end) ==
  IF end < Top THEN IF end <= Bytes(f) THEN "inside" ELSE "outside"
  ELSE IF OverflowChecks \/ end % Top <= Bytes(f) THEN "panic" ELSE "outside"

PatchDisabled ==
  /\ Idle
  /\ pc' = "ok"
  /\ UNCHANGED <<kernel, modules, loads, patches, call>>

StartPatch ==
  /\ Idle /\ patches < MaxPatches
  /\ patches' = patches + 1
  /\ m' = 1 /\ before' = modules /\ ptrs' = <<>> /\ k' = 1
  /\ pc' = "module"
  /\ UNCHANGED <<kernel, modules, loads>>

SkipModule ==
  /\ pc = "module" /\ m <= Len(modules) /\ modules[m].count = 0
  /\ m' = m + 1
  /\ UNCHANGED <<pc, kernel, modules, loads, patches, ptrs, k, before>>

SetEnd(f) == f.offset + 8 * f.count

PointersOf(f) == [i \in 1 .. f.count |-> U64(f, f.offset + 8 * (i - 1))]

ReadSetSkip ==
  /\ pc = "module" /\ m <= Len(modules) /\ modules[m].count > 0
  /\ LET f == modules[m] IN
     IF Bound(f, SetEnd(f)) # "inside" THEN m' = m + 1 /\ UNCHANGED <<pc, ptrs, k>>
     ELSE ptrs' = PointersOf(f) /\ k' = 1 /\ pc' = "entry" /\ UNCHANGED m
  /\ UNCHANGED <<kernel, modules, loads, patches, before>>

ReadSet ==
  /\ pc = "module" /\ m <= Len(modules) /\ modules[m].count > 0
  /\ LET f == modules[m]
         bound == Bound(f, SetEnd(f))
     IN
     IF bound = "panic" THEN pc' = "panic" /\ UNCHANGED <<ptrs, k>>
     ELSE IF bound = "outside" THEN pc' = "failed" /\ UNCHANGED <<ptrs, k>>
     ELSE ptrs' = PointersOf(f) /\ k' = 1 /\ pc' = "entry"
  /\ UNCHANGED <<kernel, modules, loads, patches, m, before>>

\* The last symbol of a name that has a value.
SymbolsNamed(name) ==
  {i \in DOMAIN kernel.symbols.symbols :
     kernel.symbols.symbols[i].name = name /\ kernel.symbols.symbols[i].value # 0}
SymbolFirst(name) ==
  kernel.symbols.symbols[CHOOSE i \in SymbolsNamed(name) : \A j \in SymbolsNamed(name) : i <= j].value
Symbol(name) ==
  kernel.symbols.symbols[CHOOSE i \in SymbolsNamed(name) : \A j \in SymbolsNamed(name) : j <= i].value

\* One entry: what becomes of its data word, an error, or a panic.
Same(v) == [outcome |-> "ok", value |-> v]
Fails(how) == [outcome |-> how, value |-> 0]
SumUnwrapped(v) ==
  IF v + Delta(kernel.parsed) >= Top /\ OverflowChecks THEN Fails("panic")
  ELSE Same(v + Delta(kernel.parsed))
Sum(v) == IF v + Delta(kernel.parsed) >= Top /\ OverflowChecks THEN Fails("panic")
          ELSE Same((v + Delta(kernel.parsed)) % Top)

Depend(f, data) ==
  IF data >= Bytes(f) THEN Fails("failed")
  ELSE LET s == String(f, data) IN
       IF s = <<>> THEN Same(data)
       ELSE IF s \in NotUtf8 THEN Fails("failed")
       ELSE IF SymbolsNamed(s) # {} THEN Sum(Symbol(s)) ELSE Same(data)

ModuleName(f, data) == IF data >= Bytes(f) THEN Fails("failed") ELSE Sum(data)

PatchedUnchecked(f, type, data) ==
  CASE data = 0 -> Same(data)
    [] data # 0 /\ type = 1 -> Depend(f, data)
    [] data # 0 /\ type \in {2, 3} -> Sum(data)
    [] OTHER -> Same(data)

Patched(f, type, data) ==
  CASE data = 0 -> Same(data)
    [] data # 0 /\ type = 1 -> Depend(f, data)
    [] data # 0 /\ type = 2 -> ModuleName(f, data)
    [] data # 0 /\ type = 3 -> Sum(data)
    [] OTHER -> Same(data)

\* A pointer may be null or lead outside: then its entry is left alone.
Inside(f, p) == p # 0 /\ p + 16 <= Bytes(f)

PatchEntryOnce ==
  /\ pc = "entry" /\ k <= Len(ptrs)
  /\ LET f == modules[m]
         p == ptrs[k]
         r == IF Bound(f, p + 16) = "panic" THEN Fails("panic")
              ELSE IF ~Inside(f, p) THEN Same(0)
              ELSE IF f.relocated THEN Same(U64(f, p + 8))
              ELSE Patched(f, U32(f, p), U64(f, p + 8))
     IN
     IF r.outcome # "ok" THEN pc' = r.outcome /\ UNCHANGED <<modules, k>>
     ELSE /\ modules' = IF Inside(f, p) THEN [modules EXCEPT ![m] = Set(f, p + 8, r.value)] ELSE modules
          /\ k' = k + 1
          /\ UNCHANGED pc
  /\ UNCHANGED <<kernel, loads, patches, m, ptrs, before>>

PatchEntry ==
  /\ pc = "entry" /\ k <= Len(ptrs)
  /\ LET f == modules[m]
         p == ptrs[k]
         r == IF Bound(f, p + 16) = "panic" THEN Fails("panic")
              ELSE IF ~Inside(f, p) THEN Same(0)
              ELSE Patched(f, U32(f, p), U64(f, p + 8))
     IN
     IF r.outcome # "ok" THEN pc' = r.outcome /\ UNCHANGED <<modules, k>>
     ELSE /\ modules' = IF Inside(f, p) THEN [modules EXCEPT ![m] = Set(f, p + 8, r.value)] ELSE modules
          /\ k' = k + 1
          /\ UNCHANGED pc
  /\ UNCHANGED <<kernel, loads, patches, m, ptrs, before>>

EndModule ==
  /\ pc = "entry" /\ k > Len(ptrs)
  /\ modules' = [modules EXCEPT ![m].relocated = TRUE, ![m].shift = (@ + Delta(kernel.parsed)) % Top]
  /\ m' = m + 1 /\ ptrs' = <<>> /\ k' = 1 /\ pc' = "module"
  /\ UNCHANGED <<kernel, loads, patches, before>>

EndPatch ==
  /\ pc = "module" /\ m > Len(modules)
  /\ pc' = "patched"
  /\ UNCHANGED <<kernel, modules, loads, patches, call>>

Next ==
  \/ \E f \in Kernels : LoadKernel(f)
  \/ \E f \in Modules : LoadModule(f)
  \/ PatchDisabled \/ StartPatch \/ SkipModule \/ ReadSet \/ PatchEntry \/ EndModule \/ EndPatch

Spec == Init /\ [][Next]_vars
---------------------------------------------------------------------------
TypeOK ==
  /\ pc \in {"idle", "ok", "error", "patched", "failed", "panic", "module", "entry"}
  /\ kernel \in [data : KernelFile, parsed : KernelFile, symbols : KernelFile, header : KernelFile]
  /\ modules \in Seq(Module) /\ before \in Seq(Module)
  /\ loads \in 0 .. MaxKernels /\ patches \in 0 .. MaxPatches
  /\ m \in 1 .. Len(modules) + 1 /\ ptrs \in Seq(0 .. Top - 1) /\ k \in 1 .. Len(ptrs) + 1

(* load_kernel: however kernels were loaded before, with or without        *)
(* success, the entry, the offset and the headers handed to the booted     *)
(* kernel are those of one file, the one loaded last if it is a kernel.    *)
OneKernel ==
  /\ Parses(kernel.data) => kernel.parsed = kernel.data
  /\ kernel.header \in {NoFile, kernel.parsed}

\* The entries of a set, the bytes that the patch of one writes, and blocks
\* that share no byte.
Entries(f, ps) == {i \in DOMAIN ps : Inside(f, ps[i])}
DataAt(ps, i) == ps[i] + 8
Writes(p) == p + 9 .. p + 16
Apart(a, m1, b, m2) == a + m1 <= b \/ b + m2 <= a

(* A module's entries are separate if what the patch of one writes is no   *)
(* byte of another, nor of the string another one needs (and so no pointer *)
(* occurs twice).                                                          *)
Separate(f, ps) ==
  \A i, j \in Entries(f, ps) : i # j =>
    LET s == U64(f, DataAt(ps, i)) IN
    /\ Apart(DataAt(ps, j), 8, ps[i], 16)
    /\ U32(f, ps[i]) = 1 /\ s # 0 /\ s < Bytes(f) => Apart(DataAt(ps, j), 8, s, StringEnd(f, s) + 1 - s)

\* What the data word of an entry of the type means to the kernel.
Meant(kern, f, type, data, new) ==
  LET delta == Delta(kern.parsed)
      table == kern.symbols.symbols
      name == IF data < Bytes(f) THEN String(f, data) ELSE <<>>
      Defines(i) == table[i].name = name /\ table[i].value # 0
  IN CASE data # 0 /\ type \in {2, 3} -> new = (data + delta) % Top
       [] data # 0 /\ type = 1 /\ name # <<>> /\ (\E i \in DOMAIN table : Defines(i)) ->
            \E i \in DOMAIN table :
              /\ Defines(i) /\ \A j \in i + 1 .. Len(table) : ~Defines(j)
              /\ new = (table[i].value + delta) % Top
       [] OTHER -> new = data

InCall == pc \in {"module", "entry", "patched", "failed"}
\* The pointers of module j that have been followed.
Followed(j) ==
  IF j < m THEN PointersOf(before[j])
  ELSE IF j = m /\ SetEnd(before[j]) <= Bytes(before[j]) THEN SubSeq(PointersOf(before[j]), 1, k - 1) ELSE <<>>

(* patch_modmetadata, in the middle, at its end and where it fails: each   *)
(* entry of a module followed so far has been patched once, as its type    *)
(* asks, from what it held when the call began; every other byte is as it  *)
(* was then.                                                               *)
PatchExact ==
  InCall => \A j \in DOMAIN modules :
    LET f == before[j]
        ps == Followed(j)
        hit == Entries(f, ps)
    IN SetEnd(f) <= Bytes(f) /\ Separate(f, PointersOf(f)) =>
         /\ \A b \in DOMAIN f.data \ UNION {Writes(ps[i]) : i \in hit} : modules[j].data[b] = f.data[b]
         /\ \A i \in hit :
              Meant(kernel, f, U32(f, ps[i]), U64(f, DataAt(ps, i)), U64(modules[j], DataAt(ps, i)))

(* A failure stops the whole call: the modules after the failing one are   *)
(* untouched, it and they are not marked as relocated by this call, and    *)
(* those before it, and all after a success, are.                          *)
StopsAtFailure ==
  InCall => \A j \in DOMAIN modules :
    /\ j < m /\ before[j].count > 0 => modules[j].relocated
    /\ j >= m => modules[j].relocated = before[j].relocated
    /\ j > m => modules[j] = before[j]

(* A call that succeeds has met no dependency and no name outside its      *)
(* module: such an entry is an error, never a pointer for the kernel.      *)
SuccessMeansInside ==
  pc = "patched" => \A j \in DOMAIN before :
    LET f == before[j]
        ps == PointersOf(f)
    IN f.count > 0 /\ Separate(f, ps) =>
         \A i \in Entries(f, ps) : U32(f, ps[i]) \in {1, 2} => U64(f, DataAt(ps, i)) < Bytes(f)

\* A module whose set names only version entries, apart from each other and
\* from the set, some of them more than once.
OnlyVersions(f) ==
  LET ps == PointersOf(f)
  IN /\ SetEnd(f) <= Bytes(f)
     /\ \A i \in Entries(f, ps) :
          /\ U32(f, ps[i]) = 3 /\ Apart(DataAt(ps, i), 8, f.offset, 8 * f.count)
          /\ \A j \in Entries(f, ps) : ps[i] = ps[j] \/ Apart(ps[i], 16, ps[j], 16)

(* Nothing reads modmeta_data_relocated. However many calls there were,    *)
(* with whatever kernels between them, and whether they failed elsewhere   *)
(* or not, each moved every version of the modules it went through, once   *)
(* for every time the set names it: only the first call's result is the    *)
(* kernel's. A version that a shift took to zero is left at zero.          *)
VersionsAddUp ==
  \A j \in DOMAIN modules :
    LET f == modules[j].file
        ps == PointersOf(f)
    IN modules[j].count > 0 /\ OnlyVersions(f) /\ ~(pc \in {"entry", "panic"} /\ m = j) =>
         /\ \A b \in DOMAIN f.data \ UNION {Writes(ps[i]) : i \in Entries(f, ps)} :
              modules[j].data[b] = f.data[b]
         /\ \A i \in Entries(f, ps) :
              LET times == Cardinality({n \in DOMAIN ps : ps[n] = ps[i]})
              IN U64(modules[j], DataAt(ps, i)) \in
                   {0, (U64(f, DataAt(ps, i)) + times * modules[j].shift) % Top}
---------------------------------------------------------------------------
(* The inductive invariant behind PatchExact and SuccessMeansInside.       *)

\* How many pointers of module j have been followed.
Reached(j) ==
  IF j < m THEN before[j].count
  ELSE IF j = m /\ SetEnd(before[j]) <= Bytes(before[j]) THEN k - 1 ELSE 0

\* g is f with its first n entries patched; no entry of those fails.
PatchedTo(kern, f, g, n) ==
  LET ps == PointersOf(f) IN
  /\ \A b \in DOMAIN f.data :
       (\A i \in 1 .. n : Inside(f, ps[i]) => b \notin Writes(ps[i])) => g.data[b] = f.data[b]
  /\ \A i \in 1 .. n : Inside(f, ps[i]) =>
       /\ Meant(kern, f, U32(f, ps[i]), U64(f, DataAt(ps, i)), U64(g, DataAt(ps, i)))
       /\ U32(f, ps[i]) \in {1, 2} => U64(f, DataAt(ps, i)) < Bytes(f)

\* Where the call is: k counts pointers of a set that fits.
AtEntry ==
  /\ pc = "module" => k = 1
  /\ pc = "entry" => SetEnd(before[m]) <= Bytes(before[m]) /\ ptrs = PointersOf(before[m])
  /\ pc = "failed" =>
       /\ m <= Len(modules)
       /\ SetEnd(before[m]) <= Bytes(before[m]) => k <= before[m].count
  /\ pc = "patched" => m > Len(modules)

PatchInv ==
  InCall =>
    /\ Len(before) = Len(modules) /\ AtEntry
    /\ \A j \in 1 .. Len(modules) :
         LET f == before[j] IN
         /\ Len(f.data) = Len(modules[j].data) /\ f.offset = modules[j].offset
         /\ f.count = modules[j].count
         /\ j > m \/ (j = m /\ pc = "module") => modules[j] = f
         /\ j < m /\ f.count > 0 => SetEnd(f) <= Bytes(f)
         /\ SetEnd(f) <= Bytes(f) /\ Separate(f, PointersOf(f))
              => PatchedTo(kernel, f, modules[j], Reached(j))
---------------------------------------------------------------------------
(* The inductive invariant behind VersionsAddUp: in the middle of a set,   *)
(* the offset has been added once more for each pointer followed.          *)

HitsTo(f, p, n) == {i \in 1 .. n : PointersOf(f)[i] = p}
Times(f, p, n) == Cardinality(HitsTo(f, p, n))

\* g is the file f, moved by shift at every version, and by delta at those
\* among the first n pointers once more.
Moved(f, g, shift, n, delta) ==
  LET ps == PointersOf(f) IN
  /\ \A b \in DOMAIN f.data :
       (\A i \in 1 .. f.count : Inside(f, ps[i]) => b \notin Writes(ps[i])) => g.data[b] = f.data[b]
  /\ \A i \in 1 .. f.count : Inside(f, ps[i]) =>
       U64(g, DataAt(ps, i)) \in
         {0, (U64(f, DataAt(ps, i)) + Times(f, ps[i], f.count) * shift + Times(f, ps[i], n) * delta) % Top}

\* What is kept of a module's file, and how far its versions have moved.
OfFile(g) ==
  /\ Len(g.file.data) = Len(g.data) /\ g.file.offset = g.offset
  /\ g.count \in {0, g.file.count}
AddedUp(g, n, delta) ==
  g.count > 0 /\ OnlyVersions(g.file) => Moved(g.file, g, g.shift, n, delta)

\* The pointers of module j followed by a set that is not yet at its end.
Pending(j) == IF pc = "entry" /\ m = j THEN k - 1 ELSE 0

VersionsInv ==
  /\ pc = "entry" =>
       /\ modules[m].count > 0
       /\ OnlyVersions(modules[m].file) => ptrs = PointersOf(modules[m].file)
  /\ \A j \in 1 .. Len(modules) :
       /\ OfFile(modules[j])
       /\ ~(pc = "panic" /\ m = j) => AddedUp(modules[j], Pending(j), Delta(kernel.parsed))
=============================================================================
