------------------------------ MODULE Loaders -------------------------------
(***************************************************************************)
(* A client that gives every kernel and every module to both loaders of    *)
(* the library, module/mod.rs and module/loader.rs, in the same order:     *)
(* what each of them would boot, and where they differ.                    *)
(***************************************************************************)
EXTENDS ModuleLoader

CONSTANT PageSize

VARIABLES
  boot,   \* the fields of BootLoader
  tried   \* the kernels loaded so far, or not loaded (history)

B == INSTANCE BootLoader

InitBoth == Init /\ B!Init /\ tried = <<>>

LoadKernelBoth(f) == LoadKernel(f) /\ B!LoadKernel(f) /\ tried' = Append(tried, f)

LoadModuleBoth(f) ==
  /\ LoadModule(f)
  /\ IF pc' = "ok" THEN B!AddModule(f) ELSE UNCHANGED boot
  /\ UNCHANGED tried

Patching ==
  /\ PatchDisabled \/ StartPatch \/ SkipModule \/ ReadSet \/ PatchEntry \/ EndModule \/ EndPatch
  /\ UNCHANGED <<boot, tried>>

NextBoth ==
  \/ \E f \in Kernels : LoadKernelBoth(f)
  \/ \E f \in Modules : LoadModuleBoth(f)
  \/ Patching

SpecBoth == InitBoth /\ [][NextBoth]_<<vars, boot, tried>>
---------------------------------------------------------------------------
Held(f) == IF f.elf THEN B!Taken(f) ELSE {}

\* The list of segments is what every load got as far as, one after the other.
SegmentsKept == Len(boot.segments) = B!Sum([i \in DOMAIN tried |-> Cardinality(Held(tried[i]))])

TablesPaired == boot.symtab.strings => boot.strtab = boot.symtab

BootedWhole ==
  LET f == boot.data
      old == Len(boot.segments) - Len(f.segments)
  IN /\ boot.entry = f /\ boot.linked = f
     /\ boot.tables = IF f.header THEN f ELSE NoFile
     /\ \A i \in DOMAIN f.segments : boot.segments[old + i] = [of |-> f, at |-> i]

\* The map has no gap, and ends at the memory that is needed.
MapContiguous ==
  LET map == B!MemoryMap
  IN \A i \in DOMAIN map :
       map[i].at + map[i].size = IF i = Len(map) THEN B!TotalMemoryNeeded ELSE map[i + 1].at

SameKernel ==
  LET f == boot.data
  IN /\ kernel.parsed = f /\ kernel.header = boot.tables
     /\ B!Delta(f) = Delta(f) + IF f.segments # <<>> /\ ~DeltaUnderflows(f) THEN KernelPhys ELSE 0

(* module/loader.rs: whatever was loaded before, with or without success,  *)
(* a kernel that loads is booted whole: its entry, its offset and its      *)
(* headers, and its segments in their order. But the list, and with it the *)
(* map of memory, begins with what every earlier load got as far as. The   *)
(* two halves of the symbol table are of one kernel, unless the last that  *)
(* had symbols had no string table. module/mod.rs, given the same kernels, *)
(* boots the same file with the same headers, and an offset that is less   *)
(* by the kernel's physical base if the kernel is linked at KERNBASE.      *)
LoadedIsLast ==
  /\ SegmentsKept /\ TablesPaired /\ MapContiguous
  /\ boot.loaded => BootedWhole
  /\ boot.loaded /\ Parses(boot.data) => SameKernel

\* What the fields are of: with LoadedIsLast, an inductive invariant.
BootTypes ==
  /\ tried \in Seq(Kernels)
  /\ boot \in [data : KernelFile, entry : KernelFile, tables : KernelFile, linked : KernelFile,
              symtab : KernelFile, strtab : KernelFile,
              segments : Seq([of : Kernels, at : Nat]), modules : Seq(Modules), loaded : BOOLEAN]
  /\ boot.loaded => boot.data \in Kernels
=============================================================================
