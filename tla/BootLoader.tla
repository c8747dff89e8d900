----------------------------- MODULE BootLoader -----------------------------
(***************************************************************************)
(* BootLoader of module/loader.rs, the library's other loader: it keeps    *)
(* the kernel's segments and plans a map of memory for them and for the    *)
(* modules. A kernel is read front to back into the fields, and an error   *)
(* leaves what has been read in place.                                     *)
(***************************************************************************)
EXTENDS Integers, Sequences

CONSTANTS
  Top, KernBase, KernelPhys,  \* as in ModuleLoader
  PageSize,     \* PAGE_SIZE
  NoFile        \* no file has been read

VARIABLE boot   \* the file each field is of; segments and modules are sequences

Init ==
  boot = [data |-> NoFile,     \* kernel_data
          entry |-> NoFile,    \* kernel_entry, kernel_btext and kernel_elfhdr
          tables |-> NoFile,   \* kernel_shdr and kernel_dynamic
          linked |-> NoFile,   \* virt_delta
          symtab |-> NoFile, strtab |-> NoFile,
          segments |-> <<>>, modules |-> <<>>,
          loaded |-> FALSE]    \* the last load succeeded (history)

\* Linked at KERNBASE, but below where the kernel is put.
BelowBase(s) == s.vaddr >= KernBase /\ s.vaddr < KernBase + KernelPhys

\* The segments before the first that is refused.
Taken(f) == {i \in DOMAIN f.segments :
               \A j \in 1 .. i : f.segments[j].inside /\ ~BelowBase(f.segments[j])}

\* virt_delta: the segment's own address cancels out.
Delta(f) ==
  IF f.segments = <<>> THEN 0
  ELSE IF f.segments[1].vaddr < KernBase THEN Top - KernelPhys ELSE KernBase

Refused(f) ==
  IF ~f.elf THEN [boot EXCEPT !.data = f, !.loaded = FALSE]
  ELSE [boot EXCEPT !.data = f, !.loaded = FALSE, !.entry = f, !.tables = NoFile,
                    !.segments = @ \o [i \in Taken(f) |-> [of |-> f, at |-> i]]]

AcceptedKeepTables(f) ==
  [Refused(f) EXCEPT !.loaded = TRUE, !.linked = f,
     !.tables = IF f.header THEN f ELSE boot.tables,
     !.symtab = IF f.symbols # <<>> THEN f ELSE @,
     !.strtab = IF f.symbols # <<>> /\ f.strings THEN f ELSE @]

\* Either half of the symbol table is kept if the kernel has none to use.
Accepted(f) ==
  [Refused(f) EXCEPT !.loaded = TRUE, !.linked = f,
     !.tables = IF f.header THEN f ELSE @,
     !.symtab = IF f.symbols # <<>> THEN f ELSE @,
     !.strtab = IF f.symbols # <<>> /\ f.strings THEN f ELSE @]

LoadKernel(f) ==
  boot' = IF f.elf /\ Taken(f) = DOMAIN f.segments THEN Accepted(f) ELSE Refused(f)

AddModule(f) == boot' = [boot EXCEPT !.modules = Append(@, f)]

\* build_memory_map from address 0, and total_memory_needed.
RoundUp(n) == ((n + PageSize - 1) \div PageSize) * PageSize
Sizes ==
  [i \in DOMAIN boot.segments |-> RoundUp(boot.segments[i].of.segments[boot.segments[i].at].size)]
    \o [i \in DOMAIN boot.modules |-> RoundUp(Len(boot.modules[i].data))]
\* Added(s)[n]: the first n of them.
Added(s) ==
  LET sum[n \in 0 .. Len(s)] == IF n = 0 THEN 0 ELSE sum[n - 1] + s[n]
  IN sum
Sum(s) == Added(s)[Len(s)]
MemoryMap ==
  LET at[i \in DOMAIN Sizes] == IF i = 1 THEN 0 ELSE at[i - 1] + Sizes[i - 1]
  IN [i \in DOMAIN Sizes |-> [at |-> at[i], size |-> Sizes[i]]]
TotalMemoryNeeded == Sum(Sizes)
=============================================================================
