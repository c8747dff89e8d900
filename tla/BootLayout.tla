---------------------------- MODULE BootLayout ----------------------------
(***************************************************************************)
(* The physical memory plan of "zjudo boot": where boot() of               *)
(* src/cli/commands.rs puts the boot block, the kernel, every module, the  *)
(* preload bundle and the loader metadata, and the kexec segments it makes *)
(* of them.  The steps are those of boot() from the choice of the staging  *)
(* base to the finished kexec plan; each one may fail, which ends the run. *)
(*                                                                         *)
(* Two files are read more than once and belong to somebody else: the      *)
(* kernel image (once for the layout, once for the segments) and           *)
(* /proc/iomem (once for the staging base, once for the regions).          *)
(* ReplaceKernel and IomemChanges are their other writers.                 *)
(***************************************************************************)
EXTENDS PhysicalMemory, Sequences

CONSTANTS
  Word,            \* alignment of the parts of the preload bundle
  BootPhysBase,    \* BOOT_PHYS_BASE, offset of the boot block from staging
  KernelPhysBase,  \* KERNEL_PHYS_BASE, offset of the kernel from staging
  KexecAlign,      \* KEXEC_ALIGN, alignment of the staging base
  KexecHoleSize,   \* KEXEC_HOLE_SIZE, room asked for at the staging base
  OffsetMax,       \* u32::MAX, largest offset the btext frame can carry
  SegmentMax,      \* KEXEC_SEGMENT_MAX
  MaxIterations,   \* passes of the metadata fix-point loop
  BootLen,         \* bytes of the boot block
  RecordLen,       \* bytes the MODULEP and the KERNEND records take, each
  Window           \* bytes the trampoline's page tables map from KERNBASE

CONSTANTS          \* what the run is given
  RegionLists,     \* possible contents of /proc/iomem: available regions
  KernelFiles,     \* kernel images: sets of PT_LOADs [off, filesz, memsz]
  ModuleLists,     \* sequences of module file lengths
  PartSizes,       \* lengths of symbol, environment and font blocks, 0: none
  MetaSizes,       \* metadata bytes other than MODULEP and KERNEND
  MaxChanges       \* bound: foreign writes to the kernel file or to iomem

PtLoad == [off : Nat, filesz : Nat, memsz : Nat]

ASSUME SizesAssumption ==
  /\ Word \in Nat \ {0} /\ KexecAlign \in Nat \ {0}
  /\ BootPhysBase \in Nat /\ KernelPhysBase \in Nat \ {0}
  /\ KernelPhysBase % Page = 0 /\ KexecHoleSize \in Nat
  /\ OffsetMax \in Nat /\ SegmentMax \in Nat /\ MaxIterations \in Nat \ {0, 1}
  /\ BootLen \in Nat \ {0} /\ RecordLen \in Nat \ {0}
  /\ Window \in Nat /\ MaxChanges \in Nat

\* The boot block (code, stack, descriptor tables, nine page-table pages) is
\* far smaller than the gap of 1 MiB that BOOT_PHYS_BASE leaves it.
ASSUME BootBlockAssumption ==
  BootPhysBase + AlignUp(BootLen, Page) <= KernelPhysBase

\* 1 MiB and 2 MiB: whole pages.
ASSUME PagesAssumption == BootPhysBase % Page = 0 /\ KexecAlign % Page = 0

ASSUME InputsAssumption ==
  /\ RegionLists \subseteq Seq(Region)
  /\ \A f \in KernelFiles : f \subseteq PtLoad
  /\ ModuleLists \subseteq Seq(Nat)
  /\ PartSizes \subseteq [symtab : Nat, env : Nat, font : Nat]
  /\ MetaSizes \subseteq Nat \ {0}

VARIABLES
  pc,          \* the next step of boot()
  iomem,       \* what /proc/iomem would show now
  kernelFile,  \* what the kernel path holds now
  changes,     \* foreign writes so far
  files,       \* the module lengths, in loader order
  parts,       \* lengths of the blocks of the preload bundle
  metaSize,    \* size of the metadata without its late records
  staging,     \* staging_base
  regions,     \* available_regions
  kernelEnd,   \* kernel_image_end
  addr,        \* phys_addr of the modules placed so far, in loader order
  cursor,      \* current_addr, then modulep_start
  bundle,      \* phys_addr of the preload bundle, 0: none
  meta,        \* the metadata block: its length and late records
  modulep,     \* phys_addr of the metadata block
  kernend,     \* kernend
  iteration,   \* passes of the fix-point loop done
  segments     \* the kexec plan, a sequence of [kind, mem, memsz, bufsz]

given == <<files, parts, metaSize>>
foreign == <<iomem, kernelFile, changes>>
plan == <<staging, regions, kernelEnd, addr, cursor, bundle>>
loop == <<meta, modulep, kernend, iteration>>
vars == <<pc, foreign, given, plan, loop, segments>>

Steps == {"staging", "regions", "layout", "modules", "preload", "build",
          "iterate", "assemble", "segments", "planned", "failed"}
---------------------------------------------------------------------------
(* The kernel image. *)

BadKernelEmptyOnly(file) == file = {}

\* Both readers of the program headers refuse these images.
BadKernel(file) == file = {} \/ \E ph \in file : ph.off < KernelPhysBase

\* max_end, the end of the highest PT_LOAD, page aligned.
IsMaxEnd(file, e) ==
  /\ \E ph \in file : e = AlignUp(ph.off + ph.memsz, Page)
  /\ \A ph \in file : AlignUp(ph.off + ph.memsz, Page) <= e

KernelPhys == staging + KernelPhysBase
---------------------------------------------------------------------------
(* The preload bundle: every part starts on a Word and is padded to one. *)

EnvOffset == AlignUp(parts.symtab, Word)
FontOffset == EnvOffset + AlignUp(parts.env, Word)
BundleLen == FontOffset + AlignUp(parts.font, Word)

(* The metadata block.  The MODULEP and KERNEND records are left out while *)
(* their value is 0, as in the first build.                                *)
Late(v) == IF v = 0 THEN 0 ELSE RecordLen
Metadata(modulepOff, kernendOff) ==
  [len |-> metaSize + Late(modulepOff) + Late(kernendOff),
   modulep |-> modulepOff, kernend |-> kernendOff]
---------------------------------------------------------------------------
Init ==
  /\ pc = "staging"
  /\ iomem \in RegionLists /\ kernelFile \in KernelFiles /\ changes = 0
  /\ files \in ModuleLists /\ parts \in PartSizes
  /\ metaSize \in MetaSizes
  /\ staging = 0 /\ regions = <<>> /\ kernelEnd = 0
  /\ addr = <<>> /\ cursor = 0 /\ bundle = 0
  /\ meta = [len |-> 0, modulep |-> 0, kernend |-> 0]
  /\ modulep = 0 /\ kernend = 0 /\ iteration = 0
  /\ segments = <<>>

Fail ==
  /\ pc' = "failed"
  /\ UNCHANGED <<given, plan, loop, segments>>

(* find_first_available_region(KEXEC_ALIGN, KEXEC_HOLE_SIZE) *)
RoomyUnaligned(r) == r.end - r.start + 1 >= KexecHoleSize

Roomy(r) ==
  LET s == AlignUp(r.start, KexecAlign)
  IN  s <= r.end /\ r.end - s + 1 >= KexecHoleSize

FindStaging ==
  /\ pc = "staging"
  /\ \/ \E i \in DOMAIN iomem :
          /\ Roomy(iomem[i]) /\ \A j \in 1 .. i - 1 : ~Roomy(iomem[j])
          /\ staging' = AlignUp(iomem[i].start, KexecAlign)
          /\ pc' = "regions"
          /\ UNCHANGED <<given, regions, kernelEnd, addr, cursor, bundle,
                         loop, segments>>
     \/ (\A i \in DOMAIN iomem : ~Roomy(iomem[i])) /\ Fail
  /\ UNCHANGED foreign

(* get_available_ram_regions, a second read of /proc/iomem *)
ReadRegions ==
  /\ pc = "regions"
  /\ regions' = iomem
  /\ pc' = "layout"
  /\ UNCHANGED <<foreign, given, staging, kernelEnd, addr, cursor, bundle,
                 loop, segments>>

ComputeKernelLayout ==
  /\ pc = "layout"
  /\ \/ /\ ~BadKernel(kernelFile)
        /\ \E ph \in kernelFile :
             LET e == AlignUp(ph.off + ph.memsz, Page)
             IN  /\ IsMaxEnd(kernelFile, e)
                 /\ kernelEnd' = staging + e
                 /\ cursor' = staging + e
        /\ pc' = "modules"
        /\ UNCHANGED <<given, staging, regions, addr, bundle, loop, segments>>
     \/ BadKernel(kernelFile) /\ Fail
  /\ UNCHANGED foreign

AfterModuleIgnoringGaps(a, size) == cursor + size

\* current_addr for what follows a module at address a.
AfterModule(a, size) == a + size

(* One turn of the loop of assign_module_addresses; the last turn leaves   *)
(* the loop with current_addr as the place where the rest may start.       *)
AssignModule ==
  LET size == AlignUp(files[Len(addr) + 1], Page) IN
  /\ pc = "modules" /\ Len(addr) < Len(files)
  /\ \/ \E i \in DOMAIN regions :
          /\ FirstFit(i, cursor, size, regions)
          /\ addr' = Append(addr, FirstPage(regions[i], cursor))
          /\ cursor' = AfterModule(FirstPage(regions[i], cursor), size)
          /\ UNCHANGED <<pc, given, staging, regions, kernelEnd, bundle, loop,
                         segments>>
     \/ NoFit(cursor, size, regions) /\ Fail
  /\ UNCHANGED foreign

ModulesAssigned ==
  /\ pc = "modules" /\ Len(addr) = Len(files)
  /\ pc' = "preload"
  /\ UNCHANGED <<foreign, given, plan, loop, segments>>

AfterPreloadForgotten(b) == cursor

\* preload_segments_end
AfterPreload(b) == AlignUp(b + BundleLen, Page)

(* build_preload_segments and preload_segments_end *)
BuildPreload ==
  /\ pc = "preload"
  /\ \/ /\ BundleLen = 0
        /\ pc' = "build"
        /\ UNCHANGED <<given, plan, loop, segments>>
     \/ /\ BundleLen > 0
        /\ \E i \in DOMAIN regions :
             /\ FirstFit(i, cursor, BundleLen, regions)
             /\ bundle' = FirstPage(regions[i], cursor)
             /\ cursor' = AfterPreload(FirstPage(regions[i], cursor))
        /\ pc' = "build"
        /\ UNCHANGED <<given, staging, regions, kernelEnd, addr, loop, segments>>
     \/ BundleLen > 0 /\ NoFit(cursor, BundleLen, regions) /\ Fail
  /\ UNCHANGED foreign

(* build_modulep_info before its loop: every address the metadata will     *)
(* carry must be at or above staging; the first build has neither MODULEP  *)
(* nor KERNEND.                                                            *)
BuildMetadata ==
  /\ pc = "build"
  /\ \/ /\ \A i \in DOMAIN addr : addr[i] >= staging
        /\ bundle = 0 \/ bundle >= staging
        /\ meta' = Metadata(0, 0)
        /\ pc' = "iterate"
        /\ UNCHANGED <<given, plan, modulep, kernend, iteration, segments>>
     \/ /\ \/ \E i \in DOMAIN addr : addr[i] < staging
           \/ bundle # 0 /\ bundle < staging
        /\ Fail
  /\ UNCHANGED foreign

(* One pass of the loop of build_modulep_info: reserve room for the block  *)
(* as last built, then build it again with the offsets that follow.  The   *)
(* loop ends when the length stands still, or after MaxIterations passes.  *)
MetaSpace == AlignUp(meta.len, Page)

LoopEndsAtOnce(len) == TRUE
LoopEnds(len) == len = meta.len \/ iteration + 1 = MaxIterations

ModulepIteration ==
  /\ pc = "iterate"
  /\ \/ \E i \in DOMAIN regions :
          LET phys == FirstPage(regions[i], cursor)
              end  == phys + MetaSpace
              next == Metadata(phys - staging, end - KernelPhys)
          IN  /\ FirstFit(i, cursor, MetaSpace, regions)
              /\ phys >= staging /\ end >= KernelPhys
              /\ phys - staging <= OffsetMax /\ end - KernelPhys <= OffsetMax
              /\ modulep' = phys /\ kernend' = end /\ meta' = next
              /\ iteration' = iteration + 1
              /\ pc' = IF LoopEnds(next.len) THEN "assemble" ELSE "iterate"
              /\ UNCHANGED <<given, plan, segments>>
     \/ /\ \A i \in DOMAIN regions :
             FirstFit(i, cursor, MetaSpace, regions) =>
               LET phys == FirstPage(regions[i], cursor)
                   end  == phys + MetaSpace
               IN  \/ phys < staging \/ end < KernelPhys
                   \/ phys - staging > OffsetMax
                   \/ end - KernelPhys > OffsetMax
        /\ Fail
  /\ UNCHANGED foreign

(* generate_kboot_trampoline refuses a zero address and offsets that do    *)
(* not fit the 32-bit fields of the btext frame.                           *)
Assemble ==
  /\ pc = "assemble"
  /\ \/ /\ staging # 0
        /\ modulep - staging <= OffsetMax /\ kernend - KernelPhys <= OffsetMax
        /\ pc' = "segments"
        /\ UNCHANGED <<given, plan, loop, segments>>
     \/ /\ \/ staging = 0
           \/ modulep - staging > OffsetMax \/ kernend - KernelPhys > OffsetMax
        /\ Fail
  /\ UNCHANGED foreign

Segment(kind, mem, len) ==
  [kind |-> kind, mem |-> mem, memsz |-> AlignUp(len, Page), bufsz |-> len]

ModuleSegments == [i \in DOMAIN addr |-> Segment("module", addr[i], files[i])]

BootSegments == <<Segment("boot", staging + BootPhysBase, BootLen)>>
BlockSegments ==
  ModuleSegments
  \o <<Segment("modulep", modulep, meta.len)>>
  \o (IF BundleLen = 0 THEN <<>> ELSE <<Segment("bundle", bundle, BundleLen)>>)

\* The segments whose range must be available.
Enforced == BootSegments \o BlockSegments

\* The data of a PT_LOAD must end inside the kernel block.
KernelBlockFits(file, e) ==
  \A ph \in file : ph.off + ph.filesz <= AlignUp(e - KernelPhysBase, Page) + KernelPhysBase

\* A kernel range outside the available regions is only warned about.
PrepareKexecSegments ==
  /\ pc = "segments"
  /\ \/ /\ \A k \in DOMAIN Enforced :
             InRegions(Enforced[k].mem, Enforced[k].memsz, regions)
        /\ Len(Enforced) + 1 <= SegmentMax
        /\ ~BadKernel(kernelFile)
        /\ \E ph \in kernelFile :
             LET e == AlignUp(ph.off + ph.memsz, Page)
             IN  /\ IsMaxEnd(kernelFile, e)
                 /\ KernelBlockFits(kernelFile, e)
                 /\ segments' = BootSegments
                      \o <<Segment("kernel", KernelPhys, e - KernelPhysBase)>>
                      \o BlockSegments
        /\ pc' = "planned"
        /\ UNCHANGED <<given, plan, loop>>
     \/ /\ \/ \E k \in DOMAIN Enforced :
                ~InRegions(Enforced[k].mem, Enforced[k].memsz, regions)
           \/ Len(Enforced) + 1 > SegmentMax
           \/ BadKernel(kernelFile)
           \/ \E ph \in kernelFile :
                LET e == AlignUp(ph.off + ph.memsz, Page)
                IN  IsMaxEnd(kernelFile, e) /\ ~KernelBlockFits(kernelFile, e)
        /\ Fail
  /\ UNCHANGED foreign
---------------------------------------------------------------------------
(* The other writers of the files boot() reads, while it still reads them. *)

Running == pc \notin {"planned", "failed"}

ReplaceKernel ==
  /\ Running /\ changes < MaxChanges
  /\ kernelFile' \in KernelFiles \ {kernelFile}
  /\ changes' = changes + 1
  /\ UNCHANGED <<pc, iomem, given, plan, loop, segments>>

IomemChanges ==
  /\ Running /\ changes < MaxChanges
  /\ iomem' \in RegionLists \ {iomem}
  /\ changes' = changes + 1
  /\ UNCHANGED <<pc, kernelFile, given, plan, loop, segments>>

Done == ~Running /\ UNCHANGED vars

Boot ==
  \/ FindStaging \/ ReadRegions \/ ComputeKernelLayout
  \/ AssignModule \/ ModulesAssigned \/ BuildPreload
  \/ BuildMetadata \/ ModulepIteration \/ Assemble \/ PrepareKexecSegments

Next == Boot \/ ReplaceKernel \/ IomemChanges \/ Done

Spec == Init /\ [][Next]_vars
---------------------------------------------------------------------------
SegmentType == [kind : {"boot", "module", "modulep", "bundle", "kernel"},
                mem : Nat, memsz : Nat, bufsz : Nat]

\* Type invariant.
TypeOK ==
  /\ pc \in Steps
  /\ iomem \in RegionLists /\ kernelFile \in KernelFiles /\ changes \in 0 .. MaxChanges
  /\ files \in ModuleLists /\ parts \in PartSizes
  /\ metaSize \in MetaSizes
  /\ staging \in Nat /\ regions \in Seq(Region) /\ kernelEnd \in Nat
  /\ addr \in Seq(Nat) /\ Len(addr) <= Len(files)
  /\ cursor \in Nat /\ bundle \in Nat
  /\ meta \in [len : Nat, modulep : Nat, kernend : Nat]
  /\ modulep \in Nat /\ kernend \in Nat /\ iteration \in 0 .. MaxIterations
  /\ segments \in Seq(SegmentType)

End(s) == s.mem + s.memsz
Planned == pc = "planned"
Kernels == {k \in DOMAIN segments : segments[k].kind = "kernel"}

\* The image the segments were made from is no larger than the one the
\* layout was computed from.
KernelNotGrown == \A k \in Kernels : End(segments[k]) <= kernelEnd

\* No two segments of a finished plan share a byte (Linux refuses such a
\* list, and an overlap would mix two images), as long as the kernel file did
\* not grow between the layout and the segments.
SegmentsDisjoint ==
  Planned /\ KernelNotGrown =>
    \A a, b \in DOMAIN segments :
      a # b => \/ End(segments[a]) <= segments[b].mem
               \/ End(segments[b]) <= segments[a].mem

\* kernend is the address from which the booted kernel takes memory for its
\* own use: no segment may reach beyond it.
KernendAboveSegments ==
  Planned /\ KernelNotGrown =>
    \A k \in DOMAIN segments : End(segments[k]) <= kernend

\* Every byte of a segment is a byte of an available region.
OnRam(s) ==
  \A b \in s.mem .. End(s) - 1 :
    \E i \in DOMAIN regions : regions[i].start <= b /\ b <= regions[i].end

\* The hole that find_first_available_region asked for holds the kernel: if
\* /proc/iomem and the kernel file stood still and the kernel is not larger
\* than the hole, the kernel range, which is not enforced later, is RAM.
KernelInRam ==
  Planned /\ changes = 0 /\ kernelEnd <= staging + KexecHoleSize =>
    \A k \in Kernels : OnRam(segments[k])

\* Every other segment starts on a page, is not empty, has room for its data
\* and lies in RAM as of the second read of /proc/iomem.
SegmentsOnRamPages ==
  Planned => \A k \in DOMAIN segments \ Kernels :
    /\ segments[k].mem % Page = 0
    /\ segments[k].bufsz > 0 /\ segments[k].bufsz <= segments[k].memsz
    /\ OnRam(segments[k])

\* The metadata that is loaded describes the plan it is loaded with: its own
\* place, the kernel end passed in the frame, no page beyond the ones reserved
\* for it (the fix-point loop has converged), and, unless the kernel file was
\* replaced, the size of the kernel block.
MetadataDescribesPlan ==
  Planned =>
    /\ meta.modulep + staging = modulep
    /\ meta.kernend + KernelPhys = kernend
    /\ modulep + MetaSpace = kernend
    /\ changes = 0 => \A k \in Kernels : segments[k].memsz = kernelEnd - KernelPhys
---------------------------------------------------------------------------
\* Comment in build_modulep_info: the staging-relative addresses become
\* kernel addresses that the trampoline's KERNBASE mapping covers.
MetadataMapped ==
  Planned =>
    /\ \A i \in DOMAIN addr : addr[i] + files[i] - staging <= Window
    /\ BundleLen > 0 => bundle + BundleLen - staging <= Window
    /\ modulep + meta.len - staging <= Window

(* What it takes: no RAM behind the window. WindowInv is the inductive     *)
(* invariant behind it: all of it lies below kernend, and that is in RAM.  *)
RamInWindow == \A i \in DOMAIN regions : regions[i].end < staging + Window

WindowInv ==
  /\ pc \in {"assemble", "segments", "planned"} => \E i \in DOMAIN regions : kernend <= regions[i].end + 1
  /\ Planned =>
       /\ \A i \in DOMAIN addr : addr[i] + files[i] <= kernend
       /\ BundleLen > 0 => bundle + BundleLen <= kernend
       /\ modulep + meta.len <= kernend
---------------------------------------------------------------------------
(* What the plan promises: blocks are reserved one above the other.  The   *)
(* metadata block counts as reserved once its room fits its length.        *)

Block(mem, end) == [mem |-> mem, len |-> end - mem]
MetaPlaced == kernend # 0 /\ modulep + MetaSpace = kernend

Blocks ==
  (IF kernelEnd = 0 THEN {} ELSE {Block(KernelPhys, kernelEnd)})
  \union {Block(addr[i], addr[i] + AlignUp(files[i], Page)) : i \in DOMAIN addr}
  \union (IF bundle = 0 THEN {} ELSE {Block(bundle, AlignUp(bundle + BundleLen, Page))})
  \union (IF MetaPlaced THEN {Block(modulep, kernend)} ELSE {})

Top == IF MetaPlaced THEN kernend ELSE cursor

Bump == INSTANCE BumpLayout WITH blocks <- Blocks, top <- Top

\* The planning steps are reservations of a bump allocator.
ImplementsBump == Bump!Spec
---------------------------------------------------------------------------
(* The inductive invariant behind SegmentsDisjoint, KernendAboveSegments   *)
(* and MetadataDescribesPlan: what each step of boot() may rely on.        *)

LayoutDone == pc \in {"modules", "preload", "build", "iterate", "assemble", "segments"}
BundleDone == pc \in {"build", "iterate", "assemble", "segments"}
LoopDone == pc \in {"assemble", "segments"}

ModuleEnd(i) == addr[i] + AlignUp(files[i], Page)

\* The kernel is at the bottom; modules follow in loader order below cursor.
ModulesStacked ==
  /\ pc \in {"staging", "regions", "layout"} => addr = <<>>
  /\ LayoutDone =>
       /\ KernelPhys <= kernelEnd /\ kernelEnd <= cursor
       /\ \A i \in DOMAIN addr : kernelEnd <= addr[i] /\ ModuleEnd(i) <= cursor
       /\ \A i, j \in DOMAIN addr : i < j => ModuleEnd(i) <= addr[j]

\* The bundle lies between the modules and cursor.
BundleStacked ==
  BundleDone /\ BundleLen > 0 =>
    /\ kernelEnd <= bundle /\ bundle + AlignUp(BundleLen, Page) <= cursor
    /\ \A i \in DOMAIN addr : ModuleEnd(i) <= bundle

\* Between two passes the metadata is what the last pass made of its offsets;
\* after the loop it also fits the room that was reserved for it.
MetadataStacked ==
  /\ pc = "iterate" /\ iteration = 0 => meta = Metadata(0, 0)
  /\ (pc = "iterate" /\ iteration > 0) \/ LoopDone =>
       /\ staging < modulep /\ KernelPhys < kernend
       /\ meta = Metadata(modulep - staging, kernend - KernelPhys)
  /\ LoopDone => cursor <= modulep /\ modulep + MetaSpace = kernend

\* The layout knows the size of the kernel that is still in place.
KernelCurrent ==
  LayoutDone /\ changes = 0 =>
    ~BadKernel(kernelFile) /\ IsMaxEnd(kernelFile, kernelEnd - staging)

PlanGood ==
  SegmentsDisjoint /\ KernendAboveSegments /\ MetadataDescribesPlan

LayoutInv ==
  ModulesStacked /\ BundleStacked /\ MetadataStacked /\ KernelCurrent /\ PlanGood
---------------------------------------------------------------------------
(* The inductive invariant behind SegmentsOnRamPages and KernelInRam.      *)

OnPage(a) == \E q \in Nat : a = q * Page

\* Every address the plan hands out is the start of a page.
PlanPaged ==
  /\ OnPage(staging) /\ OnPage(bundle) /\ OnPage(modulep)
  /\ \A i \in DOMAIN addr : OnPage(addr[i])

\* As long as nobody changed anything, the hole of the first read is still
\* there and the second read found the same regions.
HoleKept ==
  changes = 0 /\ (pc \in {"regions", "layout"} \/ LayoutDone) =>
    \E i \in DOMAIN iomem :
      iomem[i].start <= staging /\ staging + KexecHoleSize - 1 <= iomem[i].end

RegionsCurrent == changes = 0 /\ (pc = "layout" \/ LayoutDone) => regions = iomem

RamInv == PlanPaged /\ HoleKept /\ RegionsCurrent /\ SegmentsOnRamPages /\ KernelInRam
---------------------------------------------------------------------------
(* The inductive invariant behind ImplementsBump. *)

Surveying == pc \in {"staging", "regions", "layout"}

\* What has no place yet is 0 or empty.
PlacedInOrder ==
  /\ Surveying => kernelEnd = 0 /\ cursor = 0
  /\ LayoutDone => kernelEnd > 0
  /\ Surveying \/ pc \in {"modules", "preload"} => bundle = 0
  /\ Surveying \/ pc \in {"modules", "preload", "build"} => kernend = 0
  /\ pc = "iterate" /\ iteration = 0 => kernend = 0

\* Between two passes the metadata has the place the last pass found for the
\* room it asked for, so a pass that asks for the same room moves nothing.
PlaceStands ==
  pc = "iterate" /\ iteration > 0 =>
    \E i \in DOMAIN regions :
      /\ FirstFit(i, cursor, kernend - modulep, regions)
      /\ modulep = FirstPage(regions[i], cursor)

BumpInv == PlacedInOrder /\ PlaceStands
============================================================================
