# A verification of zjudo

zjudo boots FreeBSD from a running Linux: it reads a FreeBSD kernel, modules and
a memory file system, plans where each goes in physical memory, builds the
metadata a FreeBSD loader would hand over, generates a trampoline in machine
code, loads everything with `kexec_load`, takes every CPU but one offline and
reboots into the image. This directory holds a model of that in TLA+, the
configurations that check it with TLC and the theorems TLAPS proves about it.
Paths below are relative to the repository's `src/`.

## 1. Inventory

| Part | State | Operations | Interacts with |
|---|---|---|---|
| `cli/commands.rs` `boot` | the plan: staging base, regions, kernel end, module addresses, preload bundle, metadata, segments | one pass from privileges to reboot, any error ends it | everything below |
| `cli/commands.rs` `load`, `unload`, `info`, `test`, `list`, `config` | none of their own | one command per process | kexec slot (`unload`, `info`, `test`) |
| `system/memory.rs` | none; reads `/proc/iomem` each time | parse, subtract reserved ranges, first fit | `boot` |
| `system/kexec.rs` | the kernel's single image slot | load, unload, probe, reboot | other zjudo processes |
| `system/smp.rs` | the online state of each CPU, in sysfs | offline every secondary CPU, with a bounded poll | CPU hotplug |
| `module/metadata.rs` | the `modulep` block | build records, patch the modules' modmetadata | `boot`, the booted kernel |
| `module/mod.rs` | kernel and modules read so far | load kernel, modules and raw files, choose the entry | `boot` |
| `module/loader.rs` | kernel, its segments, modules | the library's second loader: load, add a module, plan a map of memory | integration tests |
| `module/dependency.rs` | modules, edges, in-degrees | add, order, closures, cycle test | public API, tests |
| `boot/assembler.rs` | code and data of the boot block | generate the trampoline | runs after the reboot, on the bare machine |
| `system/sysinfo.rs` | none | collect framebuffer, SMAP, EFI map and tables | `boot` |
| `system/bootdev.rs` | none; reads `/proc/cmdline`, runs `zpool` | find the device Linux booted from | `boot` |
| `zfs/mod.rs` | none; runs `zpool` and `zfs`, one process per property | bootonce data set, pools, encryption | `boot`, FreeBSD's own use of `bootonce-used` |
| `elf/`, `font/`, `cli/args.rs`, `error.rs`, `types.rs` | none | decoding and encoding | all |

What makes it hard: two system files and the kernel image are read more than once while
others may write them; the metadata's size and its address depend on each other; one image
slot and one set of CPUs are shared by every process; the trampoline overwrites the memory it
runs from; the EFI map has three sources that disagree; module data is patched in place while
it is being read; the pools' properties are read one by one, can change or fail to be read in
between, and whether FreeBSD came up shows only in a property it may not have set.

What makes each part correct:

* **Memory plan.** Segments do not overlap, lie in free RAM on whole pages, and the metadata
  describes the plan it is part of. The booted kernel takes memory from `kernend` upwards, so
  nothing may lie above it.
* **Available memory.** A byte is offered exactly if it is System RAM under no resource but the
  running kernel's image; the regions ascend, because every first-fit scan relies on it.
* **Memory table.** Whatever `boot` may put a segment into, the kernel is told of as RAM.
* **Root choice.** An unused bootonce is started once for each cause, the first one in pool order,
  every one in the end; what was chosen is what the kernel is told to mount.
* **Hand-over.** The image that starts runs alone on the boot CPU; a boot that nobody disturbs
  starts its own image; every command ends.
* **Trampoline.** The kernel is entered with the entry, page tables, segment and frame that
  were planned, although they are popped from the page the frame is then written to.
* **EFI map.** The copy fills the record's room exactly; the kernel sees the firmware's
  descriptors in order, or no map.
* **Module loaders.** What belongs to one kernel stays together, whatever failed before; each
  metadata entry is patched once and nothing else is touched; a failure stops there; repeated
  calls add up as they are known to.
* **Dependency graph.** An order respects every edge, a cycle is reported exactly if there is
  one, closures are exact, walks end.

## 2. Modules

| Module | Models | State | Actions and code |
|---|---|---|---|
| `PhysicalMemory` | `align_up`, `is_range_available`, the first-fit scans | none | operators, shared by the modules below |
| `Sublists` | the part of a list at some of its places, in its order | none | `Nth`, `Picked`, shared by `IomemRegions`, `EfiMap` and `DependencyGraph` |
| `BumpLayout` | abstract: blocks reserved one above the other, never moved | `blocks`, `top` | `Reserve` |
| `BootLayout` | the plan of `boot()` | `pc`; the two files `iomem`, `kernelFile`; `staging`, `regions`, `kernelEnd`, `addr`, `cursor`, `bundle`, `meta`, `modulep`, `kernend`; `segments` | one per step of `boot()`: `FindStaging`, `ReadRegions`, `ComputeKernelLayout`, `AssignModule`, `ModulesAssigned`, `BuildPreload`, `BuildMetadata`, `ModulepIteration`, `Assemble`, `PrepareKexecSegments`; `ReplaceKernel` and `IomemChanges` for the files' other writers |
| `IomemRegions` | `build_available_regions`, `subtract_ranges`, `find_free_memory_regions`, and `fetch_smap` as an operator on the same lines | the file's lines, `available`, `reserved`, the search | one per line read, reserved range, region and avoided range |
| `BootChoice` | a series of boots: the walk over the pools' bootonce properties, the boot device, `resolve_boot_cmdline`, `build_env_block` | each pool's properties, the walk, the choice, the line, the root; counters of what went wrong | one per command run or file read, `Boot`, `Fault`, a failed read of each; FreeBSD and the administrator outside |
| `Handoff` | `boot` from `kexec_load` on, `unload`, `info` and `test`, as concurrent processes | per process: command, step, CPU list, polls; the image slot, each CPU, the machine | one per system call or file access, plus `GoesOffline` and `Hotplug` |
| `PageTables` | the page tables in the boot block, and how a CPU walks them | none | `LowIdentity`, `HighWindow`, `Walk` |
| `Trampoline` | the generated code and data, executed | the block's bytes, registers, segment, CR3, serial port | one per group of instructions that reads or writes the block |
| `EfiMap` | the EFI map from `/sys` and `/dev/mem` to the record and the copy | what Linux shows; `info`, `records`, the scan, the copy | `Collect`, `ReadMem`, `ReadSysfs`, `ReadRuntime`, `Build`, `Scan`, `Place`, `Copy` |
| `ModuleLoader` | `module/mod.rs`: loading kernels, modules and raw files, patching modmetadata or not | the file each field is of; the modules' bytes; the patch loop | `LoadKernel`, `LoadModule`, and one per module, set and entry of a patch call |
| `BootLoader` | `module/loader.rs` | the file each field is of, segments, modules | `LoadKernel`, `AddModule`; the map of memory as an operator |
| `Loaders` | both loaders given the same files | those of the two | each load in lockstep, the patch call of the first |
| `DependencyGraph` | `module/dependency.rs`, with names added again, in debug and release builds | the two adjacency maps, in-degrees, queue, stack, visited | one per turn of each loop |

`BootLayout`, `EfiMap`, `Trampoline` and `Handoff` follow one another in `boot()` and are checked
separately. They meet in named quantities: `BootChoice` decides the line whose length is part of the bundle in `BootLayout`; `BootLayout` takes the regions as `IomemRegions`
builds them and hands `modulep`, `kernend` and `staging` to `Trampoline`; `EfiMap` hands it the
source, the destination and the length of the copy; `Handoff` sees all of it as the owner's image.

Data is abstracted to what the properties tell apart. In `BootLayout` a file is its lengths, in
`Handoff` an image is its owner, in `EfiMap` a descriptor is its origin and number, in
`ModuleLoader` a kernel file is what the code asks of it. `ModuleLoader` keeps the bytes of a module, since the set, its entries and
their strings may lie at any offset and be patched over one another, and `Trampoline` bytes, each
with the value it is a part of, because its hazard is which bytes overwrite which.

The named variants of an operator beside it (`FillShort` beside `Fill`, and so on) are mistakes
a change to the code could make; each breaks a property of the same module and is used by nothing else.

## 3. Runs

Every run finishes within two minutes; `DependencyGraph`, `ModuleLoader` and `IomemRegions` are the longest.

| Run | Shows |
|---|---|
| `BootLayout.cfg` | Over six memory maps, seven kernels, five module lists, three bundles and three metadata sizes, with one write to the kernel file or to iomem at any moment: `SegmentsDisjoint`, `KernendAboveSegments` (unless the kernel file grew in between), `KernelInRam` (unless a file changed or the kernel is larger than the hole), `SegmentsOnRamPages`, `MetadataDescribesPlan`; and that the plan implements `BumpLayout` (`ImplementsBump`). |
| `BootLayoutWindow.cfg` | violation, see 6 |
| `IomemRegions.cfg` | Every resource tree of four lines over five addresses: `AvailableExact`, regions ascending; `SmapCoversAvailable` for tables that are full and not; `SearchExact` for avoided ranges that ascend and start inside the region they cut. |
| `BootChoice.cfg` | Any series of boots with two pools, with two things going wrong at any moment (FreeBSD crashes, `boot` fails, a read fails, a property or a pool changes): `OnceForEachCause`, `WalkExact`, `RootReachesKernel`, `EachTried`. |
| `Handoff.cfg` | Two processes, four CPUs of which one has no online file, one hotplug event, every interleaving: `SingleCpuHandoff`, `Termination`; `ImageUntilReboot` when nobody else starts zjudo meanwhile. |
| `HandoffProbe.cfg` | violation, see 6 |
| `Trampoline.cfg` | Every combination of bases, offsets below, at and past the limits, sources and lengths, both Linux selectors that may be left in CS, with and without debug output: `HandsOver`, with the EFI map copied before, `Mapped`, `DebugTells`, `Starts`. |
| `TrampolineGdata.cfg` | violation, see 6 |
| `EfiMap.cfg` | Eleven sets of firmware parameters, or none, readable and unreadable memory, six sysfs maps and four runtime maps, or none, three shapes of the other records: `CopyInside` (the scan finds the record, the copy fills its room), `MapTrue` (never the runtime map). |
| `ModuleLoader.cfg` | Up to two kernels of six and two modules, good and broken, in any order, given to both loaders, and two patch calls: `OneKernel`, `PatchExact`, `StopsAtFailure`, `SuccessMeansInside`, `VersionsAddUp`, `LoadedIsLast`. |
| `DependencyGraph.cfg` | All graphs of three modules and three edges, built by calls, two of them for names already added, or from files, in either build, and every hash-map order: `OrderRespectsEdges` (and, while the two maps agree, no order exactly if there is a cycle), `ClosuresExact`, `MapsAgree`, `WalksEnd`. |
| `DependencyGraphBuilt.cfg` | violation, see 6 |

### Bounds

* `BootLayout`: a page is 4 units and the staging hole eight pages, so regions start and end
  inside pages, blocks fit exactly or fail by one, and a module list spans two regions. The first
  metadata pass leaves out two records, so every size puts the loop's boundary somewhere else;
  four passes are the code's own limit. One foreign write (`MaxChanges`) is enough to
  separate any two reads of a file that is read twice.
* `IomemRegions`: four lines of depth two hold a region with two nested resources, resources
  under resources, and a resource over two regions; five addresses give all ways two ranges meet.
  `MaxRows` = 2 for the table's 128: four lines fill it and run over it.
* `BootChoice`: two pools, whose bootonces may be the same data set, one spelt with its prefix or one with a
  space; `MaxWrong` = 2, because one failure can only repeat a start and two can hit
  the same pool in different boots. Linux was booted from ZFS or from a place it does not name.
* `Handoff`: two processes give two boots, or one and a command that disturbs it; the theorems cover any
  number. `PollLimit` is 2 for the code's 20: reached, and one below. One hotplug event (`MaxPlugs`).
* `Trampoline`: `Max32` stands for 2^32 - 1 and `CopyMax` for 128 KiB, with values at and just past
  each. `N` = 6 entries of a page table hold the two windows and what lies between; of the staging bases 0, 2
  and 24 the last is the first address the identity mapping does not reach.
* `EfiMap`: a table of 3 rows for 128 and a limit of 5 for 2,730, with maps of none, one, part of
  one, four and six rows, hence below, between and above the two; record names of several lengths modulo 8.
* `ModuleLoader`: bytes of one bit (`Base` = 2), and so words of 8 bits (`Top` = 256) and types of four, with KERNBASE at 192 so that sums
  wrap as they do at 64 and pages of 16 bytes (`PageSize`) so that sizes round; two patch calls to repeat one; release arithmetic
  (`OverflowChecks = FALSE`). The modules have entries of each type, one with a subtype, sets and entries at offsets that are no multiple of
  8, strings found, not found, empty, not UTF-8 (`NotUtf8`) and cut off by the end of the data, entries that overlap or are named
  twice, and pointers and sets that are null, end past the module, or wrap past the end of memory, in or out of the module again.
* `DependencyGraph`: `MaxAdds` = 3 edges over three names give two- and three-cycles, self loops
  and duplicates; `MaxReAdds` = 2 names are added again. Some of the lists of files name a module twice,
  with files that agree on the kernel or do not. What an edge leads to is defined as the least set closed
  under the edges, and a part of a list by `Picked`, so that the proofs can use both.

### Fairness

Safety needs none. `Termination` assumes that Linux runs each process that can run, nothing of
CPUs: they may refuse to go down for ever, and the polling is bounded. `WalksEnd` assumes that a
call that was started is carried out. `Starts` assumes that the CPU executes instructions, with
interrupts off and nothing else running, and that the serial port sends what it was given. `EachTried`
assumes that a boot in progress goes on, that FreeBSD comes up unless it is one of the two crashes,
and (strongly fair, since FreeBSD or another boot may be running at times) that somebody boots with
`--bootonce` and no command line again and again.

Deadlock is checked except where the program stops: in `Trampoline` it has jumped into the kernel,
in `EfiMap` the map has been delivered, and in `ModuleLoader` and `DependencyGraph` all calls have been made.

## 4. Proofs

Proved by TLAPS for every value of the constants that the named `ASSUME`s allow:

| Theorem | Says |
|---|---|
| `BootLayoutProofs!TypeCorrect` | the type invariant of the plan |
| `BootLayoutProofs!LayoutInvariant` | `LayoutInv`, from which the next three follow |
| `BootLayoutProofs!SegmentsNeverOverlap` | `SegmentsDisjoint` |
| `BootLayoutProofs!KernendIsAboveSegments` | `KernendAboveSegments` |
| `BootLayoutProofs!MetadataIsCurrent` | `MetadataDescribesPlan` |
| `BootLayoutProofs!RamInvariant` | `RamInv`, from which the next two follow |
| `BootLayoutProofs!SegmentsLieOnRamPages` | `SegmentsOnRamPages` |
| `BootLayoutProofs!KernelLiesInRam` | `KernelInRam` |
| `BootLayoutProofs!MappedUnlessRamIsHigh` | `MetadataMapped` as long as no RAM lies behind the window (6) |
| `BootLayoutProofs!BumpInvariant` | `BumpInv`, what the refinement rests on |
| `BootLayoutProofs!PlanImplementsBump` | `ImplementsBump`: `BootLayout` implements `BumpLayout` |
| `HandoffProofs!HandoffTypes` | the type invariant of the hand-over |
| `HandoffProofs!HandoffIsSingleCpu` | `SingleCpuHandoff`, for any number of processes and CPUs |
| `HandoffProofs!OwnImageUntilReboot` | `ImageUntilReboot` |
| `HandoffProofs!StepsAreCounted` | each step of a command leaves it fewer, and nobody else's step gives it more |
| `BootChoiceProofs!ChoiceTypes` | the type invariant of the choice |
| `BootChoiceProofs!OncePerCause` | `OnceForEachCause`, for any number of pools and of things going wrong |
| `BootChoiceProofs!WalkIsExact` | `WalkExact`, for any number of pools |
| `BootChoiceProofs!RootIsMounted` | `RootReachesKernel`, for any pools, command lines and roots |
| `BootChoiceProofs!BootsUseUp` | each undisturbed boot that asks the pools leaves fewer of them unused |
| `IomemProofs!AvailableIsExact` | `AvailableExact`, for any tree of resources |
| `IomemProofs!RegionsAreTyped` | the type invariant of regions and search |
| `IomemProofs!TableCoversRegions` | `SmapCoversAvailable`, for any tree and any length of the table, if `/sys/firmware/memmap` gives no rows |
| `IomemProofs!SearchIsExact` | `SearchExact`, for any size, alignment and avoided ranges |
| `ModuleLoaderProofs!LoaderTypes` | the type invariant of `module/mod.rs`: a byte stays a byte through every patch |
| `ModuleLoaderProofs!KernelIsOne` | `OneKernel` |
| `ModuleLoaderProofs!FailureStops` | `StopsAtFailure`, for any modules and any number of calls |
| `ModuleLoaderProofs!PatchIsExact` | `PatchExact`, in the middle of a call, at its end and where it fails |
| `ModuleLoaderProofs!SuccessIsInside` | `SuccessMeansInside` |
| `ModuleLoaderProofs!VersionsAreAddedUp` | `VersionsAddUp`, over any number of loads and calls |
| `ModuleLoaderProofs!LastIsLoaded` | `LoadedIsLast`, of both loaders |
| `ModuleLoaderProofs!BothLoadersLoad` | given the same files as the other, the loader of `module/mod.rs` does nothing it would not do alone |
| `ModuleLoaderProofs!BothLoadersKeep` | so the six above hold of the two together |
| `TrampolineProofs!WalkIsMeant` | the page tables, of any size and for any staging base, lead every address where it is meant to |
| `TrampolineProofs!BlockTypes` | the type invariant of the block, with where its stack is |
| `TrampolineProofs!AlwaysMapped` | `Mapped` |
| `TrampolineProofs!KernelIsHandedOver` | `HandsOver` |
| `TrampolineProofs!DebugIsTrue` | `DebugTells` |
| `TrampolineProofs!NoFaultBelowFourGigabytes` | a block that lies where the new tables map it to itself never faults |
| `EfiMapProofs!EfiTypes` | the type invariant of the EFI map |
| `EfiMapProofs!CopyLandsInside` | `CopyInside`, for any other records |
| `EfiMapProofs!KernelReadsFirmware` | `MapTrue`, for any firmware and any maps shown by Linux |
| `DependencyGraphProofs!GraphTypes` | the type invariant of the graph |
| `DependencyGraphProofs!OrderIsRight` | `OrderRespectsEdges`, for any graph and both builds |
| `DependencyGraphProofs!ClosuresAreExact` | `ClosuresExact` |
| `DependencyGraphProofs!MapsStayEqual` | `MapsAgree` |
| `DependencyGraphProofs!WalksShorten` | each turn of a loop leaves it fewer to come |

*The plan.* `SegmentsDisjoint` speaks of finished plans only, so it says nothing a step could rely
on. `LayoutInv` says what each step may: the modules are stacked on the kernel in loader order
below `cursor`, the bundle lies between them and `cursor`, and between two passes of the loop the metadata
is what the last pass made of its offsets; `KernelCurrent` ties the layout to the file while nobody
has written it. The step that makes the segments uses all parts at once, with the
boot block below the kernel (`BootBlockAssumption`: the block fits the gap `BOOT_PHYS_BASE` leaves
it; it is about 45 KiB, the gap 1 MiB). `SizesAssumption` asks for a page-aligned `KERNEL_PHYS_BASE` and more
than one pass. Nothing is assumed of the regions: a file with overlapping or
descending regions cannot make segments overlap, since each block starts at or above the cursor. The facts
about rounding are the first part of `BootLayoutProofs`.

*Where the plan lies.* `RamInv` adds that every address handed out is the start of a page
(`PlanPaged`; `PagesAssumption` says that `KEXEC_ALIGN` and `BOOT_PHYS_BASE`, 2 MiB and 1 MiB, are whole
pages), and that, as long as nobody wrote, the hole of the first read of `/proc/iomem` is a part of a region of
the second (`HoleKept`, `RegionsCurrent`). `SegmentsOnRamPages` then needs only the range checks of
`prepare_kexec_segments`, and so holds under every foreign write; a range check of an empty file
fails, which is why no segment is empty. `KernelInRam` has no check to rest on: it follows from
the hole, the unchanged regions and the kernel size that `MetadataDescribesPlan` ties to the layout.
`MetadataMapped` is not an invariant (6), and `WindowInv` says what keeps it from being one: all that is planned ends
at or below `kernend`, and `kernend` in a region. So a gap in the RAM is the only way out of the window.

*The refinement.* The abstract state is read off the concrete one: a block exists once its
address is set, and the metadata block once its room fits its length (`MetaPlaced`). The kernel, a module and the
bundle are each one `Reserve`; all else stutters, but for the loop: a pass may leave the
room too small (a stutter), make it fit (a `Reserve`), or run again after it fitted, because the loop
compares lengths and not pages. In the last case nothing may move: the pass asks for the same room, first fit
stops at the same region (`FirstFitUnique`), and `PlaceStands` says that is where the block already is.

*The hand-over.* `SingleCpuHandoff` is not inductive: `HandoffInv` adds that every secondary CPU is
off or still in the process's list from the moment the list was read (`ListedOrDown`), and that who is about to reboot has an
empty list. Other processes only take CPUs down, which keeps it true;
that is the argument why concurrent boots are harmless here. `SerialInv` adds that at most one process is active.
`StepsAreCounted` is the half of `Termination` that needs no fairness: `StepsLeft` bounds what a command has still to do by
the CPUs there are and the polls each may get. Its own steps lower it; other processes and hotplug may
change which step comes next, and never raise it. It assumes finitely many CPUs.

*The root.* That a data set was started once more than there are causes does not tell a step what it
may do. `OnceInv` says for each pool why the count is still low: no start has used up the last cause, or
FreeBSD has marked the bootonce (`Marked`), or is about to. `AskedInv` and `TakenInv` carry that through the two reads: the
pair of values read is either current or some cause has been counted since. `WalkInv`, behind `WalkExact`,
says that what an undisturbed walk has passed over is not unused, and the pool asked is the first of the rest.
`RootInv`, behind `RootReachesKernel`, follows the choice to the line and the line to the mounted root: the first `root=` of
Linux's own line that is not empty is one only, so the walk over the words stops there and nowhere else.
`StartedInv`, behind `BootsUseUp`, ties what FreeBSD finds when it comes up to the pool it was chosen from, so that marking it
removes that pool from `UnusedPools` and adds none; the exceptions are those of `EachTried`, a data set FreeBSD cannot be told of
and a boot that was disturbed.

*The available regions.* While the file is read (`ReadInv`) every line lies in the last root before it, roots ascend,
and so the RAM regions ascend and a reserved line, where there is RAM, is nested in it. While ranges are subtracted
(`SubtractInv`) a byte is free exactly if what is done or still to be done has it and no range to come covers it. That one
range taken from one region leaves ascending pieces without it is a lemma on `Pieces`. Nothing is assumed of the lines but
that Linux prints a tree. In a tree the lines ascend by their starts (`LinesAscend`), so a table that is full lacks only
what begins above its rows; the theorem needs `Readable = {}`, that the other file yields no row, which Linux's
prefixes see to (7). `SearchInv` says that nothing from `free_start` on lies in an avoided range already compared, and that every
free block of the size asked for has been offered, lies at or after `free_start`, or is in a region still to come; rounding a
region's start up then loses no aligned block.

*The module loader.* A number written is the number read: `WordOfBytes` and `BytesOfWord` prove it of the eight bytes of a word in any
base from 2 on, and `ByteAssumption` says that a word is eight of them. `LoaderTypes` needs that what a patch writes is a word: sums are
taken modulo `Top`, and the symbol a name resolves to exists, as the last of those with the name. The lemma `Greatest` gives it, from the
well-foundedness of `<`.
`Calling`, behind `FailureStops`, relates the modules to what they were when the call began at every point of it: those from
`m` on are marked as they were then, those after `m` are the same, and those below with a set are marked.
`PatchInv`, behind `PatchExact` and `SuccessMeansInside`, holds each module against what it was: the entries reached so far mean
what their type asks for, and every other byte is as it was. A step must disturb neither the entries before it nor those to come,
which is what `Separate` asks of the set: the eight bytes written for one entry are none of the sixteen of another, nor of the
string, with the zero that ends it, that another one is resolved by. Nothing is aligned. The code does not look for that; a
set that overlaps itself is patched as its order has it. `VersionsInv` counts instead: a version is what its file has,
moved by the sum of the offsets of the calls that ended, and by this call's once more for each pointer to it that has been followed,
modulo `Top`, unless it is or has become zero, which the code takes for none. A module that is not in
hand does not depend on the kernel at hand.
`BootInv`, behind `LastIsLoaded`, is about the other loader: its list of segments is as long as all loads together got,
failed ones included, the last kernel's lie at its end, and the tables come in pairs. The two loaders do not fail at the same points of a file; what they
then agree on is `SameKernel`. That the map of memory has no gap is a fact about its definition, two sums of the same terms.
`BothLoadersLoad` is a step
simulation: each step of the two is one of `ModuleLoader` or leaves its variables alone.

*The trampoline.* `WalkIsMeant` is a fact about the tables alone: `Contents` says what each of the nine pages holds at each entry, and the
walk is followed case by case. `AlwaysMapped` adds that CR3 is what the builder meant: `Stack` says where the stack pointer is at
each point of the block, and `Loaded` that the word CR3 is popped from holds the address of the tables, whatever has been pushed before.
`HandsOver` follows the words themselves: `Parameters` says that each lies where it will be popped from until it has been,
`Switched` that the entry and the kernel's end survive under everything pushed in between, and `Framed` that the frame, once pushed, stays
above what the debug output pushes. `Told`, behind `DebugTells`, says of each part of the output that it was what is handed over.
`Returns`, behind `NoFaultBelowFourGigabytes`, says of both returns that the selector and the address popped are those pushed, although
the first writes into the segment table it is about to load CS from; the tables then lead the next instruction to itself (`RunsOnLow`).

*The EFI map.* `FetchInv` says what `info` holds of which source at each step, `FindInv` that the scan is at the start of a record and has
not passed that of the map, `JobInv` and `SeenInv` what was ordered and what came of it. The writer and the scan advance by
different code (`AlignUp` of a running offset, and of a header's length); that both visit the same places is an induction
over the records. A map larger than both the limit of the copy and the table is read as far as the table goes, and is blank
after that; `MapTrue` says so.

*The dependency graph.* The edges asked for are exactly those both maps hold (`GraphInv`), and no list is as long as `usize::MAX`, which
follows from the lengths of the arguments (`GraphAssumption`). `QueueInv` needs no agreement of the maps: a name enters the
queue exactly when it has been counted down as often as its in-degree says, and only once, since a
decrement below 0 in a release build leaves more to count than there are edges. So an order never lists a name twice, and
one that lists all is an order. While the maps agree `OrderInv` adds that the in-degree counts the edges from
modules that are not yet taken out: no edge points back, nothing is counted below 0, and if the queue runs empty early each module left has
another one left before it. Going back for ever, one comes round, and that is the cycle. The closures rest on `WalkInv`: what has been visited
leads to what was visited or is on the stack, and all of that is sought.
`WalksShorten` is the half of `WalksEnd` that needs no fairness: taking a module out of the queue leaves fewer `Unplaced`, counting
down shortens the list at hand, and a closure visits a name for the first time or shortens its stack. That the numbers
have an end is `SeenInv`, for a closure may be asked of a name nobody added.

Induction over numbers is done with sets: a set that holds 0 and with each number the next has no least number outside it.
That reaches recursive functions (`Nth`, the writer's offset, `FlattenSeq`, the sums of `BootLoader`), and not the library's theorems that take a
predicate.

Only model-checked: liveness (`EachTried`, `Termination`, `Starts`, `WalksEnd`), since fairness is out of the prover's reach.
What makes them true without it is proved: `BootsUseUp`, `StepsAreCounted`, `NoFaultBelowFourGigabytes` and `WalksShorten`,
one for each. What these four say, and the inductive invariants, is not listed in a run: the run has the property they serve.

## 5. Not modelled, and why

* Framebuffer and ACPI pointers: read once, decoded, copied into the metadata. The record sizes are in `EfiMap`.
* `zfs/` apart from the bootonce walk (import, export, encryption, data set queries): one external command per function, called by nothing.
* `elf/`, `font/`, `cli/args.rs`, `types.rs`, `error.rs`: pure decoding and encoding. What the models need of an ELF
  file is a record.
* `boot/trampoline.rs`, `create_kernel_modmetadata`, and `allocate_addresses`, `set_virt_delta` and `set_kernel_symbols` of
  `module/mod.rs`: nothing calls them.
* `load`, `list`, `config`: they read, print and stop. The lines of `commands.rs` that only log are the larger part of the file.
* The contents of the preload bundle and the optional patch of the kernel's entry for debugging.
* A reboot that fails after `kexec_load` by a kernel crash or a power loss: no state survives it.

## 6. Disagreements shown by a run

* `DependencyGraphBuilt` (`DependenciesFirst`): `load_order` promises "dependencies first";
  `build_dependency_graph` adds its edges the other way round, so a module comes before the kernel it needs.
* `HandoffProbe` (`SupportedIsNoOp`): the "no-op kexec_load" that checks for support is the very
  call that unloads. The run shows two boots at once, every CPU still on: one has loaded its image and is about to take
  the other CPUs down when the other one, checking for support, empties the slot. `info` and `test` check likewise.
* `BootLayoutWindow` (`MetadataMapped`): addresses are only bounded by `u32`, but the trampoline
  maps 2 GiB from KERNBASE. In the run a module has no room before a large gap in RAM, and both modules and the metadata
  lie outside. `MappedUnlessRamIsHigh` proves that nothing else puts them there.
* `TrampolineGdata` (`GdataKept`): the pushes of the far return overwrite the data segment's
  descriptor. FreeBSD loads its own table early, so nothing is known to break.

## 7. Seen while modelling, without a run

* `would_create_cycle(from, to)` answers for the edge from `to` to `from` (dependency.rs:176-184), although the comment at
  dependency.rs:178 says otherwise: for a module that mentions the kernel (an edge from the module to the kernel), it answers
  no for the edge from the kernel back to the module, which closes a cycle. It calls `find_all_dependencies`, whose result
  `ClosuresExact` describes, changes nothing and is called by nothing; it is not in the model and no property states what it answers.
* `add_module` for a known name clears its own two adjacency lists but not its entries in the others' (dependency.rs:35). Afterwards a
  cycle may be reported that does not exist, a debug build may panic in a decrement, and in a release build an order may break an edge;
  `OrderRespectsEdges` and `MapsAgree` state when.
* A boot device `zfs:` without a data set is what `detect_bootdev` reports when pools exist and the command line names no root; the mountfrom it
  yields names none either. A value is cut at its first white space when the environment is built (commands.rs:1254), so a data set
  with a space in its name is never mounted: it stays unused, and can keep later pools from their turn (`EachTried` excludes it).
* zjudo never sets `bootonce-used`. If the data set's FreeBSD crashes before it does, the next boot takes the data set again.
* The rows of the memory table are the lines of `/proc/iomem` as they come, nested reserved lines inside the RAM they are nested in.
* `BootLoader` never clears its segments (module/loader.rs:140): after a second load, also one that failed, the map of memory begins with the first
  kernel's. The offsets of the two loaders differ by `KERNEL_PHYS_BASE`.
* `find_free_memory_regions` does not subtract an avoided range that starts below the region
  (memory.rs:192-209), and `get_kernel_reserved_regions` returns one from 0; `AvoidInOrder` excludes it.
* CS is always reloaded, as the debug character overwrites the register it was read to
  (assembler.rs:253-260). The debug output `M=` prints padding (assembler.rs:496-508).
* A second patch call, or a pointer twice in a set, shifts a version entry twice; the flag set
  at mod.rs:307 is never read. `VersionsAddUp` states by how much. A kernel symbol plus the link offset exceeds 2^64 and wraps
  (metadata.rs:508), which panics in a debug build.
* A second kernel without symbols keeps the first one's (mod.rs:187-191).
* `boot_params` with a map size but no address yields a map of blank descriptors that nothing
  copies over (sysinfo.rs:391-408, commands.rs:238); sysfs entries that cannot be read shorten
  the copy of the firmware's map, so that its last descriptors are lost (sysinfo.rs:684-704). A
  descriptor size below 40 panics (metadata.rs:117).
* `--no-memmap` says "Skip memory map collection" (args.rs:100); both maps are collected and the SMAP is still handed over.
* Linux prints `/sys/firmware/memmap` with `0x`, which `from_str_radix` refuses (sysinfo.rs:287): the SMAP always comes from `/proc/iomem`.
* The staging base has no upper bound, the identity mapping ends at 4 GiB (assembler.rs:1079-1088). Above it the block faults
  when it loads CR3, and below never (`NoFaultBelowFourGigabytes`); `Starts` excludes that.

## 8. Plan

Done, in order of weight: the memory plan with its abstract specification and proofs; the
hand-over with its proofs; the choice of the root over a series of boots, with its proofs; the available regions, the memory table and the search, with proofs; the trampoline and
its page tables, with proofs; the module loaders, with proofs; the EFI map and the dependency graph, with proofs.

Next, to model: a composition of `IomemRegions` with `BootLayout`
so that plans are checked over parsed files; the preload bundle's contents (symbol table relocation,
environment block); the bounds checks of `elf/parser.rs`.

Next, to prove: liveness from the four measures of 4, once a prover takes fairness and `ENABLED`; of the composition, that
`IomemRegions` delivers the regions `BootLayout` is given.
