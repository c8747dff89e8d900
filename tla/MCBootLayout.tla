--------------------------- MODULE MCBootLayout ---------------------------
(***************************************************************************)
(* Instances of BootLayout.  Addresses are scaled down: a page is 4 units, *)
(* BOOT_PHYS_BASE one page, KERNEL_PHYS_BASE two, the staging hole eight.  *)
(***************************************************************************)
EXTENDS BootLayout

R(s, e) == [start |-> s, end |-> e]
P(o, f, m) == [off |-> o, filesz |-> f, memsz |-> m]
Parts(s, e, f) == [symtab |-> s, env |-> e, font |-> f]

\* One large region; a low sliver, a hole that is just large enough, a gap and
\* a high region; regions that start and end inside a page;
\* no region with room; one with room only until its start is aligned; memory
\* from address 0.
MCRegionLists == {
  <<R(8, 79)>>,
  <<R(1, 6), R(9, 47), R(56, 101)>>,
  <<R(3, 40), R(45, 61), R(63, 90)>>,
  <<R(8, 30), R(33, 50)>>,
  <<R(3, 36), R(45, 100)>>,
  <<R(0, 60)>> }

\* Small, two segments with bss, as large as the hole, larger than it, below
\* KERNEL_PHYS_BASE, more file than memory, no PT_LOAD.
MCKernelFiles == {
  {P(8, 5, 5)},
  {P(8, 4, 4), P(13, 2, 9)},
  {P(8, 20, 24)},
  {P(8, 30, 31)},
  {P(2, 1, 2)},
  {P(8, 9, 2)},
  {} }

\* For the window run: kernels that fit the hole, RAM on both sides of a gap
\* behind which the trampoline's window is over, and a module that has no room
\* before it.
MCGapRegions == {<<R(8, 39), R(80, 119)>>}
MCFarModules == {<<17, 4>>}
MCSmallKernels == {{P(8, 5, 5)}, {P(8, 4, 4), P(13, 2, 9)}}

MCModuleLists == {<<>>, <<3>>, <<5, 0>>, <<9, 4>>, <<1, 4, 6>>}
MCPartSizes == {Parts(0, 0, 0), Parts(3, 0, 0), Parts(5, 1, 2)}
MCMetaSizes == {1, 2, 4}
============================================================================
