-------------------------- MODULE PhysicalMemory --------------------------
(***************************************************************************)
(* The address arithmetic of src/system/memory.rs and the first-fit search *)
(* that boot() makes over the available regions (inclusive ends, ordered   *)
(* as /proc/iomem lists them).                                             *)
(***************************************************************************)
EXTENDS Integers

CONSTANT Page  \* PAGE_SIZE

ASSUME PageAssumption == Page \in Nat \ {0}

Region == [start : Nat, end : Nat]

AlignUp(v, a) == ((v + a - 1) \div a) * a
Larger(a, b) == IF a > b THEN a ELSE b

InRegionsStartOnly(mem, size, regs) ==
  \E i \in DOMAIN regs : mem >= regs[i].start /\ mem <= regs[i].end

\* is_range_available
InRegions(mem, size, regs) ==
  /\ size > 0
  /\ \E i \in DOMAIN regs : mem >= regs[i].start /\ mem + size - 1 <= regs[i].end

\* The first page of region r at or after address c.
FirstPage(r, c) == AlignUp(Larger(c, r.start), Page)

Fits(r, c, size) == r.end >= c /\ FirstPage(r, c) + size - 1 <= r.end

\* The region the scans of assign_module_addresses and
\* find_available_at_or_after stop at.
FirstFit(i, c, size, regs) ==
  /\ i \in DOMAIN regs
  /\ Fits(regs[i], c, size)
  /\ \A j \in 1 .. i - 1 : ~Fits(regs[j], c, size)

NoFit(c, size, regs) == \A i \in DOMAIN regs : ~Fits(regs[i], c, size)
============================================================================
