----------------------------- MODULE PageTables -----------------------------
(***************************************************************************)
(* The page tables of the boot block (boot/assembler.rs): nine pages, the  *)
(* entries written into them, and the walk the CPU does from CR3.          *)
(* Addresses are in units of 2 MB, what one entry of the last level maps;  *)
(* a virtual address is its three indices.                                 *)
(***************************************************************************)
EXTENDS Integers

CONSTANTS
  N,     \* entries of a table (NPML4EPG, NPDPEPG, NPDEPG)
  Pt4    \* pt4_phys, as a page number

ASSUME PageTablesAssumption == N \in Nat /\ N >= 6 /\ Pt4 \in Nat \ {0}

None == [kind |-> "none", at |-> 0]
Table(page) == [kind |-> "table", at |-> page]
Leaf(addr) == [kind |-> "leaf", at |-> addr]

\* Where the slices start; pt2_l is four pages long, pt2_u two.
SlicePt4 == 0
SlicePt3Low == 1
SlicePt3High == 2
SlicePt2Low == 3
SlicePt2High == 7

\* The n-th entry of page f. An index into a slice runs on into its next page.
LowIdentity(f, n) ==
  CASE f = SlicePt4 /\ n = 0 -> Table(Pt4 + 1)
    [] f = SlicePt3Low /\ n <= 3 -> Table(Pt4 + 3 + n)
    [] f \in SlicePt2Low .. SlicePt2Low + 3 -> Leaf((f - SlicePt2Low) * N + n)
    [] OTHER -> None

HighWindowOffByOne(f, n, staging) ==
  CASE f = SlicePt4 /\ n = N - 1 -> Table(Pt4 + 2)
    [] f = SlicePt3High /\ n >= N - 2 -> Table(Pt4 + 6 + n - (N - 2))
    [] f \in SlicePt2High .. SlicePt2High + 1 ->
         Leaf(IF f = SlicePt2High /\ n = 0 THEN 0 ELSE staging + (f - SlicePt2High) * N + n)
    [] OTHER -> None

HighWindow(f, n, staging) ==
  CASE f = SlicePt4 /\ n = N - 1 -> Table(Pt4 + 2)
    [] f = SlicePt3High /\ n >= N - 2 -> Table(Pt4 + 7 + n - (N - 2))
    [] f \in SlicePt2High .. SlicePt2High + 1 ->
         Leaf(IF f = SlicePt2High /\ n = 0 THEN 0 ELSE staging + (f - SlicePt2High) * N + n)
    [] OTHER -> None

Pages(staging) ==
  [f \in 0 .. 8 |-> [n \in 0 .. N - 1 |->
     IF HighWindow(f, n, staging) # None THEN HighWindow(f, n, staging) ELSE LowIdentity(f, n)]]

\* The walk. Beyond the nine pages there is anything: no walk may lead there.
Lookup(pages, e, n) ==
  IF e.kind = "table" /\ e.at - Pt4 \in DOMAIN pages THEN pages[e.at - Pt4][n] ELSE None

Walk(pages, va) ==
  LET e == Lookup(pages, Lookup(pages, Lookup(pages, Table(Pt4), va[1]), va[2]), va[3])
  IN IF e.kind = "leaf" THEN e.at ELSE -1

\* The virtual address that is the physical one, in the lowest entry on.
Same(addr) == <<addr \div (N * N), (addr \div N) % N, addr % N>>

Virtual == (0 .. N - 1) \X (0 .. N - 1) \X (0 .. N - 1)

\* What the tables are for: the first four gigabytes as they are, KERNBASE
\* and above onto the staging area, but for its first 2 MB.
Meant(va, staging) ==
  LET low == va[2] * N + va[3]
      window == low - (N - 2) * N
  IN IF va[1] = 0 /\ low < 4 * N THEN low
     ELSE IF va[1] = N - 1 /\ window = 0 THEN 0
     ELSE IF va[1] = N - 1 /\ window > 0 THEN staging + window
     ELSE -1
=============================================================================
