--------------------------- MODULE MCModuleLoader ---------------------------
(***************************************************************************)
(* Both loaders with bytes of one bit and so words of eight bits: KERNBASE *)
(* is 192, the offset ModuleLoader computes 184, a kernel symbol 200 or    *)
(* more, and the type of an entry the low four bits of its first word.     *)
(***************************************************************************)
EXTENDS Loaders, SequencesExt

Word(v) == [i \in 1 .. 8 |-> (v \div 2 ^ (i - 1)) % 2]
BytesOf(words) == FlattenSeq([i \in DOMAIN words |-> Word(words[i])])

Sym(n, v) == [name |-> n, value |-> v]
Segment(vaddr, size, inside) == [vaddr |-> vaddr, size |-> size, inside |-> inside]
File(header, segments, symbols) ==
  [elf |-> TRUE, wide |-> TRUE, header |-> header, segments |-> segments, symbols |-> symbols,
   strings |-> symbols # <<>>]

\* A kernel with "sym" defined twice and "gone" without a value; a bare one;
\* one linked below KERNBASE, whose symbols have no string table; one that
\* starts below KERNBASE + KERNEL_PHYS_BASE in its second segment; a file that
\* is no kernel, and one of 32 bits.
MCKernels == {
  File(TRUE, <<Segment(200, 16, TRUE), Segment(216, 20, TRUE)>>,
       <<Sym(<<1, 1>>, 200), Sym(<<1, 1>>, 208), Sym(<<1>>, 0)>>),
  File(FALSE, <<>>, <<>>),
  [File(TRUE, <<Segment(16, 8, TRUE)>>, <<Sym(<<1, 1>>, 16)>>) EXCEPT !.strings = FALSE],
  File(TRUE, <<Segment(208, 40, TRUE), Segment(192, 8, TRUE)>>, <<>>),
  NoFile,
  [File(TRUE, <<Segment(200, 24, FALSE)>>, <<>>) EXCEPT !.wide = FALSE] }

\* The word Strings holds "bad", which is not UTF-8, at its first byte, "sym"
\* at its second, "gone" at its third, and no name at its fourth.
Strings == 7
MCNotUtf8 == {<<1, 1, 1>>}

Mod(words, offset, count) == [kind |-> "obj", data |-> BytesOf(words), offset |-> offset, count |-> count]

\* Two pointers, two entries, the strings; the same three bytes further on,
\* so that nothing is aligned; and without the strings' last bytes, so that
\* "sym" ends with the data.
TwoEntries(type, data) == Mod(<<16, 32, type, data, 3, 8, Strings>>, 0, 2)
Shifted(type, data) ==
  [Mod(<<19, 35, type, data, 3, 8, Strings>>, 3, 2) EXCEPT !.data = <<1, 1, 1>> \o @]
Cut(type, data) == [TwoEntries(type, data) EXCEPT !.data = SubSeq(@, 1, 51)]

MCModules ==
  {TwoEntries(type, data) : type \in {1, 2}, data \in {49, 64}} \cup
  { TwoEntries(1, 0), TwoEntries(4, 49),    \* nothing to patch
    TwoEntries(17, 49),                     \* a dependency with a subtype
    Shifted(1, 52), Cut(1, 49),
    TwoEntries(1, 50), TwoEntries(1, 51),   \* no such symbol; no name
    Mod(<<16, 16, 3, 8>>, 0, 2),            \* one entry twice
    Mod(<<16, 24, 1, 2, Strings>>, 0, 2),   \* entries that overlap
    Mod(<<0, 24, 240, 1, 40, Strings>>, 0, 2),  \* null; a string that is not UTF-8
    Mod(<<8, 250>>, 0, 2),                  \* a pointer near the end of memory
    Mod(<<255>>, 0, 1),                     \* one that wraps and is still outside
    Mod(<<40, 24, 0, 3, 200>>, 0, 2),       \* outside; a version that wraps
    Mod(<<1, 40>>, 8, 2),                   \* a set that runs past the module
    Mod(<<1, 40>>, 248, 1),                 \* and past the end of memory
    Mod(<<1, 40>>, 248, 8),                 \* and, wrapped, past the module
    Mod(<<7>>, 0, 0),                       \* no set
    [Mod(<<16, 16, 3, 8>>, 0, 2) EXCEPT !.kind = "dyn"],  \* a set nothing looks for
    [Mod(<<7>>, 0, 0) EXCEPT !.kind = "bad"] }
=============================================================================
