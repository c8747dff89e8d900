------------------------------- MODULE EfiMap -------------------------------
(***************************************************************************)
(* The EFI memory map on its way to the FreeBSD kernel: fetched with two   *)
(* fall-backs (system/sysinfo.rs), written as one record of `modulep`      *)
(* (module/metadata.rs), found again there by boot() to tell the           *)
(* trampoline where to copy the firmware's own map over it.                *)
(*                                                                         *)
(* A descriptor is known by where it comes from: <<"fw", k>> is the k-th   *)
(* of the firmware's map, <<"rt", k>> the k-th of Linux's runtime map.     *)
(***************************************************************************)
EXTENDS PhysicalMemory, Sublists, Sequences, FiniteSets, SequencesExt

CONSTANTS
  Firmware,      \* bound: EFI fields of boot_params: [systab, memmap, size, desc]
  SysfsMaps,     \* bound: entries of .../efi/memmap, each readable or not
  RuntimeMaps,   \* bound: entries of .../efi/runtime-map, likewise
  Shapes,        \* bound: sizes and kinds of the other records
  TableRows,     \* length of efi_table
  CopyMax,       \* EFI_MEMMAP_COPY_MAX
  MetadataPhys,  \* physical address of modulep
  None

ASSUME EfiMapAssumption ==
  /\ TableRows \in Nat \ {0} /\ CopyMax \in Nat /\ MetadataPhys \in Nat /\ None \notin Nat
  /\ \A f \in Firmware : f.systab \in Nat /\ f.memmap \in Nat /\ f.size \in Nat /\ f.desc \in Nat
  /\ SysfsMaps \cup RuntimeMaps \subseteq Seq(BOOLEAN)
  /\ \A s \in Shapes :
       /\ {s.name, s.args, s.smap, s.elfhdr, s.shdr} \subseteq Nat
       /\ s.modules \in Seq([name : Nat, type : Nat, dynamic : BOOLEAN, elfhdr : Nat, shdr : Nat])

VARIABLES
  host,     \* what Linux shows and the options: fixed during a run
  pc,
  info,     \* EfiMapInfo: map_phys, memory_size, descriptor_size, efi_table
  records,  \* modulep, record by record
  off,      \* find_metadata_offset: the header it is at
  found,    \* efi_map_offset
  job,      \* the assembler's efi_memmap_src, _dst and _len
  seen      \* the descriptors the FreeBSD kernel finds in the record

vars == <<host, pc, info, records, off, found, job, seen>>

EntrySize == 40           \* size_of EfiMapEntry
Header == AlignUp(24, 16) \* EfiMapHeader, aligned
Zero == <<"zero">>
NoRows == [k \in 1 .. TableRows |-> Zero]
NoInfo == [phys |-> 0, size |-> 0, desc |-> 0, rows |-> NoRows]
NoJob == [src |-> 0, dst |-> 0, len |-> 0]

Hosts == [efi : BOOLEAN, noMemmap : BOOLEAN, params : Firmware \cup {None}, mem : BOOLEAN,
          sysfs : SysfsMaps \cup {None}, runtime : RuntimeMaps \cup {None}, shape : Shapes]

Init ==
  /\ host \in Hosts /\ (~host.efi => host.sysfs = None /\ host.runtime = None)
  /\ pc = "collect" /\ info = NoInfo /\ records = <<>>
  /\ off = 0 /\ found = None /\ job = NoJob /\ seen = <<>>

Fixed == UNCHANGED <<host, records, off, found, job, seen>>
---------------------------------------------------------------------------
(* Fetching the map *)

\* parse_boot_params_efi_info: nothing to use.
EmptyParams == host.params = None \/ (host.params.systab = 0 /\ host.params.memmap = 0)

Collect ==
  /\ pc = "collect" /\ Fixed
  /\ IF ~host.efi THEN info' = info /\ pc' = "boot"
     ELSE IF EmptyParams THEN info' = info /\ pc' = "runtime"
     ELSE
       /\ info' = [NoInfo EXCEPT !.phys = host.params.memmap, !.size = host.params.size,
                                 !.desc = host.params.desc]
       /\ pc' = IF host.params.memmap # 0 /\ host.params.size # 0 THEN "mem" ELSE "boot"

\* The rows of a map that fit the table; from a device, all of a table are read.
Least(a, b) == IF a < b THEN a ELSE b
FillShort(list) == list
Fill(list) == [k \in 1 .. TableRows |-> IF k <= Len(list) THEN list[k] ELSE Zero]

Fw(k) == <<"fw", k>>
RowsToRead == IF info.desc = 0 THEN 0 ELSE Least(TableRows, info.size \div info.desc)

ReadMem ==
  /\ pc = "mem" /\ Fixed
  /\ IF RowsToRead = 0 THEN info' = info /\ pc' = "runtime"
     ELSE IF ~host.mem THEN info' = info /\ pc' = "sysfs"
     ELSE
       /\ info' = [info EXCEPT !.rows = Fill([k \in 1 .. RowsToRead |-> Fw(k)])]
       /\ pc' = "boot"

\* The sysfs entries that can be read, in the order of their numbers.
Readable(list) == {i \in DOMAIN list : list[i]}
SysfsRows ==
  IF host.sysfs = None THEN <<>>
  ELSE LET good == Readable(host.sysfs) IN
       [k \in 1 .. Least(TableRows, Cardinality(good)) |-> Fw(Nth(good, k))]

ReadSysfs ==
  /\ pc = "sysfs" /\ Fixed
  /\ IF SysfsRows = <<>> THEN info' = info /\ pc' = "runtime"
     ELSE
       /\ info' = [info EXCEPT !.rows = Fill(SysfsRows), !.size = Len(SysfsRows) * info.desc]
       /\ pc' = "boot"

\* The runtime map counts only as a sign of life: an entry that cannot be read
\* is an error, and a map that can be is dropped in favour of the SMAP.
RuntimeRows == [k \in 1 .. Least(TableRows, Len(host.runtime)) |-> <<"rt", k>>]
RuntimeBroken == \E k \in 1 .. Least(TableRows, Len(host.runtime)) : ~host.runtime[k]
DroppedKept(rows, phys) == [phys |-> phys, size |-> 48, desc |-> 48, rows |-> rows]
Dropped(rows, phys) == [phys |-> phys, size |-> 0, desc |-> 0, rows |-> rows]

ReadRuntime ==
  /\ pc = "runtime" /\ Fixed
  /\ IF host.runtime = None \/ host.runtime = <<>>
     THEN /\ info' = Dropped(info.rows, info.phys)
          /\ pc' = IF EmptyParams THEN "error" ELSE "boot"
     ELSE IF RuntimeBroken THEN info' = info /\ pc' = "error"
     ELSE info' = Dropped(Fill(RuntimeRows), 0) /\ pc' = "boot"
---------------------------------------------------------------------------
(* Writing the metadata *)

Handed == ~host.noMemmap /\ host.efi /\ info.size # 0

Record(type, size) == [type |-> type, size |-> size]
Word8(type) == Record(type, 8)
Str(type, chars) == Record(type, chars + 1)
End == Record("end", 0)

\* Each add_* appends a header and data at the end of the buffer and pads it.
AfterUnpadded(at, size) == at + 8 + size
After(at, size) == AlignUp(at + 8 + size, 8)
Placed(rs) ==
  LET at[i \in DOMAIN rs] == IF i = 1 THEN 0 ELSE After(at[i - 1], rs[i - 1].size)
  IN [i \in DOMAIN rs |-> [type |-> rs[i].type, size |-> rs[i].size, at |-> at[i]]]
BufferEnd == LET r == records[Len(records)] IN r.at + 8 + r.size

Opt(cond, rs) == IF cond THEN rs ELSE <<>>
Sized(type, size) == Opt(size # 0, <<Record(type, size)>>)

DescriptorRows == IF info.desc = 0 THEN 0 ELSE info.size \div info.desc
MapRecord == Opt(Handed, <<Record("efimap", Header + info.size)>>)

ModuleRecords(f) ==
  <<Str("name", f.name), Str("type", f.type), Str("args", 0), Word8("addr"), Word8("size")>>
  \o Opt(f.dynamic, <<Word8("dynamic")>>) \o Sized("elfhdr", f.elfhdr) \o Sized("shdr", f.shdr)

BeforeMap(s) ==
  <<Str("name", s.name), Str("type", 10)>> \o Opt(s.args # 0, <<Str("args", s.args)>>)
  \o <<Word8("addr"), Word8("size")>>
AfterMap(s) ==
  Opt(host.efi /\ ~EmptyParams /\ host.params.systab # 0, <<Word8("fwhandle")>>)
  \o <<Record("keybuf", 33028), Word8("modulep"), Word8("kernend")>>
  \o Opt("envp" \in s.has, <<Word8("envp")>>)
  \o Opt("howto" \in s.has, <<Record("howto", 4)>>)
  \o Sized("smap", 20 * s.smap) \o Sized("elfhdr", s.elfhdr)
  \o Opt("dynamic" \in s.has, <<Word8("dynamic")>>)
  \o Opt("symtab" \in s.has, <<Word8("esym"), Word8("ssym")>>)
  \o Sized("shdr", s.shdr)
  \o Opt("font" \in s.has, <<Word8("font")>>)
  \o Opt(host.efi /\ "fb" \in s.has, <<Record("efifb", 44)>>)
  \o FlattenSeq([j \in DOMAIN s.modules |-> ModuleRecords(s.modules[j])])

AllRecords(s) == BeforeMap(s) \o MapRecord \o AfterMap(s) \o <<End>>

\* build_efi_map_metadata slices a descriptor into a buffer of desc bytes.
BuildPanics == Handed /\ info.desc < EntrySize /\ DescriptorRows > 0

Build ==
  /\ pc = "boot"
  /\ IF BuildPanics THEN pc' = "panic" /\ records' = <<>>
     ELSE pc' = "scan" /\ records' = Placed(AllRecords(host.shape))
  /\ UNCHANGED <<host, info, off, found, job, seen>>
---------------------------------------------------------------------------
(* Finding the record and copying the map over it *)

\* The record whose header is at the scan's offset, if one is.
AtOff == {i \in DOMAIN records : records[i].at = off}
Rec == records[CHOOSE i \in AtOff : TRUE]
NextOff == AlignUp(off + 8 + Rec.size, 8)

ScanEnds == AtOff = {} \/ Rec.type = "end" \/ off + 8 + Rec.size > BufferEnd

Scan ==
  /\ pc = "scan"
  /\ IF ScanEnds THEN pc' = "place" /\ UNCHANGED <<off, found>>
     ELSE IF Rec.type = "efimap" THEN pc' = "place" /\ found' = off + 8 /\ off' = off
     ELSE pc' = pc /\ off' = NextOff /\ found' = found
  /\ UNCHANGED <<host, info, records, job, seen>>

CopyTo == MetadataPhys + found + Header

Place ==
  /\ pc = "place" /\ pc' = "copy"
  /\ job' = IF Handed /\ info.phys # 0 /\ found # None
            THEN [src |-> info.phys, dst |-> CopyTo, len |-> info.size]
            ELSE NoJob
  /\ UNCHANGED <<host, info, records, off, found, seen>>

\* Where build_modulep put the rows, and what the copy leaves in row k.
RecordOf == records[CHOOSE i \in DOMAIN records : records[i].type = "efimap"]
RowsAt == MetadataPhys + RecordOf.at + 8 + Header
Copies == job.src # 0 /\ job.len <= CopyMax
Written(k) == IF k <= TableRows THEN info.rows[k] ELSE Zero
AfterCopy(k) ==
  LET a == RowsAt + (k - 1) * info.desc
      d == a - job.dst
  IN IF d + info.desc <= 0 \/ d >= job.len THEN Written(k)
     ELSE IF d >= 0 /\ d % info.desc = 0 /\ d + info.desc <= job.len THEN Fw(d \div info.desc + 1)
     ELSE <<"torn">>

Copy ==
  /\ pc = "copy" /\ pc' = "booted"
  /\ seen' = IF ~Handed THEN <<>>
             ELSE [k \in 1 .. DescriptorRows |-> IF Copies THEN AfterCopy(k) ELSE Written(k)]
  /\ UNCHANGED <<host, info, records, off, found, job>>

Next ==
  Collect \/ ReadMem \/ ReadSysfs \/ ReadRuntime \/ Build \/ Scan \/ Place \/ Copy

Spec == Init /\ [][Next]_vars
---------------------------------------------------------------------------
(* Properties *)

TypeOK ==
  /\ host \in Hosts
  /\ pc \in {"collect", "mem", "sysfs", "runtime", "boot", "scan", "place", "copy",
            "booted", "error", "panic"}
  /\ info.phys \in Nat /\ info.size \in Nat /\ info.desc \in Nat /\ DOMAIN info.rows = 1 .. TableRows
  /\ off \in Nat /\ found \in Nat \cup {None}
  /\ job.src \in Nat /\ job.dst \in Nat /\ job.len \in Nat

(* boot() finds the record build_modulep wrote, wherever the sizes of the  *)
(* others put it, and what the trampoline copies lands on the bytes of     *)
(* that record after its header, all of them and no other: the paddings of *)
(* the writer, of find_metadata_offset and of boot() agree.                *)
CopyInside ==
  pc \in {"copy", "booted"} =>
    IF ~Handed \/ info.phys = 0 THEN job = NoJob
    ELSE /\ job.dst = RowsAt
         /\ job.dst + job.len = MetadataPhys + RecordOf.at + 8 + RecordOf.size
         /\ job.dst + job.len <= MetadataPhys + BufferEnd

(* The kernel reads the firmware's descriptors in their order, never       *)
(* Linux's runtime ranges, whatever they were read from; all of them when  *)
(* they were read from memory. A map too large to copy is what was read:   *)
(* it is blank past the table, and lacks what sysfs did not show. If the   *)
(* firmware gave a size and no address, the whole map is blank. No map is  *)
(* handed over that could not be read at all.                              *)
MapTrue ==
  pc = "booted" /\ Handed =>
    IF info.phys = 0 THEN ~EmptyParams /\ host.params.memmap = 0 /\ \A k \in DOMAIN seen : seen[k] = Zero
    ELSE /\ \A k \in DOMAIN seen :
              \/ seen[k] = Fw(k)
              \/ ~Copies /\ k > TableRows /\ seen[k] = Zero
              \/ ~Copies /\ ~host.mem /\ k \in DOMAIN SysfsRows /\ seen[k] = SysfsRows[k]
         /\ host.mem => DOMAIN seen = 1 .. host.params.size \div host.params.desc
         /\ host.mem \/ SysfsRows # <<>>
---------------------------------------------------------------------------
(* The inductive invariant behind both.                                    *)

\* What the table holds of the map that is to be handed over.
Fetched ==
  /\ DOMAIN info.rows = 1 .. TableRows
  /\ Handed =>
       IF info.phys = 0 THEN ~EmptyParams /\ host.params.memmap = 0 /\ info.rows = NoRows
       ELSE /\ host.params # None /\ info.desc = host.params.desc
            /\ IF host.mem THEN /\ info.desc # 0 /\ info.size = host.params.size
                                /\ info.rows = Fill([k \in 1 .. RowsToRead |-> Fw(k)])
               ELSE SysfsRows # <<>> /\ info.size = Len(SysfsRows) * info.desc /\ info.rows = Fill(SysfsRows)

\* How far the fetching has come.
FetchInv ==
  /\ pc = "collect" => info = NoInfo
  /\ pc \in {"mem", "sysfs"} =>
       /\ host.efi /\ ~EmptyParams /\ host.params.memmap # 0
       /\ info.phys = host.params.memmap /\ info.size = host.params.size /\ info.desc = host.params.desc
       /\ pc = "sysfs" => ~host.mem
  /\ pc \in {"boot", "scan", "place", "copy", "booted"} => Fetched

\* The record of the map has been found, or the scan has not passed it.
FindInv ==
  /\ pc \in {"collect", "mem", "sysfs", "runtime", "boot"} => off = 0
  /\ pc \in {"scan", "place", "copy", "booted"} => records = Placed(AllRecords(host.shape))
  /\ pc = "scan" =>
       \E i \in DOMAIN records :
         off = records[i].at /\ \A j \in 1 .. i - 1 : records[j].type # "efimap"
  /\ pc \in {"place", "copy", "booted"} /\ Handed => found = RecordOf.at + 8

\* What the assembler was told, and what the trampoline has made of it.
JobInv ==
  pc \in {"copy", "booted"} =>
    job = IF Handed /\ info.phys # 0 THEN [src |-> info.phys, dst |-> RowsAt, len |-> info.size] ELSE NoJob

SeenInv ==
  pc = "booted" =>
    seen = IF ~Handed THEN <<>>
           ELSE [k \in 1 .. DescriptorRows |-> IF Copies THEN AfterCopy(k) ELSE Written(k)]
=============================================================================
