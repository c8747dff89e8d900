----------------------------- MODULE Trampoline -----------------------------
(***************************************************************************)
(* The boot block of boot/assembler.rs, generated and run: the CPU enters  *)
(* it after kexec, and it pops its parameters, copies the EFI memory map,  *)
(* switches page tables and segments, and jumps to the kernel.             *)
(*                                                                         *)
(* The block keeps parameters, segment table and scratch stack in one page *)
(* and uses that page as its stack, so the model is of bytes: a byte is a  *)
(* pair <<value, index>>, and a word read from memory is worth something   *)
(* only if nothing has been written over a part of it. Addresses count     *)
(* from the start of the data, negative ones lie in the code's padding.    *)
(***************************************************************************)
EXTENDS PageTables

CONSTANTS
  Bases,        \* bound: staging bases and kernel addresses, 0 if not set
  Tops,         \* bound: addresses of modulep and kernend, 0 if not set
  Max32,        \* bound: the largest value of 32 bits
  Sources,      \* bound: addresses of the EFI memory map, 0 if none
  Lengths,      \* bound: lengths of the EFI memory map
  CopyMax,      \* EFI_MEMMAP_COPY_MAX
  Entry, GdtBase, MapDestination,  \* other values of 64 bits
  LinuxSelectors  \* code segments Linux may leave

ASSUME TrampolineAssumption ==
  /\ Bases \subseteq Nat /\ Tops \subseteq Nat /\ Sources \subseteq Nat
  /\ Lengths \subseteq Nat /\ LinuxSelectors \subseteq 1 .. 255
  /\ Max32 \in Nat /\ CopyMax \in Nat
  /\ {Entry, GdtBase, MapDestination} \subseteq Nat \ {0}

VARIABLES
  pc,
  job,        \* what the setters of BootAssembler were given
  mem,        \* the bytes of the data, and of the padding before it
  rax, rcx, rsi, rdi, r9,    \* words
  rsp, r11,   \* addresses
  cs, gdtr, cr3,
  thr,        \* the serial port's transmit register is empty
  copied,     \* the EFI memory map copied so far: 0 or one
  printed     \* what the debug output has said

cpu == <<rax, rcx, rsi, rdi, r9, rsp, r11, cs, gdtr, cr3>>
vars == <<pc, job, mem, cpu, thr, copied, printed>>
---------------------------------------------------------------------------
(* Words *)

Index == 0 .. 7
Word(v) == [i \in Index |-> IF v = 0 THEN <<0, 0>> ELSE <<v, i>>]
Narrow(v, n) == [i \in Index |-> IF i < n THEN Word(v)[i] ELSE <<0, 0>>]  \* n bytes, zero-extended
Long(v) == Narrow(v, 4)
Byte(v) == Narrow(v, 1)

Read(a) == [i \in Index |-> mem[a + i]]
ReadLong(a) == [i \in Index |-> IF i < 4 THEN mem[a + i] ELSE <<0, 0>>]
Written(m, a, w, n) == [x \in DOMAIN m |-> IF x \in a .. a + n - 1 THEN w[x - a] ELSE m[x]]
Push(m, a, w) == Written(m, a - 8, w, 8)

\* out dx, al: the character is left in al.
Uart(w, ch) == [w EXCEPT ![0] = <<ch, 0>>]

\* The data: seven parameters, six descriptors, the operand of lgdt, the
\* scratch stack and the slot where the page table's address is kept.
Src == 0
Dst == 8
Length == 16
TableAt == 24
EntryAt == 32
ModulepAt == 40
KernendAt == 48
Gdt == 56
Gdtr == 104
ScratchPastSlot == 138
Scratch == 114
Slot == 130
DataEnd == 137
Lowest == -88   \* the deepest a push of the debug code reaches

GcodeSel == 32
GdataSel == 40
GcodeDescriptor == 175
GdataDescriptor == 146
GdtLimit == 47
ReloadLabel == 7001
StubReturn == 7002
Junk == 7003

Data(modulep, kernend) ==
  LET Blank == [x \in Lowest .. DataEnd |-> <<0, 0>>]
      Params == Written(Written(Written(Written(Written(Written(Written(Blank,
        Src, Word(job.src), 8), Dst, Word(job.dst), 8), Length, Word(job.len), 8),
        TableAt, Word(Pt4), 8), EntryAt, Word(Entry), 8),
        ModulepAt, Long(modulep), 8), KernendAt, Long(kernend), 8)
      Descriptors == Written(Written(Params, Gdt + GcodeSel, Word(GcodeDescriptor), 8),
                             Gdt + GdataSel, Word(GdataDescriptor), 8)
  IN Written(Written(Descriptors, Gdtr, Word(GdtLimit), 2), Gdtr + 2, Word(GdtBase), 8)
---------------------------------------------------------------------------
Init ==
  /\ pc = "assemble"
  /\ job \in [staging : Bases, kernel : Bases, modulep : Tops, kernend : Tops,
              src : Sources, dst : {MapDestination}, len : Lengths, debug : BOOLEAN]
  /\ mem = [x \in Lowest .. DataEnd |-> <<0, 0>>]
  /\ rax = Word(Junk) /\ rcx = Word(Junk) /\ rsi = Word(Junk) /\ rdi = Word(Junk) /\ r9 = Word(Junk)
  /\ rsp = 0 /\ r11 = 0
  /\ cs \in LinuxSelectors /\ gdtr = <<Word(Junk), Word(Junk)>> /\ cr3 = Word(Junk)
  /\ thr \in BOOLEAN
  /\ copied = <<>>
  /\ printed = [x \in {} |-> 0]

OffsetOf(top, base) == IF top = 0 THEN 0 ELSE top - base
ModulepOff == OffsetOf(job.modulep, job.staging)
KernendOff == OffsetOf(job.kernend, job.kernel)

\* The checks of generate_kboot_trampoline.
CanAssemble ==
  /\ job.staging # 0 /\ job.kernel # 0
  /\ job.modulep = 0 \/ job.modulep >= job.staging
  /\ job.kernend = 0 \/ job.kernend >= job.kernel
  /\ ModulepOff <= Max32 /\ KernendOff <= Max32

Assemble ==
  /\ pc = "assemble"
  /\ IF CanAssemble
     THEN pc' = "wait" /\ mem' = Data(ModulepOff, KernendOff)
     ELSE pc' = "error" /\ UNCHANGED mem
  /\ UNCHANGED <<job, cpu, thr, copied, printed>>

\* The serial port drains on its own.
Transmitted == ~thr /\ thr' = TRUE /\ UNCHANGED <<pc, job, mem, cpu, copied, printed>>

WaitUart ==
  /\ pc = "wait" /\ thr
  /\ pc' = "params"
  /\ UNCHANGED <<job, mem, cpu, thr, copied, printed>>

PopParams ==
  /\ pc = "params"
  /\ rsi' = Read(Src) /\ rdi' = Read(Dst) /\ rcx' = Read(Length)
  /\ rsp' = TableAt
  /\ pc' = "copy"
  /\ UNCHANGED <<job, mem, rax, r9, r11, cs, gdtr, cr3, thr, copied, printed>>

\* test rsi, rsi; cmp rcx, imm32
MayCopy == rsi # Word(0) /\ rcx \in {Word(n) : n \in 0 .. CopyMax}

CopyMap ==
  /\ pc = "copy" /\ MayCopy
  /\ copied' = <<rsi, rdi, rcx>>
  /\ rcx' = Word(0) /\ rsi' = Word(Junk) /\ rdi' = Word(Junk)
  /\ pc' = "tables"
  /\ UNCHANGED <<job, mem, rax, r9, rsp, r11, cs, gdtr, cr3, thr, printed>>

SkipCopy ==
  /\ pc = "copy" /\ ~MayCopy
  /\ pc' = "tables"
  /\ UNCHANGED <<job, mem, cpu, thr, copied, printed>>

\* The block itself runs on at its own address, in the 2 MB from the staging
\* base on: an unmapped one is a fault.
RunsOn == IF Walk(Pages(job.staging), Same(job.staging)) = job.staging THEN "lgdt" ELSE "fault"

LoadTablesPeek ==
  /\ pc = "tables"
  /\ r9' = Read(rsp + 8) /\ rsp' = rsp
  /\ mem' = Written(mem, Slot, Read(rsp), 8)
  /\ cr3' = Read(rsp) /\ rax' = Uart(Read(rsp), 65)
  /\ pc' = RunsOn
  /\ UNCHANGED <<job, rcx, rsi, rdi, r11, cs, gdtr, thr, copied, printed>>

\* pop rax; cache the entry in r9; store the table's address; mov cr3, rax
LoadTables ==
  /\ pc = "tables"
  /\ r9' = Read(rsp + 8) /\ rsp' = rsp + 8
  /\ mem' = Written(mem, Slot, Read(rsp), 8)
  /\ cr3' = Read(rsp) /\ rax' = Uart(Read(rsp), 65)
  /\ pc' = RunsOn
  /\ UNCHANGED <<job, rcx, rsi, rdi, r11, cs, gdtr, thr, copied, printed>>

LoadGdt ==
  /\ pc = "lgdt"
  /\ gdtr' = <<[i \in Index |-> IF i < 2 THEN mem[Gdtr + i] ELSE <<0, 0>>], Read(Gdtr + 2)>>
  /\ r11' = rsp
  /\ rax' = Uart(Byte(cs), 99)     \* mov ax, cs, then a 'c' on the serial port
  /\ pc' = "cs"
  /\ UNCHANGED <<job, mem, rcx, rsi, rdi, r9, rsp, cs, cr3, thr, copied, printed>>
---------------------------------------------------------------------------
(* The code segment *)

ReloadStackLow == Scratch - 8

ReloadStack == Scratch

\* cmp ax, GCODE_SEL; if not equal: lea rsp, scratch; push GCODE_SEL; push the label
ReloadCs ==
  /\ pc = "cs"
  /\ IF rax = Byte(GcodeSel)
     THEN pc' = "debug" /\ UNCHANGED <<rax, rsp, mem>>
     ELSE /\ rax' = Word(ReloadLabel)
          /\ mem' = Push(Push(mem, ReloadStack, Byte(GcodeSel)), ReloadStack - 8, Word(ReloadLabel))
          /\ rsp' = ReloadStack - 16
          /\ pc' = "lretq"
  /\ UNCHANGED <<job, rcx, rsi, rdi, r9, r11, cs, gdtr, cr3, thr, copied, printed>>

\* The far return takes the descriptor GDTR and the selector lead to.
FarReturn ==
  /\ pc = "lretq"
  /\ IF /\ Read(rsp) = Word(ReloadLabel) /\ Read(rsp + 8) = Byte(GcodeSel)
        /\ gdtr = <<Narrow(GdtLimit, 2), Word(GdtBase)>>
        /\ Read(Gdt + GcodeSel) = Word(GcodeDescriptor)
     THEN cs' = GcodeSel /\ rsp' = r11 /\ pc' = "debug"
     ELSE pc' = "fault" /\ UNCHANGED <<cs, rsp>>
  /\ rax' = Uart(rax, 82)
  /\ UNCHANGED <<job, mem, rcx, rsi, rdi, r9, r11, gdtr, cr3, thr, copied, printed>>
---------------------------------------------------------------------------
(* The debug output *)

Say(m) == [x \in DOMAIN printed \cup DOMAIN m |-> IF x \in DOMAIN m THEN m[x] ELSE printed[x]]

NoDebug ==
  /\ pc = "debug" /\ ~job.debug
  /\ pc' = "frame"
  /\ UNCHANGED <<job, mem, cpu, thr, copied, printed>>

\* call stub; nine pushes
EnterStub ==
  /\ pc = "debug" /\ job.debug
  /\ mem' = [x \in DOMAIN mem |->
               IF x \in rsp - 8 .. rsp - 1 THEN Word(StubReturn)[x - (rsp - 8)]
               ELSE IF x \in rsp - 80 .. rsp - 9 THEN <<Junk, 0>> ELSE mem[x]]
  /\ rsp' = rsp - 80
  /\ pc' = "stub"
  /\ UNCHANGED <<job, rax, rcx, rsi, rdi, r9, r11, cs, gdtr, cr3, thr, copied, printed>>

\* r12 is the stack pointer the stub was entered with.
R12 == rsp + 72

\* The prints of the stub, with the deepest of the calls they make.
PrintState ==
  /\ pc = "stub"
  /\ printed' = Say([SE |-> Read(R12 + 8), M |-> ReadLong(R12 + 20), K |-> ReadLong(R12 + 24),
                     Q |-> Read(Slot), c |-> Byte(cs), b |-> gdtr[2]])
  /\ mem' = [x \in DOMAIN mem |-> IF x \in rsp - 40 .. rsp - 1 THEN <<Junk, 0>> ELSE mem[x]]
  /\ pc' = "return"
  /\ UNCHANGED <<job, cpu, thr, copied>>

LeaveStub ==
  /\ pc = "return"
  /\ rsp' = rsp + 80
  /\ pc' = IF Read(R12) = Word(StubReturn) THEN "frame" ELSE "fault"
  /\ UNCHANGED <<job, mem, rax, rcx, rsi, rdi, r9, r11, cs, gdtr, cr3, thr, copied, printed>>
---------------------------------------------------------------------------
(* The kernel's stack frame *)

Frame(m) == Written(Written(Written(Written(m, r11, Word(0), 4), r11 + 4, Long(ModulepOff), 4),
                            r11 + 8, Long(KernendOff), 4), r11 + 12, Word(0), 4)

BuildFrame ==
  /\ pc = "frame"
  /\ mem' = Frame(mem)
  /\ rsp' = r11
  /\ rax' = r9
  /\ pc' = IF job.debug THEN "frameprint" ELSE "jump"
  /\ UNCHANGED <<job, rcx, rsi, rdi, r9, r11, cs, gdtr, cr3, thr, copied, printed>>

\* Three calls, each of which leaves its return address below the frame.
PrintFrame ==
  /\ pc = "frameprint"
  /\ printed' = Say([BT0 |-> ReadLong(rsp), BT1 |-> ReadLong(rsp + 4), BT2 |-> ReadLong(rsp + 8)])
  /\ mem' = Push(mem, rsp, Word(Junk))
  /\ rax' = r9
  /\ pc' = "jump"
  /\ UNCHANGED <<job, rcx, rsi, rdi, r9, rsp, r11, cs, gdtr, cr3, thr, copied>>

JumpTargetReread == Read(EntryAt)

JumpTarget == rax

\* The frame again, a 'C' around which rax is saved, and jmp rax.
Jump ==
  /\ pc = "jump"
  /\ mem' = Push(Frame(mem), rsp, rax)
  /\ rax' = JumpTarget
  /\ printed' = IF job.debug THEN Say([CJ |-> rax]) ELSE printed
  /\ pc' = "kernel"
  /\ UNCHANGED <<job, rcx, rsi, rdi, r9, rsp, r11, cs, gdtr, cr3, thr, copied>>

Cpu ==
  \/ Assemble \/ WaitUart \/ PopParams \/ CopyMap \/ SkipCopy \/ LoadTables \/ LoadGdt
  \/ ReloadCs \/ FarReturn \/ NoDebug \/ EnterStub \/ PrintState \/ LeaveStub
  \/ BuildFrame \/ PrintFrame \/ Jump

Next == Cpu \/ Transmitted

Spec == Init /\ [][Next]_vars

\* The CPU runs, with interrupts off, and the serial port drains.
FairSpec == Spec /\ WF_vars(Cpu) /\ WF_vars(Transmitted)
---------------------------------------------------------------------------
\* The stack pointer is always at one of the places the code means it to be.
TypeOK ==
  /\ pc \in {"assemble", "error", "wait", "params", "copy", "tables", "lgdt", "cs", "lretq", "debug",
             "stub", "return", "frame", "frameprint", "jump", "kernel", "fault"}
  /\ DOMAIN mem = Lowest .. DataEnd
  /\ rsp \in {0, TableAt, EntryAt, Scratch - 16, EntryAt - 80}
  /\ r11 \in {0, EntryAt}
  /\ cs \in LinuxSelectors \cup {GcodeSel}
  /\ thr \in BOOLEAN

(* The kernel starts with what the planner computed, however often the     *)
(* block has written over its own parameters: its entry, the page tables,  *)
(* the code segment, and a frame of a null return address, the offsets of  *)
(* the metadata and of the kernel's end, and zero. The EFI memory map has  *)
(* been copied to its room in the metadata exactly if there is one and it  *)
(* is not too long.                                                        *)
HandsOver ==
  pc = "kernel" =>
    /\ rax = Word(Entry) /\ cr3 = Word(Pt4) /\ cs = GcodeSel /\ rsp = EntryAt
    /\ ReadLong(rsp) = Word(0) /\ ReadLong(rsp + 12) = Word(0)
    /\ ReadLong(rsp + 4) = Long(ModulepOff) /\ ModulepOff \in 0 .. Max32
    /\ ReadLong(rsp + 8) = Long(KernendOff) /\ KernendOff \in 0 .. Max32
    /\ copied = IF job.src # 0 /\ job.len <= CopyMax
                THEN <<Word(job.src), Word(job.dst), Word(job.len)>> ELSE <<>>

(* With CR3 loaded, every address leads where it is meant to: the code     *)
(* still runs, and the offsets in the frame are good from KERNBASE.        *)
Mapped ==
  pc \in {"lgdt", "kernel"} =>
    LET pages == Pages(job.staging)
    IN cr3 = Word(Pt4) /\ \A va \in Virtual : Walk(pages, va) = Meant(va, job.staging)

(* What the debug output says of the entry, the kernel's end, the page     *)
(* tables, the segment and the frame is what the kernel gets.              *)
DebugTells ==
  pc = "kernel" /\ job.debug =>
    /\ printed.SE = rax /\ printed.CJ = rax
    /\ printed.K = Long(KernendOff) /\ printed.Q = cr3 /\ printed.c = Byte(cs)
    /\ printed.b = Word(GdtBase)
    /\ printed.BT0 = ReadLong(rsp) /\ printed.BT1 = ReadLong(rsp + 4) /\ printed.BT2 = ReadLong(rsp + 8)

\* The block is refused or the kernel starts: it never hangs, and faults only
\* if it was put above the four gigabytes that the new tables map as they are.
Starts == <>(pc \in {"error", "kernel"} \/ (pc = "fault" /\ job.staging >= 4 * N))

(* The second half of it: neither return of the block, the far one through *)
(* the scratch stack and the stub's, takes a word that was written over.   *)
FaultsOnlyHigh == pc = "fault" => job.staging >= 4 * N

(* assembler.rs:919: the segment table is FreeBSD's, with a data segment.  *)
(* The far return's pushes go below the scratch stack, over that entry.    *)
GdataKept == pc = "kernel" => Read(Gdt + GdataSel) = Word(GdataDescriptor)
=============================================================================
