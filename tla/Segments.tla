------------------------------ MODULE Segments ------------------------------
(***************************************************************************)
(* The segment descriptors, the segment registers, the task register and   *)
(* the gates: GdtInit (memory/segment.c) and IdtInit (interrupt/idt.c).    *)
(*                                                                         *)
(* A 32-bit word is the pair <<high half, low half>>.  What the processor  *)
(* makes of a descriptor, a selector or a gate is external.                *)
(***************************************************************************)
EXTENDS Integers

CONSTANTS
  GdtLimitAddr,  \* the low half of the address of the function GdtLimit
  LoaderCs,      \* the code selector the boot loader leaves
  Unset          \* a descriptor, a gate or a register that is not set yet

kGdtNum == 6
kSegSize == <<65535, 65535>>
kSegBaseAddr == <<0, 0>>
kDescriptorFlags == 12
kSegPriority0 == 9
kSegPriority3 == 15
kSegTypeData == 2
kSegTypeCode == 10
kTssBaseAddr == <<49153, 57344>>
sTssSize == <<0, 103>>
kTssAccess == 137
kTssFlags == 1

kKCodeSeg == 8
kKDataSeg == 16
kUCodeSeg == 27
kTssSel == 40

\* The type fields of gates: 32-bit interrupt gate, and trap gate for ring 3.
kIdtExcType == 3584
kIdtIntrType == 3584
kIdtTrapType == 28416
ExcGates == 0 .. 31
IntrGates == 32 .. 255
kIdtSyscallNum == 128

\* gdtr.limit is the address of GdtLimit, cut to 16 bits, where its value was
\* meant: the build has to place the function so that the descriptors are
\* inside.  The Multiboot loader of the Makefile enters with selector 8.
ASSUME LoaderAssumption ==
    /\ GdtLimitAddr \in kGdtNum * 8 - 1 .. 65535
    /\ LoaderCs = kKCodeSeg

\* No descriptor, gate, limit or selector is taken for one that is not set.
ASSUME UnsetAssumption ==
    /\ Unset \notin Int /\ Unset \notin [seg_sel : Int, type : Int]
    /\ Unset \notin [limit_0_15 : Int, limit_16_19 : Int, base_addr_0_15 : Int,
                     base_addr_16_23 : Int, base_addr_24_31 : Int, access : Int, flags : Int]

VARIABLES
  gdt,    \* index -> descriptor
  gdtr,   \* the limit in %gdtr
  sreg,   \* segment register -> selector
  tss_ss0,
  gates,  \* vector -> [seg_sel, type]
  gpc     \* the statement of GdtInit, then of IdtInit

segments == <<gdt, gdtr, sreg, tss_ss0, gates, gpc>>

SegmentsStart ==
    /\ gdt = [k \in 0 .. kGdtNum - 1 |-> Unset]
    /\ gdtr = Unset
    /\ sreg = [r \in {"cs", "ds", "es", "ss", "fs", "gs", "tr"} |->
                 IF r = "cs" THEN LoaderCs ELSE Unset]
    /\ tss_ss0 = Unset
    /\ gates = [v \in ExcGates \cup IntrGates |-> Unset]
    /\ gpc = 0

-----------------------------------------------------------------------------
Access(priority, type) == priority * 16 + type

\* A descriptor whose two upper bytes of the base are swapped.
set_gdt_entry_swapped(base_addr, limit, access, flags) ==
    [limit_0_15 |-> limit[2], limit_16_19 |-> limit[1] % 16,
     base_addr_0_15 |-> base_addr[2], base_addr_16_23 |-> base_addr[1] \div 256,
     base_addr_24_31 |-> base_addr[1] % 256, access |-> access, flags |-> flags]

\* The fields are as wide as the structure makes them.
set_gdt_entry(base_addr, limit, access, flags) ==
    [limit_0_15 |-> limit[2], limit_16_19 |-> limit[1] % 16,
     base_addr_0_15 |-> base_addr[2], base_addr_16_23 |-> base_addr[1] % 256,
     base_addr_24_31 |-> base_addr[1] \div 256, access |-> access % 256, flags |-> flags % 16]

GdtEntries ==
    << set_gdt_entry(<<0, 0>>, <<0, 0>>, 0, 0),
       set_gdt_entry(kSegBaseAddr, kSegSize, Access(kSegPriority0, kSegTypeCode), kDescriptorFlags),
       set_gdt_entry(kSegBaseAddr, kSegSize, Access(kSegPriority0, kSegTypeData), kDescriptorFlags),
       set_gdt_entry(kSegBaseAddr, kSegSize, Access(kSegPriority3, kSegTypeCode), kDescriptorFlags),
       set_gdt_entry(kSegBaseAddr, kSegSize, Access(kSegPriority3, kSegTypeData), kDescriptorFlags),
       set_gdt_entry(kTssBaseAddr, sTssSize, kTssAccess, kTssFlags) >>

SetGdtEntry ==
    /\ gpc < kGdtNum
    /\ gdt' = [gdt EXCEPT ![gpc] = GdtEntries[gpc + 1]]
    /\ gpc' = gpc + 1
    /\ UNCHANGED <<gdtr, sreg, tss_ss0, gates>>

Lgdt ==
    /\ gpc = kGdtNum
    /\ gdtr' = GdtLimitAddr
    /\ gpc' = gpc + 1
    /\ UNCHANGED <<gdt, sreg, tss_ss0, gates>>

-----------------------------------------------------------------------------
(* The processor: the descriptor a selector stands for, and its fields.    *)

Descriptor(sel) == IF (sel - (sel % 8)) + 7 <= gdtr THEN gdt[sel \div 8] ELSE Unset

Base(d) == <<d.base_addr_24_31 * 256 + d.base_addr_16_23, d.base_addr_0_15>>

\* With the granularity flag a limit counts 4 KB units.
Limit(d) ==
    IF d.flags \div 8 = 1
      THEN <<d.limit_16_19 * 4096 + d.limit_0_15 \div 16, (d.limit_0_15 % 16) * 4096 + 4095>>
      ELSE <<d.limit_16_19, d.limit_0_15>>

IsPresent(d) == d.access \div 128 = 1
Dpl(d) == (d.access \div 32) % 4
IsSegment(d) == (d.access \div 16) % 2 = 1
IsCode(d) == IsSegment(d) /\ (d.access \div 8) % 2 = 1
IsWritable(d) == IsSegment(d) /\ ~IsCode(d) /\ (d.access \div 2) % 2 = 1
IsFreeTss(d) == d.access % 32 = 9

\* The whole address space, so that a logical address is a virtual one.
IsFlat(d) == Base(d) = kSegBaseAddr /\ Limit(d) = kSegSize

\* A register that ring 0 may load with the selector.
Loads(r, sel) ==
    LET d == Descriptor(sel) IN
    /\ d # Unset /\ IsPresent(d)
    /\ IF r = "tr" THEN IsFreeTss(d)
       ELSE IF r = "cs" THEN IsCode(d) /\ Dpl(d) = 0 /\ sel % 4 = 0
       ELSE IsWritable(d) /\ Dpl(d) = 0 /\ sel % 4 = 0

\* The gate of a vector lets ring 0 into ring 0, with interrupts off.
Enters(v) == gates[v] # Unset /\ gates[v].type = kIdtIntrType /\ Loads("cs", gates[v].seg_sel)

-----------------------------------------------------------------------------
\* The order in which GdtInit loads the registers.
DataRegs == <<"ds", "es", "ss", "fs", "gs">>

LoadSeg ==
    LET k == gpc - kGdtNum IN
    /\ k \in DOMAIN DataRegs
    /\ Loads(DataRegs[k], kKDataSeg)
    /\ sreg' = [sreg EXCEPT ![DataRegs[k]] = kKDataSeg]
    /\ gpc' = gpc + 1
    /\ UNCHANGED <<gdt, gdtr, tss_ss0, gates>>

IdtStart == kGdtNum + 6

\* IdtInit: the TSS, then the gates of the exceptions, of the interrupts and of
\* the system call, none of them present, then %tr.
SetTss ==
    /\ gpc = IdtStart
    /\ tss_ss0' = kKCodeSeg
    /\ gpc' = gpc + 1
    /\ UNCHANGED <<gdt, gdtr, sreg, gates>>

SetIdtEntry(vectors, seg_sel, type) ==
    gates' = [v \in DOMAIN gates |->
                IF v \in vectors THEN [seg_sel |-> seg_sel, type |-> type] ELSE gates[v]]

\* Interrupt gates with the selector of user code.
SetGatesUser ==
    /\ \/ gpc = IdtStart + 1 /\ SetIdtEntry(ExcGates, kKCodeSeg, kIdtExcType)
       \/ gpc = IdtStart + 2 /\ SetIdtEntry(IntrGates, kUCodeSeg, kIdtIntrType)
       \/ gpc = IdtStart + 3 /\ SetIdtEntry({kIdtSyscallNum}, kUCodeSeg, kIdtTrapType)
    /\ gpc' = gpc + 1
    /\ UNCHANGED <<gdt, gdtr, sreg, tss_ss0>>

SetGates ==
    /\ \/ gpc = IdtStart + 1 /\ SetIdtEntry(ExcGates, kKCodeSeg, kIdtExcType)
       \/ gpc = IdtStart + 2 /\ SetIdtEntry(IntrGates, kKCodeSeg, kIdtIntrType)
       \/ gpc = IdtStart + 3 /\ SetIdtEntry({kIdtSyscallNum}, kUCodeSeg, kIdtTrapType)
    /\ gpc' = gpc + 1
    /\ UNCHANGED <<gdt, gdtr, sreg, tss_ss0>>

\* The processor marks the TSS busy.
Ltr ==
    /\ gpc = IdtStart + 4
    /\ Loads("tr", kTssSel)
    /\ sreg' = [sreg EXCEPT !["tr"] = kTssSel]
    /\ gdt' = [gdt EXCEPT ![kTssSel \div 8].access = @ + 2]
    /\ gpc' = gpc + 1
    /\ UNCHANGED <<gdtr, tss_ss0, gates>>

GdtStep == SetGdtEntry \/ Lgdt \/ LoadSeg
IdtStep == SetTss \/ SetGates \/ Ltr

GdtDone == gpc >= IdtStart
SegmentsDone == gpc = IdtStart + 5

-----------------------------------------------------------------------------
\* "All four segments begin at 0x0 and has a size of 4 GB, so the logical
\* address is equal to the virtual address": that is what the processor reads
\* in the descriptor of every register that is loaded from the new table, and
\* in the task register's it reads the TSS.
SegmentsRight ==
    \A r \in DOMAIN sreg :
      sreg[r] # Unset /\ gdtr # Unset =>
        LET d == Descriptor(sreg[r]) IN
        /\ d # Unset
        /\ IF r = "tr" THEN Base(d) = kTssBaseAddr /\ Limit(d) = sTssSize
           ELSE IsFlat(d) /\ Dpl(d) = 0

=============================================================================
