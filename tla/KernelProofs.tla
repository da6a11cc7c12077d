---------------------------- MODULE KernelProofs ----------------------------
(***************************************************************************)
(* Proofs about the whole boot: every step of Kernel is a step of          *)
(* PagingBoot, a step of Interrupts or leaves both alone, so what is proved*)
(* of them holds of it; the segments and the gates; and the keyboard driver*)
(* against its controller.                                                 *)
(***************************************************************************)
EXTENDS Kernel, BootProofs

-----------------------------------------------------------------------------
(* The whole boot.                                                         *)

\* A step of the kernel is, for the variables of PagingInit, a step of it.
LEMMA StepsPaging == [KNext]_kernel_vars => [PagingStep]_paging
BY Zenon DEF KNext, kernel_vars, Early, Checks, Paging, Gdt, Idt, Register, Ide,
       KeyboardDriver, Device, Typing, RaiseIrq, IrqOf, HandlerOf, ExceptionOf

\* The interrupts of the keyboard are raised by its controller.
LEMMA EdgeRaises == Edge => [Next]_vars
<1> SUFFICES ASSUME Edge PROVE [Next]_vars
  OBVIOUS
<1>1. CASE irr' = irr \cup {kKeyboardVec}
  BY <1>1, KernelAssumption, Zenon DEF Edge, Raise, Next
<1>2. CASE irr' = irr
  BY <1>2, Zenon DEF Edge, vars, tables
<1> QED BY <1>1, <1>2, Zenon DEF Edge

\* A step of the kernel is, for the variables of Interrupts, a step of it: the
\* statements of KeyboardInit before the last stutter, and its early returns
\* are the one of Interrupts.
LEMMA StepsInterrupts == [KNext]_kernel_vars => [Next]_vars
<1> SUFFICES ASSUME [KNext]_kernel_vars PROVE [Next]_vars
  OBVIOUS
<1>1. CASE Early
  BY <1>1, Zenon DEF Early, Checks, Paging, Gdt, Idt
<1>2. CASE Register \/ Ide
  BY <1>2, Zenon DEF Register, Ide, Next, Kernel
<1>3. CASE KeyboardDriver
  <2>1. CASE Write
    BY <2>1, Zenon DEF Write
  <2>2. CASE Read
    BY <2>2, Zenon DEF Read, Next, Kernel, KeyboardInit
  <2>3. CASE Installed
    BY <2>3, Zenon DEF Installed, Next, Kernel, KeyboardInit
  <2> QED BY <1>3, <2>1, <2>2, <2>3, Zenon DEF KeyboardDriver, KeyboardInitStep
<1>4. CASE Device
  BY <1>4, EdgeRaises, Zenon DEF Device, Controller, Command, Data, Send
<1>5. CASE Typing
  BY <1>5, Zenon DEF Typing, KeyHit, Press, Release
<1>6. ASSUME NEW v \in Devices, RaiseIrq(v) \/ IrqOf(v) \/ HandlerOf(v) PROVE [Next]_vars
  <2>1. Raise(v) \/ Irq(v) \/ Return(v)
    BY <1>6, Zenon DEF RaiseIrq, IrqOf, HandlerOf, KeyboardHandler
  <2> QED BY <2>1, Zenon DEF Next
<1>7. ASSUME NEW v \in 0 .. kIdtExcNum - 1, ExceptionOf(v) PROVE [Next]_vars
  BY <1>7, Zenon DEF ExceptionOf, Next
<1>8. CASE UNCHANGED kernel_vars
  BY <1>8, Zenon DEF kernel_vars
<1> QED BY <1>1, <1>2, <1>3, <1>4, <1>5, <1>6, <1>7, <1>8, Zenon DEF KNext

\* The kernel with its paging, its segments and its keyboard driver in detail
\* implements the abstract boot of Interrupts.
THEOREM KernelImplements == KSpec => ImplementsInterrupts
<1>1. KInit => Init
  BY Zenon DEF KInit
<1> QED BY <1>1, StepsInterrupts, PTL DEF KSpec, ImplementsInterrupts, Spec

\* An open IRQ has its driver's handler, in the whole boot.
THEOREM KernelOpenIrqs == KSpec => []OpenIrqHasHandler
<1>1. KInit => OpenInv
  BY InitOpen, Zenon DEF KInit
<1>2. OpenInv /\ [KNext]_kernel_vars => OpenInv'
  BY NextOpen, StepsInterrupts, Zenon
<1> QED BY <1>1, <1>2, OpenImplies, PTL DEF KSpec

-----------------------------------------------------------------------------
(* The segments and the gates.                                             *)

\* What GdtInit and IdtInit have written up to statement n: the descriptors,
\* the last of which is busy once %tr is loaded, %gdtr, the registers and the
\* gates.
DescriptorAt(k, n) ==
    IF k >= n THEN Unset
    ELSE IF k = 5 /\ n = IdtStart + 5 THEN [GdtEntries[6] EXCEPT !.access = kTssAccess + 2]
    ELSE GdtEntries[k + 1]

SelectorAt(r, n) ==
    IF r = "cs" THEN kKCodeSeg
    ELSE IF r = "tr" THEN IF n > IdtStart + 4 THEN kTssSel ELSE Unset
    ELSE IF \E k \in 1 .. 5 : DataRegs[k] = r /\ n > kGdtNum + k THEN kKDataSeg
    ELSE Unset

GatesAt(n) ==
    /\ n > IdtStart + 1 =>
         \A v \in ExcGates : gates[v] = [seg_sel |-> kKCodeSeg, type |-> kIdtExcType]
    /\ n > IdtStart + 2 =>
         \A v \in IntrGates \ {kIdtSyscallNum} :
           gates[v] = [seg_sel |-> kKCodeSeg, type |-> kIdtIntrType]

SegmentRegs == {"cs", "ds", "es", "ss", "fs", "gs", "tr"}

SegmentsInv ==
    /\ gpc \in 0 .. IdtStart + 5
    /\ gdt = [k \in 0 .. kGdtNum - 1 |-> DescriptorAt(k, gpc)]
    /\ gdtr = IF gpc > kGdtNum THEN GdtLimitAddr ELSE Unset
    /\ sreg = [r \in SegmentRegs |-> SelectorAt(r, gpc)]
    /\ DOMAIN gates = ExcGates \cup IntrGates /\ GatesAt(gpc)
    /\ boot > 0 => SegmentsDone

\* An interval whose ends are left symbolic.
LEMMA RangeBounds ==
  ASSUME NEW a \in Int, NEW b \in Int, NEW x \in a .. b
  PROVE  x \in Int /\ a <= x /\ x <= b
OBVIOUS

\* The entries of the table, field by field.
LEMMA EntryFacts ==
  /\ DOMAIN GdtEntries = 1 .. 6
  /\ GdtEntries[2] = [limit_0_15 |-> 65535, limit_16_19 |-> 15, base_addr_0_15 |-> 0,
                      base_addr_16_23 |-> 0, base_addr_24_31 |-> 0, access |-> 154,
                      flags |-> 12]
  /\ GdtEntries[3] = [limit_0_15 |-> 65535, limit_16_19 |-> 15, base_addr_0_15 |-> 0,
                      base_addr_16_23 |-> 0, base_addr_24_31 |-> 0, access |-> 146,
                      flags |-> 12]
  /\ GdtEntries[6] = [limit_0_15 |-> 103, limit_16_19 |-> 0, base_addr_0_15 |-> 57344,
                      base_addr_16_23 |-> 1, base_addr_24_31 |-> 192, access |-> 137,
                      flags |-> 1]
<1> USE DEF set_gdt_entry, Access, kSegBaseAddr, kSegSize, kDescriptorFlags, kSegPriority0,
            kSegPriority3, kSegTypeCode, kSegTypeData, kTssBaseAddr, sTssSize, kTssAccess, kTssFlags
<1>1. DOMAIN GdtEntries = 1 .. 6
  BY DEF GdtEntries
<1>2. GdtEntries[2] = set_gdt_entry(kSegBaseAddr, kSegSize,
                         Access(kSegPriority0, kSegTypeCode), kDescriptorFlags)
  BY DEF GdtEntries
<1>3. GdtEntries[3] = set_gdt_entry(kSegBaseAddr, kSegSize,
                         Access(kSegPriority0, kSegTypeData), kDescriptorFlags)
  BY DEF GdtEntries
<1>4. GdtEntries[6] = set_gdt_entry(kTssBaseAddr, sTssSize, kTssAccess, kTssFlags)
  BY DEF GdtEntries
<1>5. 65535 % 16 = 15 /\ 9 * 16 + 10 = 154 /\ 9 * 16 + 2 = 146 /\ 154 % 256 = 154
      /\ 146 % 256 = 146 /\ 12 % 16 = 12 /\ 49153 % 256 = 1 /\ 49153 \div 256 = 192
      /\ 137 % 256 = 137 /\ 1 % 16 = 1 /\ 0 % 16 = 0 /\ 0 % 256 = 0 /\ 0 \div 256 = 0
  OBVIOUS
<1> QED BY <1>1, <1>2, <1>3, <1>4, <1>5

\* Nothing is set when kernel_start begins.
LEMMA SegmentsInitInv == KInit => SegmentsInv
<1>0. IdtStart = 12 /\ kGdtNum = 6
  BY DEF IdtStart, kGdtNum
<1>a. LoaderCs = kKCodeSeg
  BY LoaderAssumption
<1>1. \A k \in 0 .. 5 : DescriptorAt(k, 0) = Unset
  BY DEF DescriptorAt
<1>2. \A r \in SegmentRegs : SelectorAt(r, 0) = IF r = "cs" THEN LoaderCs ELSE Unset
  <2>1. \A k \in 1 .. 5 : ~ (0 > 6 + k)
    OBVIOUS
  <2>2. ~ (0 > 12 + 4)
    OBVIOUS
  <2> QED BY <1>0, <1>a, <2>1, <2>2, Zenon DEF SelectorAt
<1> SUFFICES ASSUME KInit PROVE SegmentsInv
  OBVIOUS
<1>3. gdt = [k \in 0 .. kGdtNum - 1 |-> DescriptorAt(k, gpc)] /\ gpc = 0
  BY <1>0, <1>1 DEF KInit, SegmentsStart
<1>4. sreg = [r \in SegmentRegs |-> SelectorAt(r, gpc)]
  BY <1>2, Zenon DEF KInit, SegmentsStart, SegmentRegs
<1>5. boot = 0
  BY Zenon DEF KInit, Init
<1> QED BY <1>0, <1>3, <1>4, <1>5 DEF SegmentsInv, GatesAt, KInit, SegmentsStart

\* kernel_start begins to register handlers when IdtInit is done.
LEMMA RegistersLater ==
  ASSUME SegmentsInv, [KNext]_kernel_vars
  PROVE  boot' > 0 => boot > 0 \/ SegmentsDone
<1>1. CASE Early \/ Typing \/ UNCHANGED kernel_vars
  BY <1>1, Zenon DEF Early, Checks, Paging, Gdt, Idt, Typing, KeyHit, Press, Release, kernel_vars, vars
<1>2. CASE Register \/ Ide
  BY <1>2, Zenon DEF Register, Ide
<1>3. CASE KeyboardDriver
  BY <1>3 DEF KeyboardDriver, KeyboardInitStep, Write, Read, Installed, Running,
       AtKeyboardInit, At, kIdtExcNum, vars
<1>4. CASE Device
  BY <1>4, Zenon DEF Device
<1>5. ASSUME NEW v \in Devices, RaiseIrq(v) \/ IrqOf(v) \/ HandlerOf(v)
      PROVE  boot' > 0 => boot > 0 \/ SegmentsDone
  BY <1>5, Zenon DEF RaiseIrq, IrqOf, HandlerOf, KeyboardHandler, Irq, Return, Raise
<1>6. ASSUME NEW v \in 0 .. kIdtExcNum - 1, ExceptionOf(v)
      PROVE  boot' > 0 => boot > 0 \/ SegmentsDone
  BY <1>6, Zenon DEF ExceptionOf, Exception
<1> QED BY <1>1, <1>2, <1>3, <1>4, <1>5, <1>6, Zenon DEF KNext

\* The data registers are loaded one after the other.
LEMMA SelectorNext ==
  ASSUME NEW k \in 1 .. 5, NEW r \in SegmentRegs
  PROVE  SelectorAt(r, kGdtNum + k + 1) =
           IF r = DataRegs[k] THEN kKDataSeg ELSE SelectorAt(r, kGdtNum + k)
<1>1. /\ DataRegs[1] = "ds" /\ DataRegs[2] = "es" /\ DataRegs[3] = "ss"
      /\ DataRegs[4] = "fs" /\ DataRegs[5] = "gs"
  BY Zenon DEF DataRegs
<1>2. \A m \in 1 .. 5 : /\ kGdtNum + k + 1 > kGdtNum + m <=> m <= k
                        /\ kGdtNum + k > kGdtNum + m <=> m < k
  BY DEF kGdtNum
<1>3. ~ (kGdtNum + k + 1 > IdtStart + 4) /\ ~ (kGdtNum + k > IdtStart + 4)
  BY DEF kGdtNum, IdtStart
<1>4. DataRegs[k] \notin {"cs", "tr"}
  BY <1>1
<1>5. (\E m \in 1 .. 5 : DataRegs[m] = r /\ m <= k)
        <=> r = DataRegs[k] \/ \E m \in 1 .. 5 : DataRegs[m] = r /\ m < k
  OBVIOUS
<1> QED BY <1>2, <1>3, <1>4, <1>5, Zenon DEF SelectorAt

\* Outside the loads no register changes.
LEMMA SelectorSame ==
  ASSUME NEW n \in 0 .. 15, n <= 6 \/ n >= 12, NEW r \in SegmentRegs
  PROVE  SelectorAt(r, n + 1) = SelectorAt(r, n)
<1>1. \A m \in 1 .. 5 : n + 1 > kGdtNum + m <=> n > kGdtNum + m
  BY DEF kGdtNum
<1>2. ~ (n + 1 > IdtStart + 4) /\ ~ (n > IdtStart + 4)
  BY DEF kGdtNum, IdtStart
<1> QED BY <1>1, <1>2, Zenon DEF SelectorAt

\* No descriptor changes after the sixth statement but at %tr's load.
LEMMA DescriptorSame ==
  ASSUME NEW n \in 6 .. 15, NEW k \in 0 .. 5
  PROVE  DescriptorAt(k, n + 1) = DescriptorAt(k, n)
BY DEF DescriptorAt, IdtStart, kGdtNum

\* Every statement of GdtInit and IdtInit writes what it should.
LEMMA SegmentsNextInv == SegmentsInv /\ [KNext]_kernel_vars => SegmentsInv'
<1> SUFFICES ASSUME SegmentsInv, [KNext]_kernel_vars PROVE SegmentsInv'
  OBVIOUS
<1>0. IdtStart = 12 /\ kGdtNum = 6
  BY DEF IdtStart, kGdtNum
<1>a. /\ gpc \in 0 .. 17
      /\ gdt = [k \in 0 .. 5 |-> DescriptorAt(k, gpc)]
      /\ sreg = [r \in SegmentRegs |-> SelectorAt(r, gpc)]
      /\ gdtr = IF gpc > 6 THEN GdtLimitAddr ELSE Unset
  BY <1>0 DEF SegmentsInv
<1>b. boot' > 0 => boot > 0 \/ SegmentsDone
  BY RegistersLater, Zenon
<1>c. SUFFICES /\ gpc' \in 0 .. 17
               /\ gdt' = [k \in 0 .. 5 |-> DescriptorAt(k, gpc')]
               /\ sreg' = [r \in SegmentRegs |-> SelectorAt(r, gpc')]
               /\ gdtr' = IF gpc' > 6 THEN GdtLimitAddr ELSE Unset
               /\ DOMAIN gates' = ExcGates \cup IntrGates
               /\ GatesAt(gpc)'
               /\ boot' > 0 => gpc' = 17
  BY <1>0 DEF SegmentsInv, SegmentsDone
<1>d. boot > 0 => gpc = 17
  BY <1>0 DEF SegmentsInv, SegmentsDone
<1>1. CASE UNCHANGED segments
  <2>1. boot' > 0 => gpc' = 17
    BY <1>0, <1>1, <1>b, <1>d DEF SegmentsDone, segments
  <2> QED BY <1>a, <1>1, <2>1, Zenon DEF SegmentsInv, GatesAt, segments
<1>2. CASE SetGdtEntry
  <2>1. /\ gpc \in 0 .. 5 /\ gpc' = gpc + 1 /\ gdt' = [gdt EXCEPT ![gpc] = GdtEntries[gpc + 1]]
        /\ gdtr' = gdtr /\ sreg' = sreg /\ gates' = gates
    BY <1>0, <1>2, <1>a DEF SetGdtEntry
  <2>2. \A k \in 0 .. 5 : DescriptorAt(k, gpc + 1) =
                            IF k = gpc THEN GdtEntries[k + 1] ELSE DescriptorAt(k, gpc)
    BY <1>0, <2>1 DEF DescriptorAt
  <2>3. gdt' = [k \in 0 .. 5 |-> DescriptorAt(k, gpc')]
    BY <1>a, <2>1, <2>2, Zenon
  <2>4. sreg' = [r \in SegmentRegs |-> SelectorAt(r, gpc')]
    BY <1>a, <2>1, SelectorSame
  <2>5. ~ (boot' > 0)
    BY <1>0, <1>b, <1>d, <2>1 DEF SegmentsDone
  <2>6. GatesAt(gpc)' /\ DOMAIN gates' = ExcGates \cup IntrGates
    BY <1>0, <2>1 DEF GatesAt, SegmentsInv
  <2> QED BY <1>a, <2>1, <2>3, <2>4, <2>5, <2>6
<1>3. CASE Lgdt
  <2>1. /\ gpc = 6 /\ gpc' = 7 /\ gdt' = gdt
        /\ gdtr' = GdtLimitAddr /\ sreg' = sreg /\ gates' = gates
    BY <1>0, <1>3, <1>a DEF Lgdt
  <2>3. gdt' = [k \in 0 .. 5 |-> DescriptorAt(k, gpc')]
    BY <1>a, <2>1, DescriptorSame
  <2>4. sreg' = [r \in SegmentRegs |-> SelectorAt(r, gpc')]
    BY <1>a, <2>1, SelectorSame
  <2>5. ~ (boot' > 0)
    BY <1>0, <1>b, <1>d, <2>1 DEF SegmentsDone
  <2>6. GatesAt(gpc)' /\ DOMAIN gates' = ExcGates \cup IntrGates
    BY <1>0, <2>1 DEF GatesAt, SegmentsInv
  <2> QED BY <1>a, <2>1, <2>3, <2>4, <2>5, <2>6
<1>4. CASE LoadSeg
  <2> DEFINE k == gpc - 6
  <2>1. /\ k \in 1 .. 5 /\ gpc = 6 + k /\ gpc' = 6 + k + 1 /\ gdt' = gdt
        /\ gdtr' = gdtr /\ sreg' = [sreg EXCEPT ![DataRegs[k]] = kKDataSeg] /\ gates' = gates
    BY <1>0, <1>4, <1>a DEF LoadSeg, DataRegs
  <2> HIDE DEF k
  <2>3. gdt' = [m \in 0 .. 5 |-> DescriptorAt(m, gpc')]
    BY <1>a, <2>1, DescriptorSame
  <2>4. sreg' = [r \in SegmentRegs |-> SelectorAt(r, gpc')]
    BY <1>0, <1>a, <2>1, SelectorNext, Zenon
  <2>5. ~ (boot' > 0)
    BY <1>0, <1>b, <1>d, <2>1 DEF SegmentsDone
  <2>6. GatesAt(gpc)' /\ DOMAIN gates' = ExcGates \cup IntrGates
    BY <1>0, <2>1 DEF GatesAt, SegmentsInv
  <2> QED BY <1>a, <2>1, <2>3, <2>4, <2>5, <2>6
<1>5. CASE SetTss \/ SetGates
  <2>1. /\ gpc \in 12 .. 15 /\ gpc' = gpc + 1 /\ gdt' = gdt /\ gdtr' = gdtr /\ sreg' = sreg
    BY <1>0, <1>5, <1>a DEF SetTss, SetGates
  <2>3. gdt' = [k \in 0 .. 5 |-> DescriptorAt(k, gpc')]
    BY <1>a, <2>1, DescriptorSame
  <2>4. sreg' = [r \in SegmentRegs |-> SelectorAt(r, gpc')]
    BY <1>a, <2>1, SelectorSame
  <2>5. ~ (boot' > 0)
    BY <1>0, <1>b, <1>d, <2>1 DEF SegmentsDone
  <2>6. DOMAIN gates' = ExcGates \cup IntrGates
    BY <1>0, <1>5, <2>1, Zenon DEF SegmentsInv, SetTss, SetGates, SetIdtEntry
  <2>7. GatesAt(gpc)'
    <3>1. CASE SetTss
      BY <1>0, <2>1, <3>1 DEF SetTss, GatesAt
    <3>2. CASE gpc = 13
      BY <1>0, <1>5, <2>1, <3>2 DEF SetTss, SetGates, SetIdtEntry, SegmentsInv, GatesAt
    <3>3. CASE gpc = 14
      <4>1. \A v \in ExcGates \cup IntrGates :
              gates'[v] = IF v \in IntrGates THEN [seg_sel |-> kKCodeSeg, type |-> kIdtIntrType]
                          ELSE gates[v]
        BY <1>0, <1>5, <3>3 DEF SetTss, SetGates, SetIdtEntry, SegmentsInv
      <4>2. \A v \in ExcGates : v \notin IntrGates
        BY DEF ExcGates, IntrGates
      <4>3. \A v \in ExcGates : gates[v] = [seg_sel |-> kKCodeSeg, type |-> kIdtExcType]
        BY <1>0, <3>3 DEF SegmentsInv, GatesAt
      <4>4. gpc' = 15
        BY <2>1, <3>3
      <4> QED BY <1>0, <4>1, <4>2, <4>3, <4>4, Zenon DEF GatesAt
    <3>4. CASE gpc = 15
      <4>1. \A v \in ExcGates \cup IntrGates : v # kIdtSyscallNum => gates'[v] = gates[v]
        BY <1>0, <1>5, <3>4 DEF SetTss, SetGates, SetIdtEntry, SegmentsInv
      <4>2. \A v \in ExcGates : v # kIdtSyscallNum
        BY DEF ExcGates, kIdtSyscallNum
      <4>3. GatesAt(15) /\ gpc' = 16
        BY <2>1, <3>4 DEF SegmentsInv
      <4> QED BY <1>0, <4>1, <4>2, <4>3 DEF GatesAt
    <3> QED BY <1>0, <1>5, <2>1, <3>1, <3>2, <3>3, <3>4 DEF SetGates
  <2> QED BY <1>a, <2>1, <2>3, <2>4, <2>5, <2>6, <2>7
<1>7. CASE Ltr
  <2>1. /\ gpc = 16 /\ gpc' = 17 /\ gdtr' = gdtr /\ gates' = gates
        /\ sreg' = [sreg EXCEPT !["tr"] = kTssSel]
        /\ gdt' = [gdt EXCEPT ![kTssSel \div 8].access = @ + 2]
    BY <1>0, <1>7 DEF Ltr
  <2>2. \A k \in 0 .. 4 : DescriptorAt(k, 17) = DescriptorAt(k, 16)
    BY <1>0 DEF DescriptorAt
  <2>3. /\ DescriptorAt(5, 16) = GdtEntries[6]
        /\ DescriptorAt(5, 17) = [GdtEntries[6] EXCEPT !.access = kTssAccess + 2]
    BY <1>0 DEF DescriptorAt
  <2>4. [GdtEntries[6] EXCEPT !.access = @ + 2] = [GdtEntries[6] EXCEPT !.access = kTssAccess + 2]
    BY EntryFacts DEF kTssAccess
  <2>5. gdt' = [k \in 0 .. 5 |-> DescriptorAt(k, gpc')]
    <3>1. kTssSel \div 8 = 5
      BY DEF kTssSel
    <3>2. \A k \in 0 .. 5 : gdt[k] = DescriptorAt(k, 16)
      BY <1>a, <2>1, Zenon
    <3>3. gdt' = [k \in 0 .. 5 |-> IF k = 5 THEN [gdt[5] EXCEPT !.access = @ + 2] ELSE gdt[k]]
      BY <1>a, <2>1, <3>1, Zenon
    <3>4. gdt[5] = GdtEntries[6] /\ \A k \in 0 .. 4 : gdt[k] = DescriptorAt(k, 17)
      BY <2>2, <2>3, <3>2
    <3>5. [gdt[5] EXCEPT !.access = @ + 2] = DescriptorAt(5, 17)
      BY <2>3, <2>4, <3>4, Zenon
    <3>6. \A k \in 0 .. 5 : k = 5 \/ k \in 0 .. 4
      OBVIOUS
    <3>7. \A k \in 0 .. 5 : (IF k = 5 THEN [gdt[5] EXCEPT !.access = @ + 2] ELSE gdt[k])
                             = DescriptorAt(k, 17)
      BY <3>4, <3>5, <3>6, Zenon
    <3>8. gpc' = 17
      BY <2>1, Zenon
    <3> QED BY <3>3, <3>7, <3>8, Zenon
  <2>6. \A r \in SegmentRegs : SelectorAt(r, 17) =
                                IF r = "tr" THEN kTssSel ELSE SelectorAt(r, 16)
    <3>1. \A m \in 1 .. 5 : 17 > kGdtNum + m /\ 16 > kGdtNum + m
      BY <1>0
    <3>2. 17 > IdtStart + 4
      BY <1>0
    <3> QED BY <3>1, <3>2, Zenon DEF SelectorAt
  <2>7. sreg' = [r \in SegmentRegs |-> SelectorAt(r, gpc')]
    BY <1>a, <2>1, <2>6, Zenon DEF SegmentRegs
  <2>8. GatesAt(gpc)' /\ DOMAIN gates' = ExcGates \cup IntrGates
    BY <1>0, <2>1 DEF GatesAt, SegmentsInv
  <2> QED BY <1>a, <2>1, <2>5, <2>7, <2>8
<1>8. SetGdtEntry \/ Lgdt \/ LoadSeg \/ SetTss \/ SetGates \/ Ltr \/ UNCHANGED segments
  BY Zenon DEF KNext, kernel_vars, Early, Checks, Paging, Gdt, Idt, Register, Ide,
         KeyboardDriver, Device, Typing, RaiseIrq, IrqOf, HandlerOf, ExceptionOf, GdtStep, IdtStep
<1> QED BY <1>1, <1>2, <1>3, <1>4, <1>5, <1>7, <1>8, Zenon

\* What the processor reads in the descriptors of the table GdtInit loads.
LEMMA DescriptorFacts ==
  ASSUME SegmentsInv, gpc > kGdtNum
  PROVE  /\ LET d == Descriptor(kKCodeSeg)
            IN  d # Unset /\ IsPresent(d) /\ IsFlat(d) /\ Dpl(d) = 0 /\ IsCode(d)
         /\ LET d == Descriptor(kKDataSeg) IN d # Unset /\ IsFlat(d) /\ Dpl(d) = 0
         /\ LET d == Descriptor(kTssSel)
            IN  d # Unset /\ Base(d) = kTssBaseAddr /\ Limit(d) = sTssSize
<1>0. IdtStart = 12 /\ kGdtNum = 6
  BY DEF IdtStart, kGdtNum
<1> DEFINE busy == [GdtEntries[6] EXCEPT !.access = kTssAccess + 2]
           type == [limit_0_15 : Int, limit_16_19 : Int, base_addr_0_15 : Int,
                    base_addr_16_23 : Int, base_addr_24_31 : Int, access : Int, flags : Int]
<1>1. /\ gdtr \in Nat /\ gdtr >= 47
      /\ gdt[1] = GdtEntries[2] /\ gdt[2] = GdtEntries[3]
      /\ gdt[5] = GdtEntries[6] \/ gdt[5] = busy
  <2>1. gpc \in 7 .. 17
    BY <1>0 DEF SegmentsInv
  <2>2. gdtr = GdtLimitAddr
    BY Zenon DEF SegmentsInv
  <2>3. GdtLimitAddr \in Nat /\ GdtLimitAddr >= 47
    <3>1. kGdtNum * 8 - 1 \in Int /\ kGdtNum * 8 - 1 >= 47
      BY <1>0
    <3>2. GdtLimitAddr \in kGdtNum * 8 - 1 .. 65535
      BY LoaderAssumption
    <3>3. GdtLimitAddr \in Int /\ kGdtNum * 8 - 1 <= GdtLimitAddr
      BY <3>1, <3>2, RangeBounds
    <3> QED BY <3>1, <3>3
  <2>4. gdt = [k \in 0 .. 5 |-> DescriptorAt(k, gpc)]
    BY <1>0 DEF SegmentsInv
  <2>5. DescriptorAt(1, gpc) = GdtEntries[2] /\ DescriptorAt(2, gpc) = GdtEntries[3]
    BY <2>1 DEF DescriptorAt
  <2>6. DescriptorAt(5, gpc) = GdtEntries[6] \/ DescriptorAt(5, gpc) = busy
    BY <2>1 DEF DescriptorAt
  <2> HIDE DEF busy
  <2>7. gdt[1] = DescriptorAt(1, gpc) /\ gdt[2] = DescriptorAt(2, gpc) /\ gdt[5] = DescriptorAt(5, gpc)
    BY <2>4
  <2> QED BY <2>2, <2>3, <2>5, <2>6, <2>7, Zenon
<1>2. /\ Descriptor(kKCodeSeg) = GdtEntries[2] /\ Descriptor(kKDataSeg) = GdtEntries[3]
      /\ Descriptor(kTssSel) = gdt[5]
  <2>1. /\ (8 - (8 % 8)) + 7 <= gdtr /\ 8 \div 8 = 1 /\ (16 - (16 % 8)) + 7 <= gdtr
        /\ 16 \div 8 = 2 /\ (40 - (40 % 8)) + 7 <= gdtr /\ 40 \div 8 = 5
    BY <1>1
  <2> HIDE DEF busy
  <2> QED BY <1>1, <2>1, Zenon DEF Descriptor, kKCodeSeg, kKDataSeg, kTssSel
<1>3. /\ GdtEntries[2] # Unset /\ GdtEntries[3] # Unset /\ gdt[5] # Unset
  <2>1. GdtEntries[2] \in type /\ GdtEntries[3] \in type /\ GdtEntries[6] \in type
    BY EntryFacts
  <2>2. busy \in type
    BY <2>1 DEF kTssAccess
  <2>3. Unset \notin type
    BY UnsetAssumption, Zenon
  <2> HIDE DEF busy, type
  <2> QED BY <1>1, <2>1, <2>2, <2>3, Zenon
<1>4. /\ IsPresent(GdtEntries[2]) /\ Dpl(GdtEntries[2]) = 0 /\ IsCode(GdtEntries[2])
      /\ Dpl(GdtEntries[3]) = 0
  BY EntryFacts DEF IsPresent, Dpl, IsCode, IsSegment
<1>5. IsFlat(GdtEntries[2]) /\ IsFlat(GdtEntries[3])
  BY EntryFacts DEF IsFlat, Base, Limit, kSegBaseAddr, kSegSize
<1>6. Base(gdt[5]) = kTssBaseAddr /\ Limit(gdt[5]) = sTssSize
  <2>1. /\ busy.flags = 1 /\ busy.limit_16_19 = 0 /\ busy.limit_0_15 = 103
        /\ busy.base_addr_24_31 = 192 /\ busy.base_addr_16_23 = 1 /\ busy.base_addr_0_15 = 57344
    BY EntryFacts
  <2> HIDE DEF busy
  <2>2. Base(busy) = kTssBaseAddr /\ Limit(busy) = sTssSize
    BY <2>1 DEF Base, Limit, kTssBaseAddr, sTssSize
  <2>3. Base(GdtEntries[6]) = kTssBaseAddr /\ Limit(GdtEntries[6]) = sTssSize
    BY EntryFacts DEF Base, Limit, kTssBaseAddr, sTssSize
  <2> QED BY <1>1, <2>2, <2>3, Zenon
<1> QED BY <1>2, <1>3, <1>4, <1>5, <1>6, Zenon

\* "All four segments begin at 0x0 and has a size of 4 GB" (segment.h:14-15), as
\* the processor reads the descriptors, in every state of the boot.
THEOREM KernelSegments == KSpec => []SegmentsRight
<1>1. SegmentsInv => SegmentsRight
  <2> SUFFICES ASSUME SegmentsInv, NEW r \in DOMAIN sreg, sreg[r] # Unset, gdtr # Unset
               PROVE  /\ Descriptor(sreg[r]) # Unset
                      /\ IF r = "tr" THEN /\ Base(Descriptor(sreg[r])) = kTssBaseAddr
                                         /\ Limit(Descriptor(sreg[r])) = sTssSize
                         ELSE IsFlat(Descriptor(sreg[r])) /\ Dpl(Descriptor(sreg[r])) = 0
    BY Zenon DEF SegmentsRight
  <2>1. gpc > kGdtNum
    BY Zenon DEF SegmentsInv
  <2>2. r \in SegmentRegs /\ sreg[r] = SelectorAt(r, gpc)
    BY Zenon DEF SegmentsInv
  <2>3. IF r = "tr" THEN sreg[r] = kTssSel ELSE sreg[r] \in {kKCodeSeg, kKDataSeg}
    BY <2>2, Zenon DEF SelectorAt
  <2> QED BY <2>1, <2>3, DescriptorFacts, Zenon
<1> QED BY <1>1, SegmentsInitInv, SegmentsNextInv, PTL DEF KSpec

\* Every gate that IntrInit and the drivers enable leads into ring 0 through a
\* flat code segment, and an interrupted kernel_start can be returned to.
THEOREM KernelGates == KSpec => []GatesEnterKernel
<1>1. SegmentsInv /\ Invariant => GatesEnterKernel
  <2> SUFFICES ASSUME SegmentsInv, Invariant, Booted
               PROVE  /\ \A v \in idt \ {kSyscallVec} :
                           Enters(v) /\ IsFlat(Descriptor(gates[v].seg_sel))
                      /\ Loads("cs", sreg["cs"])
    BY Zenon DEF GatesEnterKernel
  <2>1. gpc = 17 /\ gpc > kGdtNum /\ IdtStart = 12
    BY DEF SegmentsInv, Booted, SegmentsDone, kIdtExcNum, IdtStart, kGdtNum
  <2>2. Loads("cs", kKCodeSeg)
    BY <2>1, DescriptorFacts DEF Loads, kKCodeSeg
  <2>3. sreg["cs"] = kKCodeSeg
    BY Zenon DEF SegmentsInv, SelectorAt, SegmentRegs
  <2>4. ASSUME NEW v \in idt \ {kSyscallVec}
        PROVE  gates[v] = [seg_sel |-> kKCodeSeg, type |-> kIdtIntrType]
    <3>1. v \in ExcGates \/ v \in IntrGates \ {kIdtSyscallNum}
      BY DEF Invariant, TypeOK, Vectors, kIdtEntryNum, ExcGates, IntrGates, kSyscallVec,
             kIdtSyscallNum
    <3> QED BY <2>1, <3>1 DEF SegmentsInv, GatesAt, kIdtExcType, kIdtIntrType
  <2>5. \A v \in idt \ {kSyscallVec} : gates[v] # Unset
    BY <2>4, UnsetAssumption DEF kKCodeSeg, kIdtIntrType
  <2>6. IsFlat(Descriptor(kKCodeSeg))
    BY <2>1, DescriptorFacts, Zenon
  <2>7. ASSUME NEW v \in idt \ {kSyscallVec}
        PROVE  Enters(v) /\ IsFlat(Descriptor(gates[v].seg_sel))
    <3>1. gates[v].seg_sel = kKCodeSeg /\ gates[v].type = kIdtIntrType
      BY <2>4
    <3> QED BY <2>2, <2>5, <2>6, <3>1, Zenon DEF Enters
  <2> QED BY <2>2, <2>3, <2>7, Zenon
<1>2. KInit => Invariant
  BY InitInvariant, Zenon DEF KInit
<1>3. Invariant /\ [KNext]_kernel_vars => Invariant'
  BY NextInvariant, StepsInterrupts, Zenon
<1> QED BY <1>1, <1>2, <1>3, SegmentsInitInv, SegmentsNextInv, PTL DEF KSpec

-----------------------------------------------------------------------------
(* The keyboard driver.                                                     *)

\* The last byte written by the statements before l.
Written(l) ==
    CASE l = 2 -> [port |-> "cmd", byte |-> 173]
      [] l \in {3, 4} -> [port |-> "cmd", byte |-> 167]
      [] l \in {5, 15} -> [port |-> "cmd", byte |-> 96]
      [] l = 6 -> [port |-> "data", byte |-> 4]
      [] l \in {7, 8} -> [port |-> "cmd", byte |-> 170]
      [] l \in {9, 10} -> [port |-> "cmd", byte |-> 171]
      [] l = 11 -> [port |-> "cmd", byte |-> 174]
      [] l \in {12, 13, 14} -> [port |-> "data", byte |-> 255]
      [] OTHER -> [port |-> "data", byte |-> 5]

\* The program KeyboardInit is, line by line.
LEMMA StatementFacts ==
  /\ DOMAIN Statements = 1 .. 15 /\ Len(Statements) = 15
  /\ \A l \in {1, 2, 4, 5, 6, 8, 10, 11, 14, 15} :
       /\ Statements[l].op = "write"
       /\ [port |-> Statements[l].port, byte |-> Statements[l].byte] = Written(l + 1)
  /\ \A l \in {3, 7, 9, 12, 13} : Statements[l].op \in {"read", "inb"}
  /\ Statements[3] = In(Any) /\ Statements[13].byte = 170
<1> USE DEF W, R, In, kDisablePort1, kDisablePort2, kWCtrlConfig, kCtrlConfig,
            kCtrlSelfTest, kTestPort1, kEnablePort1, kResetDevice, TestPassed
<1>1. DOMAIN Statements = 1 .. 15 /\ Len(Statements) = 15
  BY DEF Statements
<1>2. /\ Statements[1] = W("cmd", 173) /\ Statements[2] = W("cmd", 167)
      /\ Statements[4] = W("cmd", 96) /\ Statements[5] = W("data", 4)
      /\ Statements[6] = W("cmd", 170)
  BY Zenon DEF Statements
<1>3. /\ Statements[8] = W("cmd", 171)
      /\ Statements[10] = W("cmd", 174) /\ Statements[11] = W("data", 255)
      /\ Statements[14] = W("cmd", 96) /\ Statements[15] = W("data", 5)
  BY DEF Statements
<1>4. /\ Statements[3] = In(Any) /\ Statements[7] = R(85) /\ Statements[9] = R(0)
      /\ Statements[12] = R(Any) /\ Statements[13] = In(170)
  BY Zenon DEF Statements
<1>5. \A l \in {1, 2, 4, 5, 6} :
        /\ Statements[l].op = "write"
        /\ [port |-> Statements[l].port, byte |-> Statements[l].byte] = Written(l + 1)
  BY <1>2 DEF Written
<1>6. \A l \in {8, 10, 11, 14, 15} :
        /\ Statements[l].op = "write"
        /\ [port |-> Statements[l].port, byte |-> Statements[l].byte] = Written(l + 1)
  BY <1>3 DEF Written
<1>7. /\ \A l \in {3, 7, 9, 12, 13} : Statements[l].op \in {"read", "inb"}
      /\ Statements[13].byte = 170
  BY <1>4
<1> QED BY <1>1, <1>4, <1>5, <1>6, <1>7

\* The bytes on their way, and where they came from.
Byte == 0 .. 255
Buffered == [from : {"keyboard", "controller"}, byte : Byte]

KeyboardTypeOK ==
    /\ line \in 1 .. 16
    /\ inbuf \in {<<>>, <<Written(line)>>} /\ (line = 1 => inbuf = <<>>)
    /\ outbuf = <<>> \/ \E o \in Buffered : outbuf = <<o>>
    /\ data \in Byte
    /\ sends \in Seq(Byte)
    /\ key_counter \in 0 .. 2 /\ cur \in Int
    /\ port1 \in BOOLEAN /\ int1 \in BOOLEAN /\ tested \in BOOLEAN /\ attached \in BOOLEAN
    /\ stale \in BOOLEAN

\* What the controller knows at each statement: whether it waits for the
\* configuration, whether the port is open, and whether it interrupts.
ControllerInStep ==
    /\ wants = kWCtrlConfig => line \in {5, 6, 15, 16}
    /\ line \in {5, 15} /\ inbuf = <<>> => wants = kWCtrlConfig
    /\ line \in {6, 16} /\ inbuf # <<>> => wants = kWCtrlConfig
    /\ line = 6 /\ inbuf = <<>> => wants # kWCtrlConfig
    /\ line = 2 /\ inbuf = <<>> => ~port1
    /\ line \in 3 .. 10 => ~port1
    /\ line \in 4 .. 10 /\ outbuf # <<>> => outbuf[1].from = "controller"
    /\ int1 => line \in 1 .. 6 \cup {16}
    /\ line = 6 /\ inbuf = <<>> => ~int1

\* A request that is pending or in its handler has its byte or is stale.  From
\* the flush of the output buffer to the last configuration byte there is no new
\* request, so one that is pending is stale; afterwards there is at most one more
\* than there are bytes.
Pending == kKeyboardVec \in irr
InHandler == running = kKeyboardVec

RequestsInStep ==
    /\ Pending \/ InHandler => outbuf # <<>> \/ stale
    /\ Pending /\ InHandler => outbuf # <<>> /\ int1 /\ stale
    /\ line \in 4 .. 15 /\ Pending => stale
    /\ line = 16 /\ ~int1 /\ (Pending \/ InHandler) => stale
    /\ InHandler => line = 16
    /\ intr_handler[kKeyboardVec] # NULL => line = 16

\* The byte that says the self test was passed comes from nowhere else, and
\* the keyboard is reset once.
PassedIsTested ==
    /\ outbuf # <<>> /\ outbuf[1].byte = TestPassed => tested
    /\ data = TestPassed => tested
    /\ \A n \in 1 .. Len(sends) : sends[n] = TestPassed => tested
    /\ tested => line >= 12 /\ (line <= 14 => inbuf = <<>>)
    /\ line >= 14 => tested
    /\ InstalledIsTested

KeyboardInv ==
    /\ Invariant /\ KeyboardTypeOK /\ ControllerInStep /\ RequestsInStep /\ PassedIsTested
    /\ CursorNotBelowStart

\* At the start of KeyboardInit nothing was written and no test was made.
LEMMA KeyboardInitInv == KInit => KeyboardInv
<1> SUFFICES ASSUME KInit PROVE KeyboardInv
  OBVIOUS
<1>1. Invariant /\ irr = {} /\ intr_handler[kKeyboardVec] = NULL /\ running = NULL
  BY InitInvariant DEF KInit, Init, PicInit, kKeyboardVec, Vectors, kIdtEntryNum
<1>2. PICK b \in Keys \cup {0} :
        outbuf = IF b = 0 \/ ~attached THEN <<>> ELSE <<[from |-> "keyboard", byte |-> b]>>
  BY Zenon DEF KInit, KeyboardStart
<1>3. b \in 0 .. 131
  BY KeysAssumption
<1>4. outbuf = <<>> \/ outbuf = <<[from |-> "keyboard", byte |-> b]>>
  BY <1>2, Zenon
<1>5. [from |-> "keyboard", byte |-> b] \in Buffered
  BY <1>3 DEF Buffered, Byte
<1>6. KeyboardTypeOK
  <2>1. outbuf = <<>> \/ \E o \in Buffered : outbuf = <<o>>
    BY <1>4, <1>5, Zenon
  <2>2. /\ port1 \in BOOLEAN /\ int1 \in BOOLEAN
        /\ tested \in BOOLEAN /\ attached \in BOOLEAN /\ stale \in BOOLEAN
    BY Zenon DEF KInit, KeyboardStart
  <2>3. sends \in Seq(Byte)
    BY DEF KInit, KeyboardStart
  <2> QED BY <2>1, <2>2, <2>3 DEF KInit, KeyboardStart, KeyboardTypeOK, Byte
<1>7. ControllerInStep
  BY DEF KInit, KeyboardStart, ControllerInStep, kWCtrlConfig
<1>r. RequestsInStep
  <2>1. kKeyboardVec # NULL
    BY DevicesAssumption DEF kKeyboardVec, Vectors, kIdtEntryNum
  <2>2. ~ Pending /\ ~ InHandler
    BY <1>1, <2>1, Zenon DEF Pending, InHandler
  <2> QED BY <1>1, <2>2, Zenon DEF RequestsInStep
<1>8. PassedIsTested
  <2>1. outbuf # <<>> => outbuf[1].byte # TestPassed
    BY <1>3, <1>4 DEF TestPassed
  <2>2. "KeyboardHandler" # NULL
    BY DevicesAssumption, Zenon DEF Handlers
  <2> QED BY <1>1, <2>1, <2>2
          DEF KInit, KeyboardStart, PassedIsTested, InstalledIsTested, TestPassed
<1>9. CursorNotBelowStart
  BY DEF KInit, KeyboardStart, CursorNotBelowStart
<1> QED BY <1>1, <1>6, <1>7, <1>r, <1>8, <1>9, Zenon DEF KeyboardInv

\* A step that leaves the driver and its controller alone.
LEMMA KeyboardRest ==
  ASSUME KeyboardInv, Invariant', UNCHANGED keyboard,
         Pending' => Pending,
         InHandler' => InHandler \/ (Pending /\ ~Pending' /\ line = 16),
         intr_handler'[kKeyboardVec] = intr_handler[kKeyboardVec]
  PROVE  KeyboardInv'
<1>1. UNCHANGED <<inbuf, outbuf, data, wants, port1, int1, attached, sends, tested, hit,
                  line, key_counter, cur, stale>>
  BY Zenon DEF keyboard, controller, device, driver
<1>2. KeyboardTypeOK'
  BY <1>1, Zenon DEF KeyboardInv, KeyboardTypeOK
<1>3. ControllerInStep'
  BY <1>1, Zenon DEF KeyboardInv, ControllerInStep
<1>r. RequestsInStep'
  BY <1>1, Zenon DEF KeyboardInv, RequestsInStep
<1>4. PassedIsTested'
  BY <1>1, Zenon DEF KeyboardInv, PassedIsTested, InstalledIsTested
<1>5. CursorNotBelowStart'
  BY <1>1, Zenon DEF KeyboardInv, CursorNotBelowStart
<1> QED BY <1>2, <1>3, <1>r, <1>4, <1>5, Zenon DEF KeyboardInv

\* A write puts the statement's byte into the free input buffer.
LEMMA WriteKeeps == ASSUME KeyboardInv, Write, Invariant' PROVE KeyboardInv'
<1>1. /\ line \in 1 .. 15 /\ Statements[line].op = "write" /\ inbuf = <<>> /\ line' = line + 1
      /\ inbuf' = <<[port |-> Statements[line].port, byte |-> Statements[line].byte]>>
      /\ UNCHANGED <<irr, intr_handler, running, outbuf, data, wants, port1, int1, attached,
                     sends, tested, hit, key_counter, cur, stale>>
  BY StatementFacts, Zenon DEF Write, Running, vars, device
<1>2. line \in {1, 2, 4, 5, 6, 8, 10, 11, 14, 15}
  <2>1. line \notin {3, 7, 9, 12, 13}
    BY <1>1, StatementFacts, Zenon
  <2> QED BY <1>1, <2>1
<1>3. inbuf' = <<Written(line')>> /\ inbuf' # <<>>
  BY <1>1, <1>2, StatementFacts, Zenon
<1>4. KeyboardTypeOK'
  BY <1>1, <1>3 DEF KeyboardInv, KeyboardTypeOK
<1>5. ControllerInStep'
  BY <1>1, <1>2, <1>3 DEF KeyboardInv, ControllerInStep, kWCtrlConfig
<1>r. RequestsInStep'
  <2>1. /\ ~ InHandler /\ intr_handler[kKeyboardVec] = NULL
        /\ Pending' = Pending /\ InHandler' = InHandler
    <3>1. line # 16
      BY <1>2
    <3>2. ~ InHandler /\ intr_handler[kKeyboardVec] = NULL
      BY <3>1, Zenon DEF KeyboardInv, RequestsInStep
    <3>3. UNCHANGED <<irr, running>>
      BY <1>1, Zenon
    <3>4. Pending' = Pending /\ InHandler' = InHandler
      BY <3>3 DEF Pending, InHandler
    <3> QED BY <3>2, <3>4, Zenon
  <2>2. (line' \in 4 .. 15 => line \in 4 .. 15) /\ (line' = 16 => line \in 4 .. 15)
    <3>1. line' = line + 1
      BY <1>1, Zenon
    <3> QED BY <3>1, <1>2
  <2> QED BY <1>1, <2>1, <2>2, Zenon DEF KeyboardInv, RequestsInStep
<1>6. PassedIsTested'
  BY <1>1, <1>2, <1>3 DEF KeyboardInv, PassedIsTested, InstalledIsTested
<1> QED BY <1>1, <1>4, <1>5, <1>r, <1>6, Zenon DEF KeyboardInv, CursorNotBelowStart

\* The byte a read of the data port yields is one, and is tracked.
LEMMA DataPortFacts ==
  ASSUME KeyboardInv
  PROVE  DataPort \in Byte /\ (DataPort = TestPassed => tested)
<1>1. CASE outbuf = <<>>
  BY <1>1, Zenon DEF KeyboardInv, KeyboardTypeOK, PassedIsTested, DataPort
<1>2. CASE outbuf # <<>>
  <2>1. PICK o \in Buffered : outbuf = <<o>>
    BY <1>2, Zenon DEF KeyboardInv, KeyboardTypeOK
  <2>2. outbuf[1] = o /\ o.byte \in Byte
    BY <2>1, Zenon DEF Buffered
  <2> QED BY <1>2, <2>2, Zenon DEF KeyboardInv, PassedIsTested, DataPort
<1> QED BY <1>1, <1>2, Zenon

\* A read empties the output buffer; the one of the self test's result goes on
\* only if the test was passed.
LEMMA ReadKeeps == ASSUME KeyboardInv, Read, Invariant' PROVE KeyboardInv'
<1>1. /\ line \in 1 .. 15 /\ Statements[line].op \in {"read", "inb"}
      /\ outbuf' = <<>> /\ data' = DataPort
      /\ UNCHANGED <<irr, intr_handler, running, inbuf, wants, port1, int1, attached, sends,
                     tested, hit, key_counter, cur>>
      /\ stale' = IF Statements[line] = In(Any) THEN Pending ELSE stale
  BY StatementFacts, Zenon DEF Read, Running, vars, device, Drain, NoDevice, tables, pic, Pending
<1>2. line \in {3, 7, 9, 12, 13}
  <2>1. line \notin {1, 2, 4, 5, 6, 8, 10, 11, 14, 15}
    BY <1>1, StatementFacts, Zenon
  <2> QED BY <1>1, <2>1
<1>3. line' \in {line, line + 1}
  BY Zenon DEF Read
<1>4. line = 13 /\ line' = 14 => DataPort = TestPassed
  BY StatementFacts DEF Read, Any, TestPassed
<1>5. data' \in Byte /\ (data' = TestPassed => tested)
  BY <1>1, DataPortFacts, Zenon
<1>6. KeyboardTypeOK'
  <2>1. inbuf' \in {<<>>, <<Written(line')>>}
    <3>1. Written(4) = Written(3) /\ Written(8) = Written(7) /\ Written(10) = Written(9)
          /\ Written(13) = Written(12) /\ Written(14) = Written(12)
      BY DEF Written
    <3>2. Written(line') = Written(line)
      BY <1>2, <1>3, <3>1
    <3>3. inbuf \in {<<>>, <<Written(line)>>}
      BY Zenon DEF KeyboardInv, KeyboardTypeOK
    <3> QED BY <1>1, <3>2, <3>3, Zenon
  <2>2. stale' \in BOOLEAN
    <3>1. stale \in BOOLEAN
      BY Zenon DEF KeyboardInv, KeyboardTypeOK
    <3>2. Pending \in BOOLEAN
      BY DEF Pending
    <3> QED BY <1>1, <3>1, <3>2, Zenon
  <2> QED BY <1>1, <1>2, <1>3, <1>5, <2>1, <2>2 DEF KeyboardInv, KeyboardTypeOK
<1>7. ControllerInStep'
  BY <1>1, <1>2, <1>3 DEF KeyboardInv, ControllerInStep
<1>r. RequestsInStep'
  <2>1. /\ ~ InHandler /\ intr_handler[kKeyboardVec] = NULL
        /\ Pending' = Pending /\ InHandler' = InHandler
    <3>1. line # 16
      BY <1>2
    <3>2. ~ InHandler /\ intr_handler[kKeyboardVec] = NULL
      BY <3>1, Zenon DEF KeyboardInv, RequestsInStep
    <3>3. UNCHANGED <<irr, running>>
      BY <1>1, Zenon
    <3>4. Pending' = Pending /\ InHandler' = InHandler
      BY <3>3 DEF Pending, InHandler
    <3> QED BY <3>2, <3>4, Zenon
  <2>2. line = 3 \/ line \in 4 .. 15
    BY <1>2
  <2>3. line' # 16
    BY <1>2, <1>3
  <2>4. Pending => stale'
    <3>1. line = 3 => (Pending => stale')
      <4>1. stale' = IF Statements[line] = In(Any) THEN Pending ELSE stale
        BY <1>1, Zenon
      <4>2. Statements[3] = In(Any)
        BY StatementFacts, Zenon
      <4> QED BY <4>1, <4>2, Zenon
    <3>2. Pending /\ stale => stale'
      BY <1>1, Zenon
    <3>3. line \in 4 .. 15 => (Pending => stale)
      BY <2>1, Zenon DEF KeyboardInv, RequestsInStep
    <3> QED BY <2>2, <3>1, <3>2, <3>3, Zenon
  <2> QED BY <1>1, <2>1, <2>3, <2>4, Zenon DEF RequestsInStep
<1>8. PassedIsTested'
  <2>1. line' >= 14 => tested'
    BY <1>1, <1>2, <1>3, <1>4, DataPortFacts
  <2> QED BY <1>1, <1>2, <1>3, <1>5, <2>1 DEF KeyboardInv, PassedIsTested, InstalledIsTested
<1> QED BY <1>1, <1>6, <1>7, <1>r, <1>8, Zenon DEF KeyboardInv, CursorNotBelowStart

\* The handler is installed behind the last statement.
LEMMA InstalledKeeps == ASSUME KeyboardInv, Installed, Invariant' PROVE KeyboardInv'
<1>1. /\ line > 15 /\ key_counter' = 0 /\ cur' = 0
      /\ UNCHANGED <<irr, running, inbuf, outbuf, data, wants, port1, int1, attached, sends,
                     tested, hit, line, stale>>
  BY StatementFacts, Zenon DEF Installed, Install, controller, device
<1>2. line = 16 /\ tested
  BY <1>1 DEF KeyboardInv, KeyboardTypeOK, PassedIsTested
<1>3. KeyboardTypeOK'
  BY <1>1 DEF KeyboardInv, KeyboardTypeOK
<1>4. ControllerInStep'
  BY <1>1, Zenon DEF KeyboardInv, ControllerInStep
<1>r. RequestsInStep'
  BY <1>1, <1>2, Zenon DEF KeyboardInv, RequestsInStep, Pending, InHandler
<1>5. PassedIsTested'
  BY <1>1, <1>2, Zenon DEF KeyboardInv, PassedIsTested, InstalledIsTested
<1> QED BY <1>1, <1>3, <1>4, <1>r, <1>5 DEF KeyboardInv, CursorNotBelowStart

\* What is in the input buffer when it is not empty.
LEMMA InputFacts ==
  ASSUME KeyboardInv, inbuf # <<>>
  PROVE  inbuf[1] = Written(line) /\ line \in 2 .. 16
BY DEF KeyboardInv, KeyboardTypeOK

\* What an edge of the keyboard's line, or a step without one, does to the
\* requests: the edge comes with its byte, and finds the one before it taken.
LEMMA EdgeKeeps ==
  ASSUME KeyboardInv, Edge, line' = line,
         outbuf # <<>> => outbuf' # <<>>,
         line = 16 /\ int1 => int1',
         Rises => line \notin 4 .. 15
  PROVE  RequestsInStep' /\ stale' \in BOOLEAN
<1>1. /\ stale' \in BOOLEAN
      /\ stale' <=> stale /\ ~(Rises /\ Pending)
      /\ Pending' <=> Pending \/ Rises
      /\ InHandler' <=> InHandler
      /\ intr_handler' = intr_handler
  BY Zenon DEF Edge, tables, Pending, InHandler
<1>2. RequestsInStep
  BY Zenon DEF KeyboardInv
<1>3. CASE ~ Rises
  BY <1>1, <1>2, <1>3, Zenon DEF RequestsInStep
<1>4. CASE Rises
  <2>1. outbuf' # <<>> /\ int1' /\ ~(outbuf # <<>> /\ int1)
    BY <1>4, Zenon DEF Rises
  <2>2. InHandler => ~ Pending /\ stale
    BY <1>2, <2>1, Zenon DEF RequestsInStep
  <2> QED BY <1>1, <1>2, <1>4, <2>1, <2>2, Zenon DEF RequestsInStep
<1> QED BY <1>1, <1>3, <1>4, Zenon

\* A command opens or closes the port, is answered, or waits for its data.
LEMMA CommandKeeps == ASSUME KeyboardInv, Command, Invariant' PROVE KeyboardInv'
<1> DEFINE b == inbuf[1].byte
<1>1. /\ inbuf # <<>> /\ inbuf[1].port = "cmd" /\ inbuf' = <<>>
      /\ wants' = IF b = 96 THEN b ELSE 0
      /\ port1' = IF b = 173 THEN FALSE ELSE IF b = 174 THEN TRUE ELSE port1
      /\ UNCHANGED <<intr_handler, data, int1, attached, sends, tested, hit, line,
                     key_counter, cur>>
      /\ Edge
  BY Zenon DEF Command, Edge, tables, device, driver, kWCtrlConfig, kDisablePort1, kEnablePort1
<1>2. outbuf' = outbuf \/ \E x \in {0, 85, 252} :
        /\ b \in {170, 171} /\ outbuf = <<>>
        /\ outbuf' = <<[from |-> "controller", byte |-> x]>>
  BY Zenon DEF Command, Answer, TestFailed, kCtrlSelfTest, kTestPort1
<1>3. inbuf[1] = Written(line) /\ line \in {2, 3, 4, 5, 7, 8, 9, 10, 11, 15}
  <2>1. inbuf[1] = Written(line) /\ line \in 2 .. 16
    BY <1>1, InputFacts, Zenon
  <2>2. line \notin {6, 12, 13, 14, 16}
    <3>1. \A x \in {6, 12, 13, 14, 16} : Written(x).port # "cmd"
      BY DEF Written
    <3> QED BY <1>1, <2>1, <3>1, Zenon
  <2> QED BY <2>1, <2>2
<1>4. /\ b = 96 <=> line \in {5, 15}
      /\ b = 173 <=> line = 2
      /\ b = 174 <=> line = 11
      /\ b \in {170, 171} <=> line \in {7, 8, 9, 10}
  BY <1>3 DEF Written
<1>5. /\ outbuf' = <<>> \/ \E o \in Buffered : outbuf' = <<o>>
      /\ outbuf' # <<>> /\ outbuf' # outbuf =>
           outbuf'[1].from = "controller" /\ outbuf'[1].byte # TestPassed
  <2>1. \A x \in {0, 85, 252} : [from |-> "controller", byte |-> x] \in Buffered
    BY DEF Buffered, Byte
  <2> QED BY <1>2, <2>1 DEF KeyboardInv, KeyboardTypeOK, TestPassed
<1> HIDE DEF b
<1>r. RequestsInStep' /\ stale' \in BOOLEAN
  <2>1. int1 => line \notin {7, 8, 9, 10}
    BY DEF KeyboardInv, ControllerInStep
  <2>2. ~ Rises
    BY <1>1, <1>2, <1>4, <2>1, Zenon DEF Rises
  <2>3. outbuf # <<>> => outbuf' # <<>>
    BY <1>2, Zenon
  <2> QED BY <1>1, <2>2, <2>3, EdgeKeeps, Zenon
<1>6. KeyboardTypeOK'
  BY <1>1, <1>3, <1>5, <1>r, Zenon DEF KeyboardInv, KeyboardTypeOK
<1>7. ControllerInStep'
  <2>1. outbuf # <<>> => outbuf' # <<>>
    BY <1>2, Zenon
  <2> QED BY <1>1, <1>3, <1>4, <1>5, <2>1 DEF KeyboardInv, ControllerInStep, kWCtrlConfig
<1>8. PassedIsTested'
  BY <1>1, <1>3, <1>5, Zenon DEF KeyboardInv, PassedIsTested, InstalledIsTested
<1> QED BY <1>1, <1>6, <1>7, <1>r, <1>8, Zenon DEF KeyboardInv, CursorNotBelowStart

\* A data byte is the configuration, at the two places where the controller
\* waits for it, or the reset, which the keyboard answers.
LEMMA DataKeeps == ASSUME KeyboardInv, Data, Invariant' PROVE KeyboardInv'
<1> DEFINE b == inbuf[1].byte
<1>1. /\ inbuf # <<>> /\ inbuf[1].port = "data" /\ inbuf' = <<>> /\ wants' = 0
      /\ UNCHANGED <<outbuf, attached, hit, data, port1, line, key_counter, cur>>
      /\ intr_handler' = intr_handler
      /\ Edge
  BY Zenon DEF Data, Edge, tables, device, driver
<1>2. inbuf[1] = Written(line) /\ line \in {6, 12, 13, 14, 16}
  <2>1. inbuf[1] = Written(line) /\ line \in 2 .. 16
    BY <1>1, InputFacts, Zenon
  <2>2. \A l \in {2, 3, 4, 5, 7, 8, 9, 10, 11, 15} : Written(l).port = "cmd"
    BY DEF Written
  <2>3. line \notin {2, 3, 4, 5, 7, 8, 9, 10, 11, 15}
    BY <1>1, <2>1, <2>2, Zenon
  <2> QED BY <2>1, <2>3
<1>3. CASE line \in {6, 16}
  <2>1. wants = kWCtrlConfig
    BY <1>1, <1>3, Zenon DEF KeyboardInv, ControllerInStep
  <2>2. int1' = (b % 2 = 1) /\ UNCHANGED <<sends, tested>>
    BY <2>1, Zenon DEF Data, device
  <2>3. int1' \in BOOLEAN
    BY <2>2, Zenon
  <2>4. int1' <=> line = 16
    <3>1. CASE line = 6
      <4>1. b = 4
        BY <1>2, <3>1 DEF Written
      <4>2. ~ (b % 2 = 1) /\ line # 16
        BY <3>1, <4>1
      <4> HIDE DEF b
      <4> QED BY <2>2, <4>2, Zenon
    <3>2. CASE line = 16
      <4>1. b = 5
        BY <1>2, <3>2 DEF Written
      <4>2. b % 2 = 1
        BY <4>1
      <4> HIDE DEF b
      <4> QED BY <2>2, <3>2, <4>2, Zenon
    <3> QED BY <1>3, <3>1, <3>2, Zenon
  <2>r. RequestsInStep' /\ stale' \in BOOLEAN
    <3>1. Rises => line \notin 4 .. 15
      BY <2>4 DEF Rises
    <3> QED BY <1>1, <2>4, <3>1, EdgeKeeps, Zenon
  <2>5. KeyboardTypeOK'
    BY <1>1, <2>2, <2>3, <2>r, Zenon DEF KeyboardInv, KeyboardTypeOK
  <2>6. ControllerInStep'
    BY <1>1, <1>3, <2>4 DEF KeyboardInv, ControllerInStep, kWCtrlConfig
  <2>7. PassedIsTested'
    BY <1>1, <2>2, Zenon DEF KeyboardInv, PassedIsTested, InstalledIsTested
  <2> QED BY <1>1, <2>5, <2>6, <2>r, <2>7, Zenon DEF KeyboardInv, CursorNotBelowStart
<1>4. CASE line \in {12, 13, 14}
  <2>1. wants # kWCtrlConfig
    BY <1>4 DEF KeyboardInv, ControllerInStep
  <2>2. /\ int1' = int1
        /\ \/ UNCHANGED <<sends, tested>>
           \/ \E test \in {170, 252} : sends' = <<250, test>> /\ tested' = (test = 170)
    <3>1. /\ int1' = int1
          /\ \/ UNCHANGED <<sends, tested>>
             \/ \E test \in {TestPassed, TestFailed} :
                  sends' = <<kKeyboardAck, test>> /\ tested' = (test = TestPassed)
      BY <2>1, Zenon DEF Data
    <3> QED BY <3>1, Zenon DEF TestPassed, TestFailed, kKeyboardAck
  <2>3. ~ tested /\ line \in {12, 13}
    BY <1>1, <1>4 DEF KeyboardInv, PassedIsTested
  <2>4. /\ sends' \in Seq(Byte) /\ tested' \in BOOLEAN
        /\ \A n \in 1 .. Len(sends') : sends'[n] = 170 => tested'
    <3>1. CASE UNCHANGED <<sends, tested>>
      BY <3>1, Zenon DEF KeyboardInv, KeyboardTypeOK, PassedIsTested, TestPassed
    <3>2. ASSUME NEW test \in {170, 252}, sends' = <<250, test>>, tested' = (test = 170)
          PROVE  /\ sends' \in Seq(Byte) /\ tested' \in BOOLEAN
                 /\ \A n \in 1 .. Len(sends') : sends'[n] = 170 => tested'
      <4>1. tested' \in BOOLEAN
        BY <3>2, Zenon
      <4>2. sends' \in Seq(Byte) /\ Len(sends') = 2
        BY <3>2 DEF Byte
      <4>3. \A n \in 1 .. 2 : sends'[n] = 170 => test = 170
        BY <3>2
      <4>4. test = 170 => tested'
        BY <3>2, Zenon
      <4> QED BY <4>1, <4>2, <4>3, <4>4
    <3> QED BY <2>2, <3>1, <3>2
  <2>r. RequestsInStep' /\ stale' \in BOOLEAN
    <3>1. ~ Rises
      BY <1>1, <2>2, Zenon DEF Rises
    <3> QED BY <1>1, <2>2, <3>1, EdgeKeeps, Zenon
  <2>5. KeyboardTypeOK'
    BY <1>1, <2>2, <2>4, <2>r DEF KeyboardInv, KeyboardTypeOK
  <2>6. ControllerInStep'
    BY <1>1, <1>4, <2>2 DEF KeyboardInv, ControllerInStep, kWCtrlConfig
  <2>7. PassedIsTested'
    BY <1>1, <2>3, <2>4 DEF KeyboardInv, PassedIsTested, InstalledIsTested, TestPassed
  <2> QED BY <1>1, <2>5, <2>6, <2>r, <2>7, Zenon DEF KeyboardInv, CursorNotBelowStart
<1> QED BY <1>2, <1>3, <1>4, Zenon

\* The keyboard sends only through an open port.
LEMMA SendKeeps == ASSUME KeyboardInv, Send, Invariant' PROVE KeyboardInv'
<1>1. /\ sends # <<>> /\ port1 /\ outbuf = <<>>
      /\ outbuf' = <<[from |-> "keyboard", byte |-> Head(sends)]>>
      /\ sends' = Tail(sends)
      /\ UNCHANGED <<inbuf, data, wants, port1, int1, attached, tested, hit, line,
                     key_counter, cur>>
      /\ intr_handler' = intr_handler
      /\ Edge
  BY Zenon DEF Send, Edge, tables, driver
<1>2. /\ sends \in Seq(Byte) /\ Len(sends) \in Nat /\ Len(sends) >= 1
      /\ Head(sends) = sends[1] /\ sends[1] \in Byte
      /\ sends' \in Seq(Byte) /\ Len(sends') = Len(sends) - 1
      /\ \A n \in 1 .. Len(sends') : sends'[n] = sends[n + 1]
  BY <1>1 DEF KeyboardInv, KeyboardTypeOK
<1>3. [from |-> "keyboard", byte |-> sends[1]] \in Buffered
  BY <1>2, Zenon DEF Buffered
<1>4. outbuf' # <<>> /\ outbuf'[1].byte = sends[1]
  BY <1>1, <1>2, Zenon
<1>r. RequestsInStep' /\ stale' \in BOOLEAN
  <2>1. int1 => line \notin 4 .. 15
    BY <1>1 DEF KeyboardInv, ControllerInStep
  <2>2. Rises => line \notin 4 .. 15
    BY <1>1, <2>1, Zenon DEF Rises
  <2> QED BY <1>1, <1>4, <2>2, EdgeKeeps, Zenon
<1>5. KeyboardTypeOK'
  BY <1>1, <1>2, <1>3, <1>r, Zenon DEF KeyboardInv, KeyboardTypeOK
<1>6. ControllerInStep'
  BY <1>1, <1>4 DEF KeyboardInv, KeyboardTypeOK, ControllerInStep
<1>7. PassedIsTested'
  <2>1. \A n \in 1 .. Len(sends) : sends[n] = TestPassed => tested
    BY Zenon DEF KeyboardInv, PassedIsTested
  <2>2. \A n \in 1 .. Len(sends') : sends'[n] = TestPassed => tested
    BY <1>2, <2>1
  <2>3. sends[1] = TestPassed => tested
    BY <1>2, <2>1
  <2> QED BY <1>1, <1>4, <2>2, <2>3, Zenon DEF KeyboardInv, PassedIsTested, InstalledIsTested
<1> QED BY <1>1, <1>5, <1>6, <1>r, <1>7, Zenon DEF KeyboardInv, CursorNotBelowStart

\* No key sends the byte that says the self test was passed.
LEMMA TypingKeeps == ASSUME KeyboardInv, KeyHit, Invariant' PROVE KeyboardInv'
<1>1. PICK k \in Keys : Press(k) \/ Release(k)
  BY Zenon DEF KeyHit
<1>2. k \in 1 .. 131
  BY KeysAssumption, Zenon
<1>3. /\ UNCHANGED <<irr, intr_handler, running, inbuf, outbuf, data, wants, port1, int1,
                     attached, tested, line, key_counter, cur, stale>>
      /\ sends' = Append(sends, k) \/ sends' = sends \o <<240, k>>
  BY <1>1, Zenon DEF Press, Release, vars, controller, driver, Break
<1>4. sends \in Seq(Byte) /\ \A n \in 1 .. Len(sends) : sends[n] = 170 => tested
  BY Zenon DEF KeyboardInv, KeyboardTypeOK, PassedIsTested, TestPassed
<1>5. sends' \in Seq(Byte) /\ \A n \in 1 .. Len(sends') : sends'[n] = 170 => tested
  <2>1. CASE sends' = Append(sends, k)
    BY <1>2, <1>4, <2>1 DEF Byte
  <2>2. CASE sends' = sends \o <<240, k>>
    <3>1. <<240, k>> \in Seq(Byte) /\ Len(<<240, k>>) = 2
      BY <1>2 DEF Byte
    <3>2. sends' \in Seq(Byte) /\ Len(sends') = Len(sends) + 2 /\ Len(sends) \in Nat
      BY <1>4, <2>2, <3>1
    <3>3. ASSUME NEW n \in 1 .. Len(sends'), sends'[n] = 170 PROVE tested
      <4>1. CASE n <= Len(sends)
        BY <1>4, <2>2, <3>1, <3>2, <3>3, <4>1
      <4>2. CASE n > Len(sends)
        <5>1. sends'[n] = <<240, k>>[n - Len(sends)] /\ n - Len(sends) \in {1, 2}
          BY <1>4, <2>2, <3>1, <3>2, <4>2
        <5> QED BY <1>2, <3>3, <5>1
      <4> QED BY <3>2, <4>1, <4>2
    <3> QED BY <3>2, <3>3, Zenon
  <2> QED BY <1>3, <2>1, <2>2, Zenon
<1>6. KeyboardTypeOK'
  BY <1>3, <1>5 DEF KeyboardInv, KeyboardTypeOK
<1>7. ControllerInStep'
  BY <1>3 DEF KeyboardInv, ControllerInStep
<1>r. RequestsInStep'
  BY <1>3, Zenon DEF KeyboardInv, RequestsInStep, Pending, InHandler
<1>8. PassedIsTested'
  BY <1>3, <1>5, Zenon DEF KeyboardInv, PassedIsTested, InstalledIsTested, TestPassed
<1>9. CursorNotBelowStart'
  BY <1>3, Zenon DEF KeyboardInv, CursorNotBelowStart
<1> QED BY <1>6, <1>7, <1>r, <1>8, <1>9, Zenon DEF KeyboardInv

\* The handler takes a byte and ends; what is pending then is stale.
LEMMA HandlerKeeps == ASSUME KeyboardInv, KeyboardHandler, Invariant' PROVE KeyboardInv'
<1>1. /\ UNCHANGED <<irr, intr_handler, inbuf, wants, port1, int1, attached, sends, tested,
                     hit, line, stale>>
      /\ running = kKeyboardVec /\ running' = NULL /\ KeySwitch(DataPort) /\ Drain
  BY Zenon DEF KeyboardHandler, Return, tables, device
<1>2. outbuf' = <<>> /\ data' \in Byte /\ (data' = TestPassed => tested)
  BY <1>1, DataPortFacts, Zenon DEF Drain
<1>3. key_counter \in {0, 1, 2} /\ cur \in Int
  BY DEF KeyboardInv, KeyboardTypeOK
<1>4. key_counter % 3 = key_counter
  BY <1>3
<1>5. key_counter' \in 0 .. 2 /\ cur' \in Int /\ CursorNotBelowStart'
  <2>1. CASE key_counter = 0
    BY <1>1, <1>3, <1>4, <2>1 DEF KeySwitch, KeyboardInv, CursorNotBelowStart
  <2>2. CASE key_counter = 1
    BY <1>1, <1>3, <1>4, <2>2 DEF KeySwitch, KeyboardInv, CursorNotBelowStart
  <2>3. CASE key_counter = 2
    BY <1>1, <1>3, <1>4, <2>3 DEF KeySwitch, KeyboardInv, CursorNotBelowStart
  <2> QED BY <1>3, <2>1, <2>2, <2>3, Zenon
<1>6. KeyboardTypeOK'
  BY <1>1, <1>2, <1>5, Zenon DEF KeyboardInv, KeyboardTypeOK
<1>7. ControllerInStep'
  BY <1>1, <1>2, Zenon DEF KeyboardInv, ControllerInStep
<1>8. RequestsInStep'
  <2>1. kKeyboardVec # NULL
    BY DevicesAssumption DEF kKeyboardVec, Vectors, kIdtEntryNum
  <2>2. InHandler /\ ~ InHandler' /\ Pending' = Pending
    BY <1>1, <2>1, Zenon DEF InHandler, Pending
  <2> QED BY <1>1, <2>2, Zenon DEF KeyboardInv, RequestsInStep
<1>9. PassedIsTested'
  BY <1>1, <1>2, Zenon DEF KeyboardInv, PassedIsTested, InstalledIsTested
<1> QED BY <1>5, <1>6, <1>7, <1>8, <1>9, Zenon DEF KeyboardInv

\* The delivery moves a request to its handler, which is there.
LEMMA DeliveryKeeps ==
  ASSUME KeyboardInv, NEW v \in Devices, Irq(v), UNCHANGED keyboard, Invariant'
  PROVE  KeyboardInv'
<1>1. /\ irr' = irr \ {v} /\ intr_handler' = intr_handler /\ running' \in {v, NULL}
      /\ v \in irr /\ v \in idt /\ running = NULL
  BY Zenon DEF Irq, tables, Deliverable
<1>2. kKeyboardVec # NULL /\ kKeyboardVec \in Vectors
  BY DevicesAssumption DEF kKeyboardVec, Vectors, kIdtEntryNum
<1>3. CASE v = kKeyboardVec
  <2>1. line = 16
    BY <1>1, <1>2, <1>3, Zenon DEF KeyboardInv, Invariant, GateHasHandler, RequestsInStep
  <2>2. Pending /\ ~ Pending'
    BY <1>1, <1>3, Zenon DEF Pending
  <2> QED BY <1>1, <2>1, <2>2, KeyboardRest, Zenon
<1>4. CASE v # kKeyboardVec
  BY <1>1, <1>2, <1>4, KeyboardRest, Zenon DEF Pending, InHandler
<1> QED BY <1>3, <1>4, Zenon

\* The rest of the boot registers other vectors.
LEMMA RegisterKeeps ==
  ASSUME KeyboardInv, Register \/ Ide
  PROVE  /\ UNCHANGED <<irr, running>>
         /\ intr_handler'[kKeyboardVec] = intr_handler[kKeyboardVec]
<1>1. /\ intr_handler \in [Vectors -> Handlers \cup {NULL}]
      /\ kKeyboardVec = 33 /\ kKeyboardVec \in Vectors
  BY DEF KeyboardInv, Invariant, TypeOK, kKeyboardVec, Vectors, kIdtEntryNum
<1>2. ASSUME NEW v, NEW h, v # kKeyboardVec, RegIntrHandler(v, h) \/ RemoveIntrHandler(v)
      PROVE  intr_handler'[kKeyboardVec] = intr_handler[kKeyboardVec]
  BY <1>1, <1>2, Zenon DEF RegIntrHandler, RemoveIntrHandler, tables
<1>3. CASE ExcVectors
  <2>1. boot # kKeyboardVec
    BY <1>1, <1>3 DEF ExcVectors, kIdtExcNum, KeyboardInv, Invariant, TypeOK
  <2> QED BY <1>2, <1>3, <2>1, Zenon DEF ExcVectors, pic
<1>4. CASE RemovePf \/ RegPf \/ SyscallInit
  BY <1>1, <1>2, <1>4 DEF RemovePf, RegPf, SyscallInit, pic, kPfVec, kSyscallVec
<1>5. CASE IdeInit \/ TimerInit
  BY <1>1, <1>2, <1>5 DEF IdeInit, TimerInit, Install, NoDevice, tables, pic, kIdeVec, kTimerVec
<1>6. CASE Sti
  BY <1>6, Zenon DEF Sti, tables, pic
<1> QED BY <1>3, <1>4, <1>5, <1>6, Zenon DEF Register, Ide

\* Every step of the kernel keeps the invariant of the keyboard.
LEMMA KeyboardNextInv == KeyboardInv /\ [KNext]_kernel_vars => KeyboardInv'
<1> SUFFICES ASSUME KeyboardInv, [KNext]_kernel_vars PROVE KeyboardInv'
  OBVIOUS
<1>0. Invariant'
  BY StepsInterrupts, NextInvariant, Zenon DEF KeyboardInv
<1>s. ASSUME UNCHANGED <<keyboard, irr, running>>,
             intr_handler'[kKeyboardVec] = intr_handler[kKeyboardVec]
      PROVE  KeyboardInv'
  BY <1>0, <1>s, KeyboardRest, Zenon DEF Pending, InHandler
<1>1. CASE Early
  BY <1>1, <1>s, Zenon DEF Early, Checks, Paging, Gdt, Idt, vars
<1>2. CASE Register \/ Ide
  BY <1>2, <1>s, RegisterKeeps, Zenon DEF Register, Ide
<1>3. CASE KeyboardDriver
  BY <1>0, <1>3, WriteKeeps, ReadKeeps, InstalledKeeps, Zenon DEF KeyboardDriver, KeyboardInitStep
<1>4. CASE Device
  BY <1>0, <1>4, CommandKeeps, DataKeeps, SendKeeps, Zenon DEF Device, Controller
<1>5. CASE Typing
  BY <1>0, <1>5, TypingKeeps, Zenon DEF Typing
<1>6. ASSUME NEW v \in Devices \ {kKeyboardVec}, RaiseIrq(v) PROVE KeyboardInv'
  BY <1>0, <1>6, KeyboardRest, Zenon DEF RaiseIrq, Raise, tables, Pending, InHandler
<1>7. ASSUME NEW v \in Devices, IrqOf(v) PROVE KeyboardInv'
  BY <1>0, <1>7, DeliveryKeeps, Zenon DEF IrqOf
<1>h. ASSUME NEW v \in Devices, HandlerOf(v) PROVE KeyboardInv'
  <2>1. CASE v = kKeyboardVec
    BY <1>0, <1>h, <2>1, HandlerKeeps, Zenon DEF HandlerOf
  <2>2. CASE v # kKeyboardVec
    <3>1. kKeyboardVec # NULL
      BY DevicesAssumption DEF kKeyboardVec, Vectors, kIdtEntryNum
    <3>2. /\ UNCHANGED <<keyboard, irr, intr_handler>> /\ running' = NULL
      BY <1>h, <2>2, Zenon DEF HandlerOf, Return, tables
    <3> QED BY <1>0, <3>1, <3>2, KeyboardRest, Zenon DEF Pending, InHandler
  <2> QED BY <2>1, <2>2, Zenon
<1>8. ASSUME NEW v \in 0 .. kIdtExcNum - 1, ExceptionOf(v) PROVE KeyboardInv'
  BY <1>8, <1>s, Zenon DEF ExceptionOf, Exception, tables
<1>9. CASE UNCHANGED kernel_vars
  BY <1>9, <1>s, Zenon DEF kernel_vars, vars
<1> QED BY <1>1, <1>2, <1>3, <1>4, <1>5, <1>6, <1>7, <1>h, <1>8, <1>9, Zenon DEF KNext

\* The answers KeyboardInit takes for the controller's are the controller's,
\* whatever keys there are and however many are hit.
THEOREM KeyboardAnswers == KSpec => []AnswersFromController
<1>1. KeyboardInv => AnswersFromController
  BY DEF KeyboardInv, ControllerInStep, AnswersFromController
<1> QED BY <1>1, KeyboardInitInv, KeyboardNextInv, PTL DEF KSpec

\* The handler is installed only for a keyboard that passed its self test.
THEOREM KeyboardTested == KSpec => []InstalledIsTested
<1>1. KeyboardInv => InstalledIsTested
  BY Zenon DEF KeyboardInv, PassedIsTested
<1> QED BY <1>1, KeyboardInitInv, KeyboardNextInv, PTL DEF KSpec

\* The poll of KeyboardHandler waits only for a request whose byte the flush of
\* KeyboardInit took, whatever the configuration the loader left and however
\* keys, interrupts and the driver interleave.
THEOREM KeyboardRequests == KSpec => []RequestHasByte
<1>1. KeyboardInv => RequestHasByte
  BY Zenon DEF KeyboardInv, RequestsInStep, RequestHasByte, Pending, InHandler
<1> QED BY <1>1, KeyboardInitInv, KeyboardNextInv, PTL DEF KSpec

\* 'cur' never moves below the start of input_buf.
THEOREM KeyboardCursor == KSpec => []CursorNotBelowStart
<1>1. KeyboardInv => CursorNotBelowStart
  BY Zenon DEF KeyboardInv
<1> QED BY <1>1, KeyboardInitInv, KeyboardNextInv, PTL DEF KSpec

-----------------------------------------------------------------------------
(* The types of the whole boot.                                            *)

\* What no part keeps: the progress of kernel_start, %cr3, the bytes typed.
OtherTypes ==
    /\ start \in {"entry", "ok", "returned"} /\ cr3 \in Nat /\ hit \in 0 .. MaxBytes

\* They are kept by every step.
LEMMA OtherTypesKept == OtherTypes /\ [KNext]_kernel_vars => OtherTypes'
<1> SUFFICES ASSUME OtherTypes, [KNext]_kernel_vars PROVE OtherTypes'
  OBVIOUS
<1>1. start' \in {"entry", "ok", "returned"}
  BY Zenon DEF OtherTypes, KNext, kernel_vars, Early, Checks, Paging, Gdt, Idt, Register,
         Ide, KeyboardDriver, Device, Typing, RaiseIrq, IrqOf, HandlerOf, ExceptionOf
<1>2. cr3' \in Nat
  <2>1. [PagingStep]_paging
    BY StepsPaging, Zenon
  <2>2. cr3' = cr3 \/ cr3' = 1
    BY <2>1, PhysicalAddresses, Zenon
       DEF PagingStep, paging, SwitchStep, SwitchPd, k_pd, TempPde, TempFill, TempDone, UserPde,
           UserDone, DirectPde, DirectFill, DirectNext, DirectDone, DynamicPde, ClearPae, OpenPaging
  <2> QED BY <2>2 DEF OtherTypes
<1>3. hit' \in 0 .. MaxBytes
  <2>1. CASE KeyHit
    BY <2>1, KeysAssumption DEF OtherTypes, KeyHit, Press, Release
  <2>2. CASE hit' = hit
    BY <2>2, Zenon DEF OtherTypes
  <2>3. KeyHit \/ hit' = hit
    BY Zenon DEF KNext, kernel_vars, Early, Checks, Paging, Gdt, Idt, Register, Ide,
           KeyboardDriver, KeyboardInitStep, Write, Read, Installed, Device, Controller,
           Command, Data, Send, Typing, RaiseIrq, IrqOf, HandlerOf, KeyboardHandler,
           ExceptionOf, keyboard, device
  <2> QED BY <2>1, <2>2, <2>3, Zenon
<1> QED BY <1>1, <1>2, <1>3, Zenon DEF OtherTypes

\* Every variable of the boot keeps its type, and no buffer of the keyboard
\* controller holds more than one byte.
THEOREM KernelTypes == KSpec => []KTypeOK
<1>1. KInit => OtherTypes
  BY KeysAssumption DEF KInit, OtherTypes, PagingStart, KeyboardStart
<1>2. KInit => PagingInv
  BY PagingInitInv, Zenon DEF KInit
<1>3. PagingInv /\ [KNext]_kernel_vars => PagingInv'
  BY PagingStepInv, StepsPaging, Zenon
<1>4. OtherTypes /\ PagingInv /\ SegmentsInv /\ KeyboardInv => KTypeOK
  <2> SUFFICES ASSUME OtherTypes, PagingInv, SegmentsInv, KeyboardInv PROVE KTypeOK
    OBVIOUS
  <2>1. Len(inbuf) <= 1 /\ Len(outbuf) <= 1
    <3>1. \A x : Len(<<x>>) = 1
      OBVIOUS
    <3>2. Len(<< >>) = 0
      OBVIOUS
    <3>3. inbuf = << >> \/ inbuf = <<Written(line)>>
      BY DEF KeyboardInv, KeyboardTypeOK
    <3>4. outbuf = << >> \/ \E o \in Buffered : outbuf = <<o>>
      BY DEF KeyboardInv, KeyboardTypeOK
    <3>5. Len(inbuf) <= 1
      <4>1. CASE inbuf = << >>
        BY <4>1, <3>2
      <4>2. CASE inbuf = <<Written(line)>>
        <5>1. Len(inbuf) = 1
          BY <4>2, <3>1
        <5> QED BY <5>1
      <4> QED BY <3>3, <4>1, <4>2
    <3>6. Len(outbuf) <= 1
      <4>1. CASE outbuf = << >>
        BY <4>1, <3>2
      <4>2. CASE \E o \in Buffered : outbuf = <<o>>
        <5>1. PICK o \in Buffered : outbuf = <<o>>
          BY <4>2
        <5>2. Len(<<o>>) = 1
          OBVIOUS
        <5> QED BY <5>1, <5>2
      <4> QED BY <3>4, <4>1, <4>2
    <3> QED BY <3>5, <3>6, Zenon
  <2>2. TypeOK
    BY DEF KeyboardInv, Invariant
  <2>3. cr \in [{0, 4} -> SUBSET {5, 31}] /\ mem \in [Frames -> [Index -> Entry]]
    BY DEF PagingInv, PagingTypeOK
  <2>4. gpc \in 0 .. IdtStart + 5
    BY DEF SegmentsInv
  <2>5. /\ attached \in BOOLEAN /\ port1 \in BOOLEAN /\ int1 \in BOOLEAN /\ tested \in BOOLEAN
        /\ line \in 1 .. 16 /\ key_counter \in 0 .. 2 /\ cur \in Int /\ stale \in BOOLEAN
    BY DEF KeyboardInv, KeyboardTypeOK
  <2>6. line \in 1 .. Len(Statements) + 1
    <3>1. Len(Statements) = 15
      BY StatementFacts, Zenon
    <3> QED BY <2>5, <3>1
  <2> QED BY <2>1, <2>2, <2>3, <2>4, <2>5, <2>6, Zenon DEF OtherTypes, KTypeOK
<1> QED BY <1>1, <1>2, <1>3, <1>4, OtherTypesKept, SegmentsInitInv, SegmentsNextInv,
       KeyboardInitInv, KeyboardNextInv, PTL DEF KSpec

=============================================================================
