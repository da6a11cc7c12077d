------------------------------- MODULE Kernel -------------------------------
(***************************************************************************)
(* kernel_start from its entry to the idle loop (init.c, memory_manager.c, *)
(* interrupt.c, driver.c): the checks of what the boot loader passes, then *)
(* PagingInit and GdtInit, then IdtInit, the registration of the handlers  *)
(* and the drivers, and after 'sti' the interrupts.  It composes the       *)
(* modules PagingBoot, Segments, Interrupts and Keyboard.                  *)
(*                                                                         *)
(* Interrupts are off until 'sti', and PicInit clears what was requested   *)
(* before it, so devices raise their lines only from IntrInit on.  The     *)
(* booted kernel idles in memory that PagingInit mapped, so no page fault  *)
(* is among its exceptions: PfHandler, which changes the tables, is in the *)
(* module PageTables.                                                      *)
(* DirectMappingInit, ProcManagerInit and ThreadInit are in the modules    *)
(* Allocator, Processes and Scheduler.                                     *)
(***************************************************************************)
EXTENDS PagingBoot, Segments, Keyboard

\* The keyboard's interrupt is that of a device.
ASSUME KernelAssumption == kKeyboardVec \in Devices

VARIABLE start   \* where kernel_start is before PagingInit

kernel_vars == <<start, paging, segments, vars, keyboard>>

KInit ==
    /\ start = "entry"
    /\ PagingStart /\ SegmentsStart /\ Init /\ KeyboardStart

\* What kernel_start reads of the registers and the information structure: the
\* magic number, whether the sizes are given and enough, and the memory map.
MultibootInfo == [magic : BOOLEAN, has_mem : BOOLEAN, enough : BOOLEAN]

\* kernel_start goes on, or returns -1 and the processor halts.
Checks ==
    /\ start = "entry"
    /\ \E info \in MultibootInfo :
         start' = IF info.magic /\ (info.has_mem => info.enough) THEN "ok" ELSE "returned"
    /\ UNCHANGED <<paging, segments, vars, keyboard>>

Paging ==
    /\ start = "ok"
    /\ PagingStep
    /\ UNCHANGED <<start, segments, vars, keyboard>>

\* GdtInit writes the table at the start of the direct mapping area.
Gdt ==
    /\ pc = "done"
    /\ GdtStep
    /\ UNCHANGED <<start, paging, vars, keyboard>>

Idt ==
    /\ GdtDone
    /\ IdtStep
    /\ UNCHANGED <<start, paging, vars, keyboard>>

Early == Checks \/ Paging \/ Gdt \/ Idt

\* The statements from the loop of IntrInit on, but IdeInit and KeyboardInit.
Register ==
    /\ SegmentsDone
    /\ ExcVectors \/ RemovePf \/ RegPf \/ SyscallInit \/ TimerInit \/ Sti
    /\ UNCHANGED <<start, paging, segments, keyboard>>

\* IdeInit, if the polls of its IdeWait end: it is not fair.
Ide ==
    /\ SegmentsDone
    /\ IdeInit
    /\ UNCHANGED <<start, paging, segments, keyboard>>

KeyboardDriver ==
    /\ KeyboardInitStep
    /\ UNCHANGED <<start, paging, segments>>

Device ==
    /\ SegmentsDone
    /\ Controller
    /\ UNCHANGED <<start, paging, segments>>

Typing == SegmentsDone /\ KeyHit /\ UNCHANGED <<start, paging, segments>>

RaiseIrq(v) == SegmentsDone /\ Raise(v) /\ UNCHANGED <<start, paging, segments, keyboard>>

IrqOf(v) == Irq(v) /\ UNCHANGED <<start, paging, segments, keyboard>>

\* The handler of v runs to its end.
HandlerOf(v) ==
    /\ IF v = kKeyboardVec THEN KeyboardHandler ELSE Return(v) /\ UNCHANGED keyboard
    /\ UNCHANGED <<start, paging, segments>>

ExceptionOf(v) == Exception(v) /\ UNCHANGED <<start, paging, segments, keyboard>>

KNext ==
    \/ Early \/ Register \/ Ide \/ KeyboardDriver \/ Device \/ Typing
    \/ \E v \in Devices \ {kKeyboardVec} : RaiseIrq(v)
    \/ \E v \in Devices : IrqOf(v) \/ HandlerOf(v)
    \/ \E v \in (0 .. kIdtExcNum - 1) \ {kPfVec} : ExceptionOf(v)

\* The timer ticks every 55 ms and its handler takes microseconds, so that it is
\* not raised again and again within its own handler.
TicksApart == <>[][running = kTimerVec => ~RaiseIrq(kTimerVec)]_kernel_vars

\* The processor runs what does not wait for a disk, the controller and the
\* keyboard do what they are told, and an interrupt that is deliverable again
\* and again is delivered.  IdeInit and IdeHandler poll the disk without a limit
\* and are not fair.
KFairness ==
    /\ WF_kernel_vars(Early \/ Register)
    /\ WF_kernel_vars(KeyboardDriver)
    /\ WF_kernel_vars(Device)
    /\ \A v \in Devices : SF_kernel_vars(IrqOf(v))
    /\ \A v \in Devices \ {kIdeVec} : WF_kernel_vars(HandlerOf(v))
    /\ TicksApart

KSpec == KInit /\ [][KNext]_kernel_vars /\ KFairness

-----------------------------------------------------------------------------
KTypeOK ==
    /\ TypeOK
    /\ start \in {"entry", "ok", "returned"}
    /\ cr \in [{0, 4} -> SUBSET {5, 31}] /\ cr3 \in Nat
    /\ mem \in [Frames -> [Index -> Entry]]
    /\ gpc \in 0 .. IdtStart + 5
    /\ attached \in BOOLEAN /\ port1 \in BOOLEAN /\ int1 \in BOOLEAN /\ tested \in BOOLEAN
    /\ Len(inbuf) <= 1 /\ Len(outbuf) <= 1
    /\ line \in 1 .. Len(Statements) + 1
    /\ key_counter \in 0 .. 2 /\ cur \in Int /\ hit \in 0 .. MaxBytes
    /\ stale \in BOOLEAN

\* The kernel with its drivers in detail does what Interrupts allows, so what
\* is proved of that module holds of the whole boot.
ImplementsInterrupts == Spec

\* Once interrupts are on, every present gate but that of the system call lets
\* the processor into ring 0, through a code segment that covers all memory,
\* and the code selector an interrupted kernel_start returns to is still valid
\* in the table GdtInit loaded, though %cs is not reloaded.
GatesEnterKernel ==
    Booted =>
      /\ \A v \in idt \ {kSyscallVec} : Enters(v) /\ IsFlat(Descriptor(gates[v].seg_sel))
      /\ Loads("cs", sreg["cs"])

\* With a keyboard attached, and a boot loader that passes what is needed,
\* kernel_start gets to its end unless IdeInit waits for ever: no poll of
\* KeyboardInit does, whether the tests pass or fail and whatever is typed.
BootEnds == (start = "ok" /\ attached) ~> (Booted \/ [](boot = kIdtExcNum + 3))

\* IdeHandler, with interrupts off, waits for ever for a disk that is not ready.
DiskHangs == [](running = kIdeVec)

\* An interrupt of a device whose driver is installed is handled whatever the
\* others do, unless the disk or a request without its byte (RequestHasByte)
\* keeps a handler waiting.
RequestsHandled ==
    \A v \in Devices : (Booted /\ v \in irr \ imr) ~> (v \notin irr \/ stale \/ DiskHangs)

\* A byte the keyboard sent is read, whatever the other devices do but the disk,
\* and even after a request that had lost its byte: no edge of its line is lost
\* between the configuration, the mask and the handler.
BytesTaken ==
    (Booted /\ intr_handler[kKeyboardVec] = "KeyboardHandler" /\ outbuf # <<>>)
      ~> (outbuf = <<>> \/ DiskHangs)

=============================================================================
