----------------------------- MODULE Interrupts -----------------------------
(***************************************************************************)
(* Interrupt vectors and the two 8259 controllers: interrupt/interrupt.c,  *)
(* idt.c and pic.c, the entry code intr_vec.S and intr_entry.S, and what   *)
(* kernel_start has the parts of the kernel register, in its order.        *)
(*                                                                         *)
(* The controllers are external, modelled from how pic.c programs them:    *)
(* an edge sets a bit in irr; the bit is delivered when it is not masked   *)
(* and nothing of its priority or above is in service; a non-specific EOI  *)
(* ends the service of the highest priority.  An IRQ is named by its       *)
(* vector.  A handler runs with interrupts off (the 'cli' of its stub):    *)
(* one step delivers the IRQ and enters the handler, another one ends it,  *)
(* and between them only exceptions and the devices go on.                 *)
(***************************************************************************)
EXTENDS Bitmap, Sequences

CONSTANTS
  NULL,
  Devices   \* the vectors on which devices raise interrupts

kIdtEntryNum == 256
kIdtExcNum == 32
kPfVec == 14
kTimerVec == 32
kKeyboardVec == 33
kIdeVec == 46
kSyscallVec == 128
kMIcw2 == 32
kSIcw2 == kMIcw2 + 8
Cascade == kMIcw2 + 2   \* kIrqSlave, the line that connects the slave

Vectors == 0 .. kIdtEntryNum - 1
MasterIrqs == kMIcw2 .. kSIcw2 - 1
SlaveIrqs == kSIcw2 .. kSIcw2 + 7
Handlers == {"ExcHandler", "PfHandler", "Syscall", "IdeHandler", "TimerHandler",
             "KeyboardHandler"}
EoiFirst == {"IdeHandler", "TimerHandler"}   \* those that send the EOI ahead of their work

ASSUME DevicesAssumption ==
    /\ Devices \subseteq (MasterIrqs \cup SlaveIrqs) \ {Cascade}
    /\ NULL \notin Handlers /\ NULL \notin Vectors

VARIABLES
  IntrVecMap,    \* the bitmap of vectors in use
  intr_handler,  \* vector -> handler or NULL
  idt,           \* the vectors whose gate has the present flag
  imr,           \* the IRQs that are masked
  irr,           \* the IRQs requested
  isr,           \* the IRQs in service, on the master and on the slave
  running,       \* the IRQ whose handler runs, or NULL
  boot           \* the next statement of kernel_start that concerns us

tables == <<IntrVecMap, intr_handler, idt>>
pic == <<imr, irr, isr, running>>
vars == <<IntrVecMap, intr_handler, idt, imr, irr, isr, running, boot>>

\* Every gate leads to its stub, and none is present.
IdtInit == idt = {}

\* Every IRQ but the cascade is masked.
PicInit ==
    /\ imr = (MasterIrqs \cup SlaveIrqs) \ {Cascade}
    /\ irr = {}
    /\ isr = {}
    /\ running = NULL

\* The state in which IntrInit starts to register handlers.
Init ==
    /\ IdtInit
    /\ PicInit
    /\ IntrVecMap = {}
    /\ intr_handler = [v \in Vectors |-> NULL]
    /\ boot = 0

-----------------------------------------------------------------------------
\* A RegIntrHandler that enables the gate of a vector it refuses.
RegIntrHandlerAlwaysGate(v, handler) ==
    /\ IF IsBitmapSet(IntrVecMap, v)
         THEN UNCHANGED <<IntrVecMap, intr_handler>>
         ELSE /\ IntrVecMap' = SetBitmap(IntrVecMap, v)
              /\ intr_handler' = [intr_handler EXCEPT ![v] = handler]
    /\ idt' = idt \cup {v}

EnableIdt(v) == idt' = idt \cup {v}

DisableIdt(v) == idt' = idt \ {v}

RegIntrHandler(v, handler) ==
    IF IsBitmapSet(IntrVecMap, v)
      THEN UNCHANGED tables
      ELSE /\ IntrVecMap' = SetBitmap(IntrVecMap, v)
           /\ intr_handler' = [intr_handler EXCEPT ![v] = handler]
           /\ EnableIdt(v)

RemoveIntrHandler(v) ==
    /\ DisableIdt(v)
    /\ intr_handler' = [intr_handler EXCEPT ![v] = NULL]
    /\ IntrVecMap' = ClearBitmap(IntrVecMap, v)

EnableIrq(v) == imr' = imr \ {v}

-----------------------------------------------------------------------------
(* kernel_start: `boot' counts the loop of IntrInit, then the statements.  *)

\* A loop of IntrInit that goes one vector too far.
ExcVectorsOneMore ==
    /\ boot <= kIdtExcNum
    /\ RegIntrHandler(boot, "ExcHandler")
    /\ boot' = boot + 1
    /\ UNCHANGED pic

ExcVectors ==
    /\ boot < kIdtExcNum
    /\ RegIntrHandler(boot, "ExcHandler")
    /\ boot' = boot + 1
    /\ UNCHANGED pic

\* A statement of kernel_start that may run again.
AtOrAfter(k) == boot >= kIdtExcNum + k /\ boot' = boot + 1

\* The k-th statement after the loop of IntrInit.
At(k) == boot = kIdtExcNum + k /\ boot' = boot + 1

RemovePf == At(0) /\ RemoveIntrHandler(kPfVec) /\ UNCHANGED pic

RegPf == At(1) /\ RegIntrHandler(kPfVec, "PfHandler") /\ UNCHANGED pic

SyscallInit == At(2) /\ RegIntrHandler(kSyscallVec, "Syscall") /\ UNCHANGED pic

\* A driver that registers its handler and unmasks its IRQ, in either order:
\* interrupts are still off.
Install(v, handler) ==
    RegIntrHandler(v, handler) /\ EnableIrq(v) /\ UNCHANGED <<irr, isr, running>>

\* IdeInit and KeyboardInit return early when the device does not answer.
NoDevice == UNCHANGED <<tables, pic>>

IdeInit == At(3) /\ (Install(kIdeVec, "IdeHandler") \/ NoDevice)

TimerInit == At(4) /\ Install(kTimerVec, "TimerHandler")

KeyboardInit == At(5) /\ (Install(kKeyboardVec, "KeyboardHandler") \/ NoDevice)

\* The 'sti' at the end.
Sti == At(6) /\ UNCHANGED <<tables, pic>>

Booted == boot = kIdtExcNum + 7

-----------------------------------------------------------------------------
\* A device raises its line.
Raise(v) ==
    /\ irr' = irr \cup {v}
    /\ UNCHANGED <<tables, imr, isr, running, boot>>

\* The lines of the master that v needs and is served by.
MasterLine(v) == IF v \in SlaveIrqs THEN Cascade ELSE v

\* v is unmasked, and no request or service is ahead of it.
Deliverable(v) ==
    /\ v \in irr \ imr
    /\ MasterLine(v) \notin imr
    /\ \A w \in (irr \ imr) \cup isr :
         /\ MasterLine(w) >= MasterLine(v)
         /\ MasterLine(w) = MasterLine(v) => w >= v \/ w = Cascade
    /\ {v, MasterLine(v)} \cap isr = {}

\* The services left in the set s after a non-specific EOI.
Eoi(s) == {v \in s : \E w \in s : w < v}

\* A SendEoi that takes the slave's EOI to be enough.
SendEoiOne(s, v) ==
    IF v >= kSIcw2 THEN (s \cap MasterIrqs) \cup Eoi(s \cap SlaveIrqs)
    ELSE Eoi(s \cap MasterIrqs) \cup (s \cap SlaveIrqs)

\* SendEoi(v) with the IRQs of s in service.
SendEoi(s, v) ==
    Eoi(s \cap MasterIrqs)
    \cup IF v >= kSIcw2 THEN Eoi(s \cap SlaveIrqs) ELSE s \cap SlaveIrqs

\* The stub and IntrHandlerSel, which enters the handler and sends no EOI
\* itself; a handler of EoiFirst sends it at once.
Irq(v) ==
    LET served == isr \cup {v, MasterLine(v)} IN
    /\ Booted
    /\ running = NULL
    /\ Deliverable(v)
    /\ v \in idt
    /\ irr' = irr \ {v}
    /\ isr' = IF intr_handler[v] \in EoiFirst THEN SendEoi(served, v) ELSE served
    /\ running' = IF intr_handler[v] # NULL THEN v ELSE NULL
    /\ UNCHANGED <<tables, imr, boot>>

\* The handler of v to its end, with the SendEoi of those that send it last.
Return(v) ==
    /\ running = v
    /\ isr' = IF intr_handler[v] \in EoiFirst THEN isr ELSE SendEoi(isr, v)
    /\ running' = NULL
    /\ UNCHANGED <<tables, imr, irr, boot>>

\* An exception with a gate of its own, in the idle kernel or in a handler:
\* ExcHandler sends an EOI too, though no controller waits for one.
Exception(v) ==
    /\ Booted
    /\ v \in idt
    /\ isr' = IF intr_handler[v] = "ExcHandler" THEN SendEoi(isr, v) ELSE isr
    /\ UNCHANGED <<tables, imr, irr, running, boot>>

Kernel ==
    \/ ExcVectors \/ RemovePf \/ RegPf \/ SyscallInit
    \/ IdeInit \/ TimerInit \/ KeyboardInit \/ Sti

Next ==
    \/ Kernel
    \/ \E v \in Devices : Raise(v) \/ Irq(v) \/ Return(v)
    \/ \E v \in 0 .. kIdtExcNum - 1 : Exception(v)

\* Fairness is stated in module Kernel, which has the waits of the handlers.
Spec == Init /\ [][Next]_vars

-----------------------------------------------------------------------------
TypeOK ==
    /\ IntrVecMap \subseteq {BitOf(v) : v \in Vectors}
    /\ intr_handler \in [Vectors -> Handlers \cup {NULL}]
    /\ idt \subseteq Vectors
    /\ imr \subseteq MasterIrqs \cup SlaveIrqs
    /\ irr \subseteq Devices
    /\ isr \subseteq MasterIrqs \cup SlaveIrqs
    /\ running \in Devices \cup {NULL}
    /\ boot \in 0 .. kIdtExcNum + 7

\* A gate is present exactly when its vector has a handler, whatever the
\* bitmap, in which vectors share bits, makes RegIntrHandler refuse.
GateHasHandler == \A v \in Vectors : v \in idt <=> intr_handler[v] # NULL

\* Once interrupts are on, an IRQ that is not masked has the handler of its own
\* driver behind a present gate: no driver's registration was refused for the
\* bit of another vector, and no driver that failed left its IRQ open.
OpenIrqHasHandler ==
    Booted =>
      \A v \in (MasterIrqs \cup SlaveIrqs) \ (imr \cup {Cascade}) :
        /\ v \in idt
        /\ <<v, intr_handler[v]>> \in {<<kTimerVec, "TimerHandler">>,
                                      <<kKeyboardVec, "KeyboardHandler">>,
                                      <<kIdeVec, "IdeHandler">>}

\* Every interrupt is acknowledged, on the slave and on the master, by the time
\* its handler is done, and a handler that has not yet sent its EOI is the only
\* one in service: the EOI of an exception inside it can end no other service.
AllAcknowledged == isr \subseteq (IF running = NULL THEN {} ELSE {running, MasterLine(running)})

=============================================================================
