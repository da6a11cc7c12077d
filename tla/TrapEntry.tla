----------------------------- MODULE TrapEntry ------------------------------
(***************************************************************************)
(* The path into and out of an interrupt handler, on the stacks of kernel  *)
(* threads: the stubs of interrupt/intr_vec.S, _alltraps of intr_entry.S,  *)
(* the struct IntrReg of idt.h that the handlers read, and the change of   *)
(* stacks by ThreadSwitch and SwitchReg in the middle of TimerHandler.     *)
(*                                                                         *)
(* A stack is a sequence of the items pushed, the top last; an item has a  *)
(* name, a value and a size in bytes.  Code is at a place `pc'; a register *)
(* holds a value that names the thread and the register, so that a value   *)
(* in the wrong place shows.  No user thread can be started yet, so an     *)
(* interrupt never changes the privilege level and pushes no ss and esp;   *)
(* the gate of vector 0x80, meant for them, is left out.                   *)
(***************************************************************************)
EXTENDS Integers, Sequences

(* Four operators of Functions and SequencesExt.  They are defined here    *)
(* because the proofs would carry along all else that those modules and    *)
(* the ones that they extend define.                                       *)
Range(f) == {f[x] : x \in DOMAIN f}
Reverse(s) == [i \in 1 .. Len(s) |-> s[(Len(s) - i) + 1]]
Front(s) == SubSeq(s, 1, Len(s) - 1)
Last(s) == s[Len(s)]

CONSTANTS
  Threads,   \* kernel threads
  Main,      \* the one that runs kernel_start
  Vectors,   \* vectors that occur
  MaxNest    \* bound: interrupt frames on one stack

kKCodeSeg == 8
kKDataSeg == 16
kTimerVec == 32
kIdtExcNum == 32

Pushal == <<"eax", "ecx", "edx", "ebx", "ebp", "esi", "edi">>
Callee == <<"ebx", "esi", "edi", "ebp">>
SegRegs == <<"gs", "fs", "es", "ds">>
GenRegs == Range(Pushal)
Regs == GenRegs \cup Range(SegRegs)

ASSUME TrapAssumption ==
    /\ Main \in Threads
    /\ Vectors \subseteq 0 .. 255 \ {128}
    /\ MaxNest \in Nat

VARIABLES
  cpu,   \* the thread on whose stack the processor runs
  pc,    \* where its code is
  regs,  \* the registers
  intr,  \* the interrupt flag
  stk,   \* the stack of every thread
  ctx,   \* auxiliary: what was interrupted, for every frame on each stack
  task   \* auxiliary: the registers as the task of each thread left them

vars == <<cpu, pc, regs, intr, stk, ctx, task>>

\* What a word of the stack can hold; the register of a thread is made below.
Num(n) == <<"num", n>>
Code(place) == <<"code", place>>
Flag(b) == <<"flag", b>>
ErrCode == <<"err">>

Item(name, value, bytes) == [name |-> name, value |-> value, bytes |-> bytes]

\* Registers r1, r2, ... pushed one after the other.
PushRegs(s, rs, file, bytes) == s \o [i \in 1 .. Len(rs) |-> Item(rs[i], file[rs[i]], bytes)]

\* The register file after the n items on top of s are popped into the
\* registers rs, the first one from the top.
PopRegs(s, rs, file) ==
    [r \in Regs |-> IF r \in Range(rs)
                      THEN s[Len(s) + 1 - CHOOSE i \in 1 .. Len(rs) : rs[i] = r].value
                      ELSE file[r]]

Drop(s, n) == SubSeq(s, 1, Len(s) - n)

\* Registers of a task: a value of its own in every general register.
TaskRegs(t, n) == [r \in Regs |-> IF r \in GenRegs THEN <<"task", t, n, r>> ELSE Num(kKDataSeg)]

\* Registers in C code of the kernel.
KernelRegs == [r \in Regs |-> IF r \in GenRegs THEN <<"kernel">> ELSE Num(kKDataSeg)]

\* The stack KThreadRun prepares: the address of the task and four zeros.
KThreadRun == <<Item("ret", Code("task"), 4)>> \o [i \in 1 .. 4 |-> Item(Callee[i], Num(0), 4)]

Init ==
    /\ cpu = Main
    /\ pc = "task"
    /\ regs = TaskRegs(Main, 0)
    /\ intr = TRUE
    /\ stk = [t \in Threads |-> IF t = Main THEN <<>> ELSE KThreadRun]
    /\ ctx = [t \in Threads |-> <<>>]
    /\ task = [t \in Threads |-> TaskRegs(t, 0)]

\* The task uses its registers.
Work ==
    /\ pc = "task"
    /\ \E n \in {0, 1} : regs' = TaskRegs(cpu, n)
    /\ task' = [task EXCEPT ![cpu] = regs']
    /\ UNCHANGED <<cpu, pc, intr, stk, ctx>>

-----------------------------------------------------------------------------
\* The exceptions for which the processor pushes an error code.
HasErrorCode == {8, 10, 11, 12, 13, 14, 17, 21}

\* The processor takes interrupt or exception v through an interrupt gate.
Interrupt(v) ==
    LET err == IF v \in HasErrorCode THEN ErrCode ELSE Num(0)
        pushed == <<Item("eflags", Flag(intr), 4), Item("cs", Num(kKCodeSeg), 4), Item("eip", Code(pc), 4)>>
    IN  /\ IF v < kIdtExcNum THEN pc \in {"task", "handler"} ELSE intr
        /\ Len(ctx[cpu]) < MaxNest
        /\ stk' = [stk EXCEPT ![cpu] = @ \o pushed \o
                     IF v \in HasErrorCode THEN <<Item("err_code", err, 4)>> ELSE <<>>]
        /\ ctx' = [ctx EXCEPT ![cpu] = Append(@, [vec |-> v, err |-> err, regs |-> regs,
                                                  pc |-> pc, intr |-> intr,
                                                  sp |-> Len(stk[cpu])])]
        /\ pc' = "stub"
        /\ intr' = FALSE
        /\ UNCHANGED <<cpu, regs, task>>

\* Stubs that also push a 0 for the page fault, which has an error code.
PushesZeroMore(v) == v \notin {8, 10, 11, 12, 13, 17, 21}

\* The stubs that push a 0 in place of an error code.
PushesZero(v) == v \notin {8, 10, 11, 12, 13, 14, 17, 21}

\* The table of the stubs' addresses, from which IdtInit makes the gates.
intr_vec == [v \in Vectors |-> v]

\* The stub to which the gate of the interrupt's vector leads.
Stub ==
    LET v == intr_vec[Last(ctx[cpu]).vec]
        zero == IF PushesZero(v) THEN <<Item("err_code", Num(0), 4)>> ELSE <<>>
    IN  /\ pc = "stub"
        /\ intr' = FALSE
        /\ stk' = [stk EXCEPT ![cpu] = @ \o zero \o <<Item("intr_vec_no", Num(v), 4)>>]
        /\ pc' = "alltraps"
        /\ UNCHANGED <<cpu, regs, ctx, task>>

\* _alltraps up to the call: pushal, with esp between ebx and ebp, the segment
\* registers, the pointer to all this and the return address.
AllTraps ==
    LET gen == PushRegs(PushRegs(stk[cpu], SubSeq(Pushal, 1, 4), regs, 4)
                          \o <<Item("esp", Num(0), 4)>>, SubSeq(Pushal, 5, 7), regs, 4)
        all == PushRegs(gen, SegRegs, regs, 2)
    IN  /\ pc = "alltraps"
        /\ stk' = [stk EXCEPT ![cpu] = all \o <<Item("arg", Num(Len(all)), 4), Item("ret", Code("leave"), 4)>>]
        /\ regs' = KernelRegs
        /\ pc' = "handler"
        /\ UNCHANGED <<cpu, intr, ctx, task>>

\* A SwitchReg without the 'sti'.
SwitchRegNoSti(u) ==
    /\ stk' = [stk EXCEPT ![cpu] = PushRegs(Append(@, Item("ret", Code("switched"), 4)),
                                            Callee, regs, 4),
                          ![u] = Drop(@, 5)]
    /\ regs' = PopRegs(stk[u], Reverse(Callee), regs)
    /\ pc' = stk[u][Len(stk[u]) - 4].value[2]
    /\ UNCHANGED intr

\* SwitchReg: the callee-saved registers go on the old stack and come from the
\* new one, and 'ret' goes where the new thread called SwitchReg or starts.
SwitchReg(u) ==
    /\ stk' = [stk EXCEPT ![cpu] = PushRegs(Append(@, Item("ret", Code("switched"), 4)),
                                            Callee, regs, 4),
                          ![u] = Drop(@, 5)]
    /\ regs' = PopRegs(stk[u], Reverse(Callee), regs)
    /\ pc' = stk[u][Len(stk[u]) - 4].value[2]
    /\ intr' = TRUE

\* TimerHandler at the end of a time slice: ThreadSwitch, to any other thread.
ThreadSwitch(u) ==
    /\ pc = "handler" /\ Last(ctx[cpu]).vec = kTimerVec
    /\ u # cpu
    /\ SwitchReg(u)
    /\ cpu' = u
    /\ task' = IF pc' = "task" THEN [task EXCEPT ![u] = regs'] ELSE task
    /\ UNCHANGED ctx

\* The handler returns to _alltraps; if it was switched out it comes back to
\* ThreadSwitch first, which enables interrupts.
HandlerReturn ==
    /\ pc \in {"handler", "switched"}
    /\ pc' = Last(stk[cpu]).value[2]
    /\ intr' = IF pc = "switched" THEN TRUE ELSE intr
    /\ stk' = [stk EXCEPT ![cpu] = Front(@)]
    /\ regs' = KernelRegs
    /\ UNCHANGED <<cpu, ctx, task>>

\* 'pop %esp': the stack is what the argument points to.
PopArg ==
    /\ pc = "leave"
    /\ stk' = [stk EXCEPT ![cpu] = SubSeq(@, 1, Last(@).value[2])]
    /\ pc' = "segs"
    /\ UNCHANGED <<cpu, regs, intr, ctx, task>>

PopSegs ==
    /\ pc = "segs"
    /\ regs' = PopRegs(stk[cpu], Reverse(SegRegs), regs)
    /\ stk' = [stk EXCEPT ![cpu] = Drop(@, 4)]
    /\ pc' = "popal"
    /\ UNCHANGED <<cpu, intr, ctx, task>>

\* A 'popal' that takes the saved esp for ebp.
PopalShifted ==
    /\ pc = "popal"
    /\ regs' = PopRegs(stk[cpu], <<"edi", "esi", "esp", "ebp", "ebx", "edx", "ecx", "eax">>, regs)
    /\ stk' = [stk EXCEPT ![cpu] = Drop(@, 8)]
    /\ pc' = "iret"
    /\ UNCHANGED <<cpu, intr, ctx, task>>

\* 'popal' skips the saved esp.
Popal ==
    /\ pc = "popal"
    /\ regs' = PopRegs(stk[cpu], <<"edi", "esi", "ebp", "esp", "ebx", "edx", "ecx", "eax">>, regs)
    /\ stk' = [stk EXCEPT ![cpu] = Drop(@, 8)]
    /\ pc' = "iret"
    /\ UNCHANGED <<cpu, intr, ctx, task>>

\* The vector and the error code are dropped; eip, cs and eflags popped.
Iret ==
    LET s == Drop(stk[cpu], 2) IN
    /\ pc = "iret"
    /\ pc' = Last(s).value[2]
    /\ intr' = s[Len(s) - 2].value[2]
    /\ stk' = [stk EXCEPT ![cpu] = Drop(s, 3)]
    /\ ctx' = [ctx EXCEPT ![cpu] = Front(@)]
    /\ UNCHANGED <<cpu, regs, task>>

Next ==
    \/ Work \/ Stub \/ AllTraps \/ HandlerReturn \/ PopArg \/ PopSegs \/ Popal \/ Iret
    \/ \E v \in Vectors : Interrupt(v)
    \/ \E u \in Threads : ThreadSwitch(u)

Spec == Init /\ [][Next]_vars

-----------------------------------------------------------------------------
\* struct IntrReg, from its lowest address: the fields and their sizes.
IntrReg ==
    <<<<"ds", 2>>, <<"es", 2>>, <<"fs", 2>>, <<"gs", 2>>, <<"edi", 4>>, <<"esi", 4>>,
      <<"ebp", 4>>, <<"esp", 4>>, <<"ebx", 4>>, <<"edx", 4>>, <<"ecx", 4>>, <<"eax", 4>>,
      <<"intr_vec_no", 4>>, <<"err_code", 4>>, <<"eip", 4>>, <<"cs", 4>>, <<"eflags", 4>>>>

\* What field f holds when the context c was interrupted.
FieldOf(c, f) ==
    CASE f \in Regs -> c.regs[f]
      [] f = "intr_vec_no" -> Num(c.vec)
      [] f = "err_code" -> c.err
      [] f = "eip" -> Code(c.pc)
      [] f = "eflags" -> Flag(c.intr)
      [] f = "cs" -> Num(kKCodeSeg)
      [] f = "esp" -> Num(0)

\* A handler's pointer leads to an IntrReg of the interrupt it serves: at every
\* field of the struct is the item pushed for it, whether the error code comes
\* from the processor or from the stub.
HandlerSeesIntrReg ==
    pc = "handler" =>
      LET s == stk[cpu]
          p == s[Len(s) - 1].value[2]
          c == Last(ctx[cpu])
      IN  \A k \in 1 .. Len(IntrReg) :
            LET f == IntrReg[k][1]
            IN  s[p + 1 - k] = Item(f, FieldOf(c, f), IntrReg[k][2])

\* An interrupt is invisible to the thread it interrupts: whenever the thread's
\* own code runs, its registers hold what it left in them and its stack is as
\* it was, whatever interrupts nested and whichever threads ran in between.
TaskUndisturbed == pc = "task" => regs = task[cpu] /\ stk[cpu] = <<>>

\* A thread's own code runs with interrupts enabled, also in its first time
\* slice, so the next timer interrupt can take the processor from it.
TaskPreemptible == pc = "task" => intr

=============================================================================
