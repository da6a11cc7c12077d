----------------------------- MODULE SleepWake ------------------------------
(***************************************************************************)
(* ThreadSleep and ThreadWake of thread/thread.c, on top of Scheduler.     *)
(*                                                                         *)
(* ThreadSleep runs in a thread with interrupts on, so the timer may       *)
(* preempt it between any two statements: it is a step per statement, and  *)
(* `frame' is what it keeps on the stack it runs on.  ThreadWake is called *)
(* by IdeHandler with interrupts off and is one step, or never returns.    *)
(* The callers keep to the contract: a pool thread (the IDE thread of      *)
(* driver/ide.c is one) sleeps, and only a thread that sleeps is woken.    *)
(***************************************************************************)
EXTENDS Scheduler

VARIABLES
  pc,      \* pc[t]: where in ThreadSleep the code on the stack of t is
  frame,   \* frame[t]: [cur, new], the locals of ThreadSwitch on that stack
  asleep,  \* threads that called ThreadSleep and were not woken since
  hung     \* a ThreadWake never returns

sleepVars == <<pc, frame, asleep, hung>>
allVars == <<vars, sleepVars>>

SleepInit ==
    /\ Init
    /\ pc = [t \in Threads |-> "task"]
    /\ frame = [t \in Threads |-> [cur |-> NULL, new |-> NULL]]
    /\ asleep = {}
    /\ hung = FALSE

\* The statement at `from' runs on the current stack.
Step(from, to) ==
    /\ booted /\ ~ hung
    /\ pc[cpu] = from
    /\ pc' = [pc EXCEPT ![cpu] = to]
    /\ UNCHANGED <<timer, inService, booted, line, hung>>

\* ThreadSleep: the current thread's node goes to block_thread_list.
ThreadSleep ==
    /\ cpu # kMain
    /\ Step("task", "dequeue")
    /\ mem' = [mem EXCEPT !.next = ListAdd(mem.next, BLOCK, tss)]
    /\ asleep' = asleep \cup {tss}
    /\ UNCHANGED <<tss, cpu, esp, frame>>

\* ThreadSwitch, one statement after the other.
SwitchDequeue ==
    LET new == QueueGetHead(mem, WAIT) IN
    /\ Step("dequeue", IF new = NULL THEN "task" ELSE "enqueue")
    /\ mem' = IF new = NULL THEN mem ELSE Dequeue(mem, WAIT)
    /\ frame' = [frame EXCEPT ![cpu].new = new]
    /\ UNCHANGED <<tss, cpu, esp, asleep>>

SwitchEnqueue ==
    /\ Step("enqueue", "tss")
    /\ mem' = Enqueue(mem, tss)
    /\ frame' = [frame EXCEPT ![cpu].cur = tss]
    /\ UNCHANGED <<tss, cpu, esp, asleep>>

SwitchTss ==
    /\ Step("tss", "reg")
    /\ tss' = frame[cpu].new
    /\ UNCHANGED <<mem, cpu, esp, frame, asleep>>

\* The thread that is switched out here finds itself back in its own code,
\* behind the call of ThreadSleep, when it is switched in again.
SwitchRegs ==
    /\ Step("reg", "task")
    /\ SwitchReg(frame[cpu].cur, frame[cpu].new)
    /\ UNCHANGED <<mem, tss, frame, asleep>>

\* The links as the loop of ThreadWake reads them.  Address 0 holds the null
\* descriptor of the GDT, whose first word is 0: NULL leads to NULL.
Links == [a \in Addr \cup {NULL} |-> IF a = NULL THEN NULL ELSE mem.next[a]]

ThreadWake(t) ==
    LET stop == [a \in DOMAIN Links |-> Links[a] \in {BLOCK, t}]
        tmp == Walk(Links, BLOCK, stop)
        removed == [mem EXCEPT !.next = ListRemove(mem.next, tmp)]
    IN  /\ booted /\ ~ hung
        /\ t \in asleep
        /\ hung' = ~ stop[tmp]
        /\ mem' = IF Links[tmp] = t THEN Enqueue(removed, t) ELSE mem
        /\ asleep' = asleep \ {t}
        /\ UNCHANGED <<tss, cpu, esp, timer, inService, booted, line, pc, frame>>

\* Thread creation at boot, and the timer.
Kernel ==
    /\ ~ hung
    /\ Next
    /\ UNCHANGED sleepVars

SleepNext ==
    \/ Kernel
    \/ ThreadSleep \/ SwitchDequeue \/ SwitchEnqueue \/ SwitchTss \/ SwitchRegs
    \/ \E t \in Threads : ThreadWake(t)

SleepSpec == SleepInit /\ [][SleepNext]_allVars

-----------------------------------------------------------------------------
\* A thread that called ThreadSleep does not run its own code again until it
\* is woken: the IDE thread "will sleep after sending a request to the drive
\* and be waken when drive sends back an interrupt" (ide.c:7-9).
SleepersDoNotRun == \A t \in asleep : ~ (cpu = t /\ pc[t] = "task")

\* What a switch saves in t->esp is the stack of t, as "we can find current
\* thread structure through TSS" (thread.h:48) at any time a timer interrupt
\* may arrive, in the middle of ThreadSleep too.
SavedOwnStack == \A t \in Threads : esp[t] = t

=============================================================================
