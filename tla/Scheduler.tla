----------------------------- MODULE Scheduler ------------------------------
(***************************************************************************)
(* Kernel threads and preemption by the timer: thread/thread.c,            *)
(* thread/switch_reg.S and driver/timer.c, on one processor.               *)
(*                                                                         *)
(* All the lists of thread.c are threaded through the one 'node' of a      *)
(* Thread, so they live in one memory, `mem.next'.  A thread is its tid,   *)
(* and stands for its node: ThreadInit gives the pool the tids 1..N so     *)
(* that free_thread_list holds them in this order, and k_main is 0.        *)
(*                                                                         *)
(* Threads are created while interrupts are still off (DriverInit runs     *)
(* before the 'sti' that ends kernel_start).  TimerHandler runs with       *)
(* interrupts off until the 'sti' of SwitchReg, its last change of shared  *)
(* state, so it is one step.  A thread of process 0 is the only kind       *)
(* KThreadRun starts, so the page-directory switch of ThreadSwitch, for    *)
(* threads of different processes, is not taken here.                      *)
(***************************************************************************)
EXTENDS Lists

CONSTANTS
  N,             \* kThreadPoolInitNum
  kTimerReset,   \* timer interrupts in a time slice
  FREE,          \* the head of free_thread_list
  WAIT,          \* the head of wait_thread_queue
  BLOCK,         \* the head of block_thread_list
  KLIST          \* k_pcb->thread_list, a list head inside the Pcb

Pool == 1 .. N
kMain == 0
Threads == Pool \cup {kMain}
Heads == {FREE, WAIT, BLOCK, KLIST}
Addr == Threads \cup Heads

ASSUME SchedulerAssumption ==
    /\ N \in Nat
    /\ kTimerReset \in 1 .. 255
    /\ Heads \cap Nat = {} /\ NULL \notin Nat \cup Heads
    /\ FREE \notin {WAIT, BLOCK, KLIST} /\ WAIT \notin {BLOCK, KLIST} /\ BLOCK # KLIST

VARIABLES
  mem,        \* [next, tail]: the list memory and wait_thread_queue->tail
  tss,        \* the thread that tss->esp0 leads to: GetCurThread()
  cpu,        \* the thread on whose stack the processor runs
  esp,        \* esp[t]: the thread into whose stack t->esp points
  timer,      \* the uint8_t of timer.c
  inService,  \* the interrupt controller waits for the timer's EOI
  booted,     \* kernel_start has executed 'sti'
  line        \* auxiliary: the threads waiting, in order

vars == <<mem, tss, cpu, esp, timer, inService, booted, line>>

\* The links after ThreadInit: the pool in tid order, the other lists empty.
ThreadInit ==
    [a \in Addr |-> IF a \in Pool THEN IF a = N THEN FREE ELSE a + 1
                    ELSE IF a = kMain THEN NULL
                    ELSE IF a = FREE /\ N > 0 THEN 1
                    ELSE a]

\* The state after ThreadInit and TimerInit.
Init ==
    /\ mem = [next |-> ThreadInit, tail |-> WAIT]
    /\ tss = kMain
    /\ cpu = kMain
    /\ esp = [t \in Threads |-> t]
    /\ timer = kTimerReset
    /\ inService = FALSE
    /\ booted = FALSE
    /\ line = <<>>

\* A CreateThread that takes the first free thread and does not unlink it.
CreateThreadKeepsFree(next) == ListAdd(next, KLIST, next[FREE])

\* CreateThread(GetKPcb()) of a pool that is not empty: the links after it.
CreateThread(next) == ListAdd(ListRemove(next, FREE), KLIST, next[FREE])

\* CreateThread and KThreadRun.  The node goes from free_thread_list to the
\* process's thread_list and from there, without being unlinked, to
\* wait_thread_queue.
StartThread ==
    LET t == mem.next[FREE] IN
    /\ ~ booted
    /\ ~ IsListEmpty(mem.next, FREE)
    /\ mem' = Enqueue([mem EXCEPT !.next = CreateThread(mem.next)], t)
    /\ esp' = [esp EXCEPT ![t] = t]
    /\ line' = Append(line, t)
    /\ UNCHANGED <<tss, cpu, timer, inService, booted>>

Sti ==
    /\ ~ booted
    /\ booted' = TRUE
    /\ UNCHANGED <<mem, tss, cpu, esp, timer, inService, line>>

\* SwitchReg saves the running stack pointer in cur->esp, then loads new->esp.
SwitchReg(cur, new) ==
    LET saved == [esp EXCEPT ![cur] = cpu]
    IN  /\ esp' = saved
        /\ cpu' = saved[new]

\* A ThreadSwitch that drops the current thread.
ThreadSwitchDropsCurrent ==
    LET new == QueueGetHead(mem, WAIT)
    IN  IF new = NULL
          THEN UNCHANGED <<mem, tss, cpu, esp, line>>
          ELSE /\ mem' = Dequeue(mem, WAIT)
               /\ tss' = new
               /\ SwitchReg(tss, new)
               /\ line' = Append(Tail(line), tss)

\* A ThreadSwitch that puts the current thread at the head of the queue.
ThreadSwitchToFront ==
    LET new == QueueGetHead(mem, WAIT)
        m == Dequeue(mem, WAIT)
    IN  IF new = NULL
          THEN UNCHANGED <<mem, tss, cpu, esp, line>>
          ELSE /\ mem' = [next |-> ListAdd(m.next, WAIT, tss),
                          tail |-> IF m.tail = WAIT THEN tss ELSE m.tail]
               /\ tss' = new
               /\ SwitchReg(tss, new)
               /\ line' = Append(Tail(line), tss)

\* A ThreadSwitch that leaves the old thread's stack in the TSS.
ThreadSwitchKeepsTss ==
    LET new == QueueGetHead(mem, WAIT)
    IN  IF new = NULL
          THEN UNCHANGED <<mem, tss, cpu, esp, line>>
          ELSE /\ mem' = Enqueue(Dequeue(mem, WAIT), tss)
               /\ SwitchReg(tss, new)
               /\ line' = Append(Tail(line), tss)
               /\ UNCHANGED tss

\* ThreadSwitch of thread.c with interrupts off.
ThreadSwitch ==
    LET new == QueueGetHead(mem, WAIT)
    IN  IF new = NULL
          THEN UNCHANGED <<mem, tss, cpu, esp, line>>
          ELSE /\ mem' = Enqueue(Dequeue(mem, WAIT), tss)
               /\ tss' = new
               /\ SwitchReg(tss, new)
               /\ line' = IF line = <<>> THEN line ELSE Append(Tail(line), tss)

\* A TimerHandler that sends the EOI only when it does not switch.
TimerHandlerLateEoi ==
    /\ booted /\ ~ inService
    /\ IF (timer - 1) % 256 = 0
         THEN timer' = kTimerReset /\ inService' = TRUE /\ ThreadSwitch
         ELSE /\ timer' = (timer - 1) % 256
              /\ inService' = FALSE
              /\ UNCHANGED <<mem, tss, cpu, esp, line>>
    /\ UNCHANGED booted

\* A TimerHandler that does not start the next time slice.
TimerHandlerNoReset ==
    /\ booted /\ ~ inService
    /\ timer' = (timer - 1) % 256
    /\ IF (timer - 1) % 256 = 0 THEN ThreadSwitch ELSE UNCHANGED <<mem, tss, cpu, esp, line>>
    /\ inService' = FALSE
    /\ UNCHANGED booted

\* The interrupt: the controller raises it only after the EOI of the last.
\* SendEoi comes before ThreadSwitch, which may not return in this thread.
TimerHandler ==
    /\ booted /\ ~ inService
    /\ IF (timer - 1) % 256 = 0
         THEN timer' = kTimerReset /\ ThreadSwitch
         ELSE /\ timer' = (timer - 1) % 256
              /\ UNCHANGED <<mem, tss, cpu, esp, line>>
    /\ inService' = FALSE
    /\ UNCHANGED booted

Next == StartThread \/ Sti \/ TimerHandler

\* The timer never stops ticking once TimerInit has programmed it (mode 3 of
\* the 8254 reloads by itself), and kernel_start runs to its end.
Fairness == WF_vars(Sti) /\ WF_vars(TimerHandler)

Spec == Init /\ [][Next]_vars /\ Fairness

-----------------------------------------------------------------------------
Started == Members(line) \cup {cpu}

TypeOK ==
    /\ QueueType(mem, Addr)
    /\ tss \in Threads /\ cpu \in Threads
    /\ esp \in [Threads -> Threads]
    /\ timer \in 1 .. kTimerReset
    /\ inService \in BOOLEAN /\ booted \in BOOLEAN
    /\ line \in Seq(Threads)

\* wait_thread_queue holds exactly the started threads that do not run, each
\* once, although creation threads their nodes through two other lists first.
WaitQueueInv == IsQueue(mem, WAIT, line) /\ cpu \notin Members(line)

\* free_thread_list holds exactly the threads never started, in tid order.
FreeListInv ==
    LET first == Len(line) + 1 IN
    /\ mem.next[FREE] = IF first > N THEN FREE ELSE first
    /\ \A t \in first .. N :
         mem.next[t] = IF t = N THEN FREE ELSE t + 1

\* GetCurThread names the thread whose stack is running, and every other
\* thread's saved esp points into its own stack (thread.h, the comment in
\* GetCurThread).
OwnStack == cpu = tss /\ \A t \in Threads : esp[t] = t

Abstract == INSTANCE RoundRobin WITH running <- cpu, First <- kMain, Others <- Pool

\* Preemption is round robin: ThreadSwitch gives the processor to the thread
\* that has waited longest and sends the old one to the end of the line.
ImplementsRoundRobin == Abstract!Spec

\* No thread starves: once interrupts are on, every started thread gets the
\* processor again and again.
EveryThreadRuns ==
    \A t \in Threads : (booted /\ t \in Started) ~> (cpu = t)

=============================================================================
