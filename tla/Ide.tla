-------------------------------- MODULE Ide ---------------------------------
(***************************************************************************)
(* The IDE driver, driver/ide.c: threads that call IdeRead and IdeWrite,   *)
(* the IDE thread in RunIde, the drive, and IdeHandler.                    *)
(*                                                                         *)
(* Threads run with interrupts on and may be preempted and interrupted     *)
(* between any two accesses to block_queue, so Enqueue and QueueGetHead    *)
(* are several steps in a thread; IdeHandler runs with interrupts off and  *)
(* is one.  A pending interrupt is taken before a thread goes on.          *)
(*                                                                         *)
(* ThreadSleep is modelled by what SleepWake finds of it: the IDE thread   *)
(* stays runnable and comes back at some time.  The thread IdeHandler      *)
(* wakes never went to sleep, so ThreadWake changes nothing here, and the  *)
(* data that is moved is left out.  A block is a piece of memory for an    *)
(* IdeBlock; the release of its `node', which is no block that ReqBytes    *)
(* returned, concerns only the allocator.                                  *)
(***************************************************************************)
EXTENDS Lists

CONSTANTS
  HEAD,        \* block_queue->head
  Blocks,      \* memory for IdeBlocks
  Clients,     \* threads that use the disk
  Requests,    \* the sectors asked for, each once: also a bound
  BlockNums,   \* arguments block_num, positive
  kBlockSize   \* sectors in a block

VARIABLES
  mem,       \* [next, tail]: block_queue
  blk,       \* block -> [req, op, left]: sec_addr, op and sec_num
  used,      \* the blocks ReqBytes has given out
  io,        \* client -> [pc, block, prev, next]: its place in Enqueue
  ide,       \* [pc, node, cmd]: the IDE thread's place in RunIde
  drive,     \* the command the drive works on, or NULL
  irq,       \* the drive's interrupt: "none", "done" or "error"
  asked,     \* auxiliary: requests made
  pending,   \* auxiliary: of these, the ones whose call has returned and not served
  hung       \* IdeHandler uses a NULL block and never returns

vars == <<mem, blk, used, io, ide, drive, irq, asked, pending, hung>>

Addr == Blocks \cup {HEAD, NULL}
Idle == [pc |-> "idle", block |-> NULL, prev |-> NULL, next |-> NULL]

\* What RunIde reads of a node that is no request.
Garbage == [req : {NULL}, op : BOOLEAN]

\* The end of IdeInit: an empty queue and a thread in RunIde.
Init ==
    /\ mem = EmptyQueue([a \in Addr |-> NULL], HEAD)
    /\ blk = [b \in Blocks |-> [req |-> NULL, op |-> FALSE, left |-> 0]]
    /\ used = {}
    /\ io = [t \in Clients |-> Idle]
    /\ ide = [pc |-> "test", node |-> NULL, cmd |-> NULL]
    /\ drive = NULL
    /\ irq = "none"
    /\ asked = {}
    /\ pending = {}
    /\ hung = FALSE

\* A thread runs: no interrupt is waiting for the processor.
Running == irq = "none" /\ ~ hung

-----------------------------------------------------------------------------
\* IdeRead (op FALSE) and IdeWrite (op TRUE) up to the call of Enqueue.
NewBlock(t, r, op) ==
    /\ Running /\ io[t].pc = "idle"
    /\ r \notin asked
    /\ asked' = asked \cup {r}
    /\ \E b \in Blocks \ used, n \in BlockNums :
         /\ used' = used \cup {b}
         /\ blk' = [blk EXCEPT ![b] = [req |-> r, op |-> op, left |-> n * kBlockSize]]
         /\ mem' = [mem EXCEPT !.next[b] = NULL]
         /\ io' = [io EXCEPT ![t] = [Idle EXCEPT !.pc = "tail", !.block = b]]
    /\ UNCHANGED <<ide, drive, irq, pending, hung>>

\* Enqueue: the tail is read and passed to ListAdd ...
EnqueueTail(t) ==
    /\ Running /\ io[t].pc = "tail"
    /\ io' = [io EXCEPT ![t].pc = "next", ![t].prev = mem.tail]
    /\ UNCHANGED <<mem, blk, used, ide, drive, irq, asked, pending, hung>>

\* ... which reads the node after it ...
AddNext(t) ==
    /\ Running /\ io[t].pc = "next"
    /\ io' = [io EXCEPT ![t].pc = "link", ![t].next = mem.next[io[t].prev]]
    /\ UNCHANGED <<mem, blk, used, ide, drive, irq, asked, pending, hung>>

\* ... and links the new node behind the one and before the other.
AddLink(t) ==
    /\ Running /\ io[t].pc = "link"
    /\ mem' = [mem EXCEPT !.next[io[t].prev] = io[t].block]
    /\ io' = [io EXCEPT ![t].pc = "close"]
    /\ UNCHANGED <<blk, used, ide, drive, irq, asked, pending, hung>>

AddClose(t) ==
    /\ Running /\ io[t].pc = "close"
    /\ mem' = [mem EXCEPT !.next[io[t].block] = io[t].next]
    /\ io' = [io EXCEPT ![t].pc = "set"]
    /\ UNCHANGED <<blk, used, ide, drive, irq, asked, pending, hung>>

\* The new node becomes the tail and the call returns.  The request may have
\* been served already.
EnqueueSet(t) ==
    LET b == io[t].block IN
    /\ Running /\ io[t].pc = "set"
    /\ mem' = [mem EXCEPT !.tail = b]
    /\ io' = [io EXCEPT ![t] = Idle]
    /\ pending' = IF b \in used THEN pending \cup {blk[b].req} ELSE pending
    /\ UNCHANGED <<blk, used, ide, drive, irq, asked, hung>>

-----------------------------------------------------------------------------
\* QueueGetHead of RunIde: a test of the list, then the node after its head.
RunTest ==
    /\ Running /\ ide.pc = "test"
    /\ ~ IsListEmpty(mem.next, HEAD)
    /\ ide' = [ide EXCEPT !.pc = "get"]
    /\ UNCHANGED <<mem, blk, used, io, drive, irq, asked, pending, hung>>

RunGet ==
    LET node == mem.next[HEAD] IN
    /\ Running /\ ide.pc = "get"
    /\ ide' = [ide EXCEPT !.pc = IF node = NULL THEN "test" ELSE "read", !.node = node]
    /\ UNCHANGED <<mem, blk, used, io, drive, irq, asked, pending, hung>>

\* The arguments of RSec or WSec.
RunRead ==
    /\ Running /\ ide.pc = "read"
    /\ \E c \in IF ide.node \in Blocks
                  THEN {[req |-> blk[ide.node].req, op |-> blk[ide.node].op]}
                  ELSE Garbage :
         ide' = [ide EXCEPT !.pc = "send", !.cmd = c]
    /\ UNCHANGED <<mem, blk, used, io, drive, irq, asked, pending, hung>>

\* IdeWait ends: the drive is not busy.
IdeWait == drive = NULL

\* RSec and WSec: IdeWait until the drive is not busy, the command, for a write
\* the data, and ThreadSleep.
Send ==
    /\ Running /\ ide.pc = "send"
    /\ IdeWait
    /\ drive' = ide.cmd
    /\ ide' = [pc |-> "test", node |-> NULL, cmd |-> NULL]
    /\ UNCHANGED <<mem, blk, used, io, irq, asked, pending, hung>>

\* The drive ends a command, and interrupts.
Complete ==
    /\ drive # NULL
    /\ drive' = NULL
    /\ irq' \in {"done", "error"}
    /\ UNCHANGED <<mem, blk, used, io, ide, asked, pending, hung>>

\* A block without a sector left is taken from the queue and released.  With
\* no block in the queue, the fields read lie just below address 0, in a page
\* that PfHandler cannot supply.
IdeHandler ==
    LET b == QueueGetHead(mem, HEAD)
        last == blk[b].left = 1
    IN  /\ irq # "none" /\ ~ hung
        /\ irq' = "none"
        /\ IF irq = "error"
             THEN UNCHANGED <<mem, blk, used, pending, hung>>
           ELSE IF b = NULL
             THEN hung' = TRUE /\ UNCHANGED <<mem, blk, used, pending>>
           ELSE /\ blk' = [blk EXCEPT ![b].left = @ - 1]
                /\ mem' = IF last THEN Dequeue(mem, HEAD) ELSE mem
                /\ used' = IF last THEN used \ {b} ELSE used
                /\ pending' = IF last THEN pending \ {blk[b].req} ELSE pending
                /\ UNCHANGED hung
        /\ UNCHANGED <<io, ide, drive, asked>>

Client(t) ==
    \/ \E r \in Requests, op \in BOOLEAN : NewBlock(t, r, op)
    \/ EnqueueTail(t) \/ AddNext(t) \/ AddLink(t) \/ AddClose(t) \/ EnqueueSet(t)

Next ==
    \/ \E t \in Clients : Client(t)
    \/ RunTest \/ RunGet \/ RunRead \/ Send
    \/ Complete \/ IdeHandler

Spec == Init /\ [][Next]_vars

-----------------------------------------------------------------------------
\* "Now we use a Queue to store all requests" (ide.c:9): a request whose
\* IdeRead or IdeWrite has returned is in block_queue until it is served.
QueueStoresAll ==
    (\A t \in Clients : io[t].pc = "idle") =>
      pending \subseteq {blk[b].req : b \in Members(NodesOf(mem.next, HEAD)) \ {NULL}}

=============================================================================
