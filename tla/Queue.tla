------------------------------- MODULE Queue --------------------------------
(***************************************************************************)
(* One queue of lib/queue.h and a caller that uses it as the header asks:  *)
(* only through its functions, with a node that is not in the queue.       *)
(*                                                                         *)
(* `fifo' is an auxiliary variable: the nodes entered and not yet removed. *)
(* It records what the caller did and decides nothing but the caller's     *)
(* choice of a free node; every answer comes from the memory `queue'.      *)
(***************************************************************************)
EXTENDS Lists

CONSTANTS
  Nodes,   \* the ListNodes a caller owns
  HEAD     \* the list head allocated by queue()

ASSUME QueueAssumption ==
    /\ HEAD \notin Nodes
    /\ NULL \notin Nodes \cup {HEAD}

VARIABLES
  queue,   \* the memory of the list and the 'tail' of the Queue struct
  ret,     \* the value returned by the last Dequeue or QueueGetHead
  fifo     \* auxiliary

queue_vars == <<queue, ret, fifo>>

QueueInit ==
    /\ queue = EmptyQueue([n \in Nodes \cup {HEAD} |-> NULL], HEAD)
    /\ ret = NULL
    /\ fifo = <<>>

DoEnqueue(n) ==
    /\ n \notin Members(fifo)
    /\ queue' = Enqueue(queue, n)
    /\ fifo' = Append(fifo, n)
    /\ UNCHANGED ret

DoDequeue ==
    /\ queue' = Dequeue(queue, HEAD)
    /\ ret' = QueueGetHead(queue, HEAD)
    /\ fifo' = IF fifo = <<>> THEN fifo ELSE Tail(fifo)

DoGetHead ==
    /\ ret' = QueueGetHead(queue, HEAD)
    /\ UNCHANGED <<queue, fifo>>

QueueNext == (\E n \in Nodes : DoEnqueue(n)) \/ DoDequeue \/ DoGetHead

QueueSpec == QueueInit /\ [][QueueNext]_queue_vars

-----------------------------------------------------------------------------
\* The links and the tail always spell the nodes in the queue, in order:
\* 'head' points to the head in the circular list and 'tail' to the node
\* before 'head' (queue.h, the comment on Queue), after any sequence of calls.
QueueInv == IsQueue(queue, HEAD, fifo)

AbstractFifo == INSTANCE Fifo WITH q <- fifo

\* Dequeue and QueueGetHead answer as a first-in first-out queue does:
\* no node is lost, repeated or overtaken, and NULL means the queue is empty.
ImplementsFifo == AbstractFifo!Spec

=============================================================================
