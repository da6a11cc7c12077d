--------------------------- MODULE LibraryProofs ----------------------------
(***************************************************************************)
(* The queue and the parts of the kernel that rest on it or on nothing,    *)
(* for every value of their constants.  lib/queue.h implements a first-in  *)
(* first-out queue: the links always spell the queue's contents            *)
(* (QueueInv), and therefore every answer is the one Fifo gives.  In the   *)
(* scheduler no thread is lost, duplicated or put on another thread's      *)
(* stack, and preemption is round robin.  driver/console.c puts what it is *)
(* given on the screen, and an int as a text that reads as that int.  The  *)
(* page allocator, over the bitmap of lib/bitmap.h, gives no page to two   *)
(* users.                                                                  *)
(***************************************************************************)
EXTENDS Queue, Scheduler, Console, PageAllocator, WellFoundedInduction, TLAPS

-----------------------------------------------------------------------------
(* Sequences.                                                              *)

\* The empty sequence is the one of length 0.
LEMMA EmptySequence ==
  ASSUME NEW A, NEW s \in Seq(A)
  PROVE  s = <<>> <=> Len(s) = 0
OBVIOUS

\* Sequences of the same length and the same members are equal.
LEMMA SameSequence ==
  ASSUME NEW A, NEW s \in Seq(A), NEW t \in Seq(A), Len(s) = Len(t),
         \A i \in 1 .. Len(s) : s[i] = t[i]
  PROVE  s = t
OBVIOUS

\* A sequence over S is one over any larger set.
LEMMA WiderSequence ==
  ASSUME NEW S, NEW T, S \subseteq T, NEW s \in Seq(S)
  PROVE  s \in Seq(T)
OBVIOUS

-----------------------------------------------------------------------------
(* Enqueue and Dequeue.                                                    *)

\* Enqueue appends the node at the end of the list (queue.h:65-68).
LEMMA EnqueueAppends ==
  ASSUME NEW A, NEW head \in A, NEW q, QueueType(q, A),
         NEW s \in Seq(A), IsQueue(q, head, s),
         NEW n \in A \ {head}, n \notin Members(s)
  PROVE  /\ QueueType(Enqueue(q, n), A)
         /\ IsQueue(Enqueue(q, n), head, Append(s, n))
<1> DEFINE t == Append(s, n)
           r == Enqueue(q, n)
<1>1. /\ t \in Seq(A) /\ Len(t) = Len(s) + 1 /\ t[Len(t)] = n
      /\ \A i \in 1 .. Len(s) : t[i] = s[i]
      /\ t # <<>>
  OBVIOUS
<1>2. \A i \in 1 .. Len(s) : s[i] \in A /\ s[i] # head /\ s[i] # n
  BY DEF IsQueue, Members
<1>3. q.tail \in A /\ q.tail # n /\ q.next \in [A -> A \cup {NULL}]
  BY <1>2 DEF QueueType, IsQueue
<1>4. /\ r.tail = n
      /\ r.next = [q.next EXCEPT ![q.tail] = n, ![n] = q.next[q.tail]]
      /\ r = [next |-> r.next, tail |-> r.tail]
  BY <1>3, Zenon DEF Enqueue, ListAdd, QueueType
<1>5. /\ r.next \in [A -> A \cup {NULL}]
      /\ r.next[q.tail] = n
      /\ r.next[n] = q.next[q.tail]
      /\ \A a \in A \ {q.tail, n} : r.next[a] = q.next[a]
  BY <1>3, <1>4, Zenon
<1>6. QueueType(r, A)
  BY <1>4, <1>5, Zenon DEF QueueType
<1>7. Distinct(t) /\ head \notin Members(t)
  <2>1. \A i \in 1 .. Len(t) : (i \in 1 .. Len(s) /\ t[i] = s[i]) \/ (i = Len(t) /\ t[i] = n)
    BY <1>1
  <2>2. Distinct(s)
    BY Zenon DEF IsQueue
  <2>3. Distinct(t)
    BY <1>2, <2>1, <2>2, Zenon DEF Distinct
  <2>4. head \notin Members(t)
    BY <1>2, <2>1, Zenon DEF Members
  <2> QED  BY <2>3, <2>4, Zenon
<1>8. q.next[q.tail] = head
  BY Zenon DEF IsQueue
<1>9. CASE s = <<>>
  BY <1>1, <1>4, <1>5, <1>6, <1>7, <1>8, <1>9 DEF IsQueue
<1>10. CASE s # <<>>
  <2>1. Len(s) \in Nat /\ Len(s) >= 1 /\ q.tail = s[Len(s)]
    BY <1>10 DEF IsQueue
  <2>2. \A i \in 1 .. Len(s) - 1 : s[i] # q.tail
    BY <2>1 DEF IsQueue, Distinct
  <2>3. \A i \in 1 .. Len(t) - 1 : r.next[t[i]] = t[i + 1]
    <3> TAKE i \in 1 .. Len(t) - 1
    <3>1. CASE i = Len(s)
      BY <3>1, <1>1, <1>5, <2>1
    <3>2. CASE i # Len(s)
      <4>1. i \in 1 .. Len(s) - 1 /\ i + 1 \in 1 .. Len(s) /\ i \in 1 .. Len(s)
        BY <3>2, <1>1, <2>1
      <4>2. s[i] \in A \ {q.tail, n}
        BY <4>1, <1>2, <2>2, Zenon
      <4>3. q.next[s[i]] = s[i + 1]
        BY <4>1, Zenon DEF IsQueue
      <4> QED  BY <4>1, <4>2, <4>3, <1>1, <1>5, Zenon
    <3> QED  BY <3>1, <3>2, Zenon
  <2>4. r.next[head] = t[1]
    <3>1. head \in A \ {q.tail, n}
      BY <2>1, <1>2
    <3>2. q.next[head] = s[1]
      BY <1>10, Zenon DEF IsQueue
    <3> QED  BY <3>1, <3>2, <2>1, <1>1, <1>5
  <2> QED  BY <1>1, <1>4, <1>5, <1>6, <1>7, <1>8, <2>3, <2>4, Zenon DEF IsQueue
<1> QED  BY <1>9, <1>10, Zenon

\* Dequeue of a non-empty queue returns and unlinks the oldest node, and
\* moves the tail back to the head with the last one (queue.h:70-80).
LEMMA DequeueRemovesOldest ==
  ASSUME NEW A, NEW head \in A, NEW q, QueueType(q, A),
         NEW s \in Seq(A), IsQueue(q, head, s),
         s # <<>>
  PROVE  /\ QueueType(Dequeue(q, head), A)
         /\ IsQueue(Dequeue(q, head), head, Tail(s))
         /\ QueueGetHead(q, head) = s[1]
<1> DEFINE t == Tail(s)
           r == Dequeue(q, head)
<1>1. /\ Len(s) \in Nat /\ Len(s) >= 1
      /\ t \in Seq(A) /\ Len(t) = Len(s) - 1
      /\ \A i \in 1 .. Len(t) : t[i] = s[i + 1]
      /\ t = <<>> <=> Len(s) = 1
  <2>1. Len(s) \in Nat /\ Len(s) >= 1
    OBVIOUS
  <2>2. t \in Seq(A) /\ Len(t) = Len(s) - 1
    OBVIOUS
  <2>3. \A i \in 1 .. Len(t) : t[i] = s[i + 1]
    BY <2>2
  <2>4. t = <<>> <=> Len(t) = 0
    BY <2>2, EmptySequence, Zenon
  <2> QED  BY <2>1, <2>2, <2>3, <2>4
<1>2. \A i \in 1 .. Len(s) : s[i] \in A /\ s[i] # head
  BY DEF IsQueue, Members
<1>3. /\ q.next[head] = s[1] /\ s[1] # head /\ s[1] \in A /\ head \in A
      /\ q.tail = s[Len(s)] /\ q.next \in [A -> A \cup {NULL}]
  BY <1>1, <1>2 DEF IsQueue, QueueType
<1>4. ~ IsListEmpty(q.next, head) /\ QueueGetHead(q, head) = s[1]
  BY <1>3, Zenon DEF IsListEmpty, QueueGetHead
<1>5. /\ r.tail = IF s[1] = s[Len(s)] THEN head ELSE s[Len(s)]
      /\ r.next = [q.next EXCEPT ![head] = q.next[s[1]], ![s[1]] = NULL]
      /\ r = [next |-> r.next, tail |-> r.tail]
  BY <1>3, <1>4, Zenon DEF Dequeue, ListRemove, QueueType
<1>6. q.next[s[1]] = (IF Len(s) = 1 THEN head ELSE s[2])
  BY <1>1 DEF IsQueue
<1>7. /\ r.next \in [A -> A \cup {NULL}]
      /\ r.next[head] = (IF Len(s) = 1 THEN head ELSE s[2])
      /\ \A a \in A \ {head, s[1]} : r.next[a] = q.next[a]
  <2>1. (IF Len(s) = 1 THEN head ELSE s[2]) \in A
    BY <1>1, <1>2, <1>3
  <2> QED  BY <2>1, <1>3, <1>5, <1>6, Zenon
<1>8. QueueType(r, A)
  BY <1>1, <1>2, <1>3, <1>5, <1>7, Zenon DEF QueueType
<1>9. Distinct(t) /\ head \notin Members(t)
  <2>1. \A i \in 1 .. Len(t) : i + 1 \in 1 .. Len(s) /\ t[i] = s[i + 1]
    BY <1>1
  <2>2. head \notin Members(t)
    BY <2>1, <1>2, Zenon DEF Members
  <2>3. Distinct(t)
    BY <2>1, <1>1 DEF IsQueue, Distinct
  <2> QED  BY <2>2, <2>3, Zenon
<1>10. CASE Len(s) = 1
  BY <1>1, <1>4, <1>5, <1>7, <1>8, <1>9, <1>10 DEF IsQueue
<1>11. CASE Len(s) # 1
  <2>1. Len(s) >= 2 /\ t # <<>> /\ Len(t) >= 1
    BY <1>1, <1>11
  <2>2. \A i \in 2 .. Len(s) : s[i] \in A \ {head, s[1]}
    BY <1>1, <1>2 DEF IsQueue, Distinct
  <2>3. r.next[head] = t[1]
    BY <1>1, <1>7, <1>11, <2>1
  <2>4. \A i \in 1 .. Len(t) - 1 : r.next[t[i]] = t[i + 1]
    <3> TAKE i \in 1 .. Len(t) - 1
    <3>1. i + 1 \in 1 .. Len(s) - 1 /\ i + 1 \in 2 .. Len(s)
          /\ i \in 1 .. Len(t) /\ i + 1 \in 1 .. Len(t)
      BY <1>1
    <3>2. q.next[s[i + 1]] = s[(i + 1) + 1]
      BY <3>1, Zenon DEF IsQueue
    <3>3. r.next[s[i + 1]] = q.next[s[i + 1]]
      BY <3>1, <2>2, <1>7, Zenon
    <3> QED  BY <3>1, <3>2, <3>3, <1>1, Zenon
  <2>5. t[Len(t)] = s[Len(s)] /\ s[1] # s[Len(s)]
    BY <1>1, <2>1, <2>2
  <2>6. r.next[t[Len(t)]] = head
    <3>1. q.next[s[Len(s)]] = head
      BY Zenon DEF IsQueue
    <3> QED  BY <3>1, <2>1, <2>2, <2>5, <1>1, <1>7
  <2> QED  BY <1>4, <1>5, <1>8, <1>9, <2>1, <2>3, <2>4, <2>5, <2>6, Zenon DEF IsQueue
<1> QED  BY <1>10, <1>11, Zenon

\* Dequeue of an empty queue changes nothing and returns NULL (queue.h:72-74).
LEMMA DequeueOfEmpty ==
  ASSUME NEW head, NEW q, IsQueue(q, head, <<>>)
  PROVE  Dequeue(q, head) = q /\ QueueGetHead(q, head) = NULL
BY Zenon DEF IsQueue, IsListEmpty, Dequeue, QueueGetHead

\* A queue depends only on the links of its own nodes and of its head: other
\* lists may be threaded through the rest of the memory.
LEMMA QueueFrame ==
  ASSUME NEW A, NEW head \in A, NEW q, NEW s \in Seq(A), IsQueue(q, head, s),
         NEW r, r.tail = q.tail,
         \A a \in Members(s) \cup {head} : r.next[a] = q.next[a]
  PROVE  IsQueue(r, head, s)
<1>1. Len(s) \in Nat /\ \A i \in 1 .. Len(s) : s[i] \in Members(s)
  BY DEF Members
<1>2. \A i \in 1 .. Len(s) - 1 : r.next[s[i]] = s[i + 1]
  BY <1>1 DEF IsQueue
<1>3. s # <<>> => r.next[s[Len(s)]] = head
  <2> SUFFICES ASSUME s # <<>> PROVE r.next[s[Len(s)]] = head
    OBVIOUS
  <2>1. Len(s) \in 1 .. Len(s)
    OBVIOUS
  <2> QED  BY <1>1, <2>1, Zenon DEF IsQueue
<1> QED  BY <1>2, <1>3, Zenon DEF IsQueue

\* Enqueue writes the links of the last node, or of the head, and of the new
\* node only.
LEMMA EnqueueFrame ==
  ASSUME NEW A, NEW q, QueueType(q, A), NEW n \in A,
         NEW a \in A, a # q.tail, a # n
  PROVE  Enqueue(q, n).next[a] = q.next[a]
BY Zenon DEF QueueType, Enqueue, ListAdd

\* The tail of a queue is its head or one of its nodes.
LEMMA TailInQueue ==
  ASSUME NEW A, NEW head, NEW q, NEW s \in Seq(A), IsQueue(q, head, s)
  PROVE  q.tail \in Members(s) \cup {head}
<1>1. CASE s = <<>>
  BY <1>1, Zenon DEF IsQueue
<1>2. CASE s # <<>>
  <2>1. Len(s) \in 1 .. Len(s)
    BY <1>2
  <2> QED  BY <1>2, <2>1, Zenon DEF IsQueue, Members
<1> QED  BY <1>1, <1>2, Zenon

\* Dequeue writes the links of the head and of the node it removes only.
LEMMA DequeueFrame ==
  ASSUME NEW A, NEW head \in A, NEW q, QueueType(q, A),
         NEW a \in A, a # head, a # q.next[head]
  PROVE  Dequeue(q, head).next[a] = q.next[a]
BY Zenon DEF QueueType, Dequeue, ListRemove

\* What appending and removing do to the set of a queue's nodes.
LEMMA MembersOfAppend ==
  ASSUME NEW A, NEW s \in Seq(A), NEW n \in A
  PROVE  Members(Append(s, n)) = Members(s) \cup {n}
<1> DEFINE t == Append(s, n)
<1>1. /\ Len(s) \in Nat /\ Len(t) = Len(s) + 1 /\ t[Len(s) + 1] = n
      /\ \A i \in 1 .. Len(s) : t[i] = s[i]
  OBVIOUS
<1>2. Members(t) \subseteq Members(s) \cup {n}
  <2> SUFFICES ASSUME NEW i \in 1 .. Len(t) PROVE t[i] \in Members(s) \cup {n}
    BY Zenon DEF Members
  <2>1. i \in 1 .. Len(s) \/ i = Len(s) + 1
    BY <1>1
  <2> QED  BY <1>1, <2>1, Zenon DEF Members
<1>3. n \in Members(t)
  <2>1. Len(s) + 1 \in 1 .. Len(t)
    BY <1>1
  <2> QED  BY <1>1, <2>1, Zenon DEF Members
<1>4. Members(s) \subseteq Members(t)
  <2> SUFFICES ASSUME NEW i \in 1 .. Len(s) PROVE s[i] \in Members(t)
    BY Zenon DEF Members
  <2>1. i \in 1 .. Len(t) /\ t[i] = s[i]
    BY <1>1
  <2> QED  BY <2>1, Zenon DEF Members
<1> QED  BY <1>2, <1>3, <1>4, Zenon

\* Removing the first of distinct nodes takes just that one from the set.
LEMMA MembersOfTail ==
  ASSUME NEW A, NEW s \in Seq(A), s # <<>>, Distinct(s)
  PROVE  Members(Tail(s)) = Members(s) \ {s[1]} /\ s[1] \in Members(s)
<1> DEFINE t == Tail(s)
<1>1. /\ Len(s) \in Nat /\ Len(s) >= 1 /\ Len(t) = Len(s) - 1
      /\ \A i \in 1 .. Len(t) : t[i] = s[i + 1]
  OBVIOUS
<1>2. s[1] \in Members(s)
  <2>1. 1 \in 1 .. Len(s)
    BY <1>1
  <2> QED  BY <2>1, Zenon DEF Members
<1>3. Members(t) \subseteq Members(s) \ {s[1]}
  <2> SUFFICES ASSUME NEW i \in 1 .. Len(t)
               PROVE  t[i] \in Members(s) \ {s[1]}
    BY Zenon DEF Members
  <2>1. i + 1 \in 1 .. Len(s) /\ 1 \in 1 .. Len(s) /\ i + 1 # 1
    BY <1>1
  <2>2. s[i + 1] # s[1]
    BY <2>1, Zenon DEF Distinct
  <2> QED  BY <1>1, <2>1, <2>2, Zenon DEF Members
<1>4. Members(s) \ {s[1]} \subseteq Members(t)
  <2> SUFFICES ASSUME NEW i \in 1 .. Len(s), s[i] # s[1]
               PROVE  s[i] \in Members(t)
    BY Zenon DEF Members
  <2>1. i - 1 \in 1 .. Len(t) /\ t[i - 1] = s[(i - 1) + 1] /\ (i - 1) + 1 = i
    BY <1>1
  <2> QED  BY <2>1, Zenon DEF Members
<1> QED  BY <1>2, <1>3, <1>4, Zenon

-----------------------------------------------------------------------------
(* The queue.                                                              *)

QueueAddr == Nodes \cup {HEAD}

QueueTyped ==
    /\ QueueType(queue, QueueAddr)
    /\ fifo \in Seq(Nodes)
    /\ QueueInv

\* queue() makes an empty queue.
LEMMA QueueInitTyped == QueueInit => QueueTyped
<1> SUFFICES ASSUME QueueInit PROVE QueueTyped
  OBVIOUS
<1>1. /\ queue.next = [[n \in QueueAddr |-> NULL] EXCEPT ![HEAD] = HEAD]
      /\ queue.tail = HEAD
      /\ queue = [next |-> queue.next, tail |-> queue.tail]
  BY Zenon DEF QueueInit, EmptyQueue, QueueAddr
<1>2. QueueType(queue, QueueAddr) /\ queue.next[HEAD] = HEAD
  BY <1>1, Zenon DEF QueueType, QueueAddr
<1>3. IsQueue(queue, HEAD, <<>>)
  BY <1>1, <1>2 DEF IsQueue, Distinct, Members
<1> QED  BY <1>2, <1>3 DEF QueueTyped, QueueInv, QueueInit

\* Enqueue, Dequeue and QueueGetHead keep the queue well formed.
LEMMA QueueNextTyped == QueueTyped /\ [QueueNext]_queue_vars => QueueTyped'
<1> SUFFICES ASSUME QueueTyped, [QueueNext]_queue_vars PROVE QueueTyped'
  OBVIOUS
<1> USE DEF QueueTyped, QueueInv
<1>0. /\ HEAD \in QueueAddr /\ fifo \in Seq(QueueAddr)
      /\ \A n \in Nodes : n \in QueueAddr \ {HEAD}
  BY QueueAssumption DEF QueueAddr
<1>1. ASSUME NEW n \in Nodes, DoEnqueue(n) PROVE QueueTyped'
  BY <1>0, <1>1, EnqueueAppends DEF DoEnqueue
<1>2. CASE DoDequeue
  <2>1. CASE fifo = <<>>
    BY <1>2, <2>1, DequeueOfEmpty, Zenon DEF DoDequeue
  <2>2. CASE fifo # <<>>
    BY <1>0, <1>2, <2>2, DequeueRemovesOldest DEF DoDequeue
  <2> QED  BY <2>1, <2>2, Zenon
<1>3. CASE DoGetHead
  BY <1>3, Zenon DEF DoGetHead
<1>4. CASE UNCHANGED queue_vars
  BY <1>4, Zenon DEF queue_vars
<1> QED  BY <1>1, <1>2, <1>3, <1>4, Zenon DEF QueueNext

\* After any sequence of Enqueue, Dequeue and QueueGetHead calls the memory
\* holds exactly the nodes entered and not removed, in order.
THEOREM QueueCorrect == QueueSpec => []QueueInv
<1>1. QueueInit => QueueTyped
  BY QueueInitTyped, Zenon
<1>2. QueueTyped /\ [QueueNext]_queue_vars => QueueTyped'
  BY QueueNextTyped, Zenon
<1>3. QueueTyped => QueueInv
  BY Zenon DEF QueueTyped
<1> QED  BY <1>1, <1>2, <1>3, PTL DEF QueueSpec

\* Every step of the pointer-level queue is a step of the abstract FIFO.
LEMMA QueueStepRefines == QueueTyped /\ [QueueNext]_queue_vars => [AbstractFifo!Next]_(AbstractFifo!vars)
<1> SUFFICES ASSUME QueueTyped, [QueueNext]_queue_vars
             PROVE  [AbstractFifo!Next]_(AbstractFifo!vars)
  OBVIOUS
<1> USE DEF QueueTyped, QueueInv
<1>0. QueueGetHead(queue, HEAD) = IF fifo = <<>> THEN NULL ELSE fifo[1]
  <2>1. HEAD \in QueueAddr /\ fifo \in Seq(QueueAddr)
    BY DEF QueueAddr
  <2> QED  BY <2>1, DequeueOfEmpty, DequeueRemovesOldest, Zenon
<1>1. ASSUME NEW n \in Nodes, DoEnqueue(n) PROVE AbstractFifo!Next
  BY <1>1, Zenon DEF DoEnqueue, Members, AbstractFifo!Next, AbstractFifo!Put
<1>2. CASE DoDequeue
  BY <1>0, <1>2, Zenon DEF DoDequeue, AbstractFifo!Next, AbstractFifo!Get, AbstractFifo!Nothing
<1>3. CASE DoGetHead
  BY <1>0, <1>3, Zenon DEF DoGetHead, AbstractFifo!Next, AbstractFifo!Peek, AbstractFifo!Nothing
<1>4. CASE UNCHANGED queue_vars
  BY <1>4, Zenon DEF queue_vars, AbstractFifo!vars
<1> QED  BY <1>1, <1>2, <1>3, <1>4, Zenon DEF QueueNext

\* The linked-list queue of queue.h implements the first-in first-out queue.
THEOREM QueueRefinesFifo == QueueSpec => ImplementsFifo
<1>1. QueueInit => AbstractFifo!Init
  BY Zenon DEF QueueInit, AbstractFifo!Init
<1>2. QueueInit => QueueTyped
  BY QueueInitTyped, Zenon
<1>3. QueueTyped /\ [QueueNext]_queue_vars => QueueTyped'
  BY QueueNextTyped, Zenon
<1>4. QueueTyped /\ [QueueNext]_queue_vars => [AbstractFifo!Next]_(AbstractFifo!vars)
  BY QueueStepRefines, Zenon
<1> QED  BY <1>1, <1>2, <1>3, <1>4, PTL DEF QueueSpec, ImplementsFifo, AbstractFifo!Spec

-----------------------------------------------------------------------------
(* The scheduler.  WaitQueueInv alone is not inductive.  StartThread takes *)
(* its thread from free_thread_list, so the step needs to know what that   *)
(* list holds (FreeListInv) and that those threads are not waiting already *)
(* (StartedInTidOrder); ThreadSwitch enqueues GetCurThread(), so it needs  *)
(* to know that this is the thread that runs (OwnStack).                   *)

\* The started threads are the main one and the first tids of the pool.
StartedInTidOrder == Started = 0 .. Len(line) /\ Len(line) <= N

Invariant ==
    /\ TypeOK
    /\ WaitQueueInv
    /\ FreeListInv
    /\ OwnStack
    /\ StartedInTidOrder

\* Threads and list heads are different addresses, and none is NULL.
LEMMA AddrFacts ==
  /\ FREE \in Addr /\ WAIT \in Addr /\ KLIST \in Addr
  /\ FREE \notin Threads /\ WAIT \notin Threads /\ KLIST \notin Threads
  /\ \A t \in Threads : t \in Addr /\ t \in Nat
  /\ \A t \in 0 .. N : t \in Threads
BY SchedulerAssumption DEF Addr, Heads, Threads, Pool, kMain

\* ThreadInit leaves the whole pool free and k_main running.
LEMMA InitInvariant == Init => Invariant
<1> SUFFICES ASSUME Init PROVE Invariant
  OBVIOUS
<1> USE AddrFacts, SchedulerAssumption
<1>1. /\ mem.tail = WAIT /\ mem.next = ThreadInit
      /\ mem = [next |-> mem.next, tail |-> mem.tail]
  BY Zenon DEF Init
<1>2. /\ ThreadInit[WAIT] = WAIT
      /\ ThreadInit[FREE] = IF N = 0 THEN FREE ELSE 1
      /\ \A t \in 1 .. N : ThreadInit[t] = IF t = N THEN FREE ELSE t + 1
  <2>1. /\ WAIT \notin Pool /\ FREE \notin Pool /\ WAIT # FREE
        /\ WAIT # kMain /\ FREE # kMain
    BY Zenon DEF Threads
  <2>2. ThreadInit[WAIT] = WAIT /\ ThreadInit[FREE] = IF N > 0 THEN 1 ELSE FREE
    BY <2>1, Zenon DEF ThreadInit
  <2>3. \A t \in 1 .. N : ThreadInit[t] = IF t = N THEN FREE ELSE t + 1
    BY DEF ThreadInit, Pool
  <2> QED  BY <2>2, <2>3
<1>3. QueueType(mem, Addr)
  <2>1. ASSUME NEW a \in Addr PROVE ThreadInit[a] \in Addr \cup {NULL}
    <3>1. CASE a \in Pool
      BY <3>1 DEF ThreadInit, Pool
    <3>2. CASE a \notin Pool
      <4>1. N > 0 => 1 \in Addr
        OBVIOUS
      <4> QED  BY <3>2, <4>1, Zenon DEF ThreadInit
    <3> QED  BY <3>1, <3>2, Zenon
  <2>2. ThreadInit \in [Addr -> Addr \cup {NULL}]
    BY <2>1, Zenon DEF ThreadInit
  <2> QED  BY <1>1, <2>2, Zenon DEF QueueType
<1>4. Members(<<>>) = {} /\ Len(<<>>) = 0 /\ <<>> \in Seq(Threads)
  BY DEF Members
<1>5. TypeOK
  <2>1. kMain \in Threads /\ esp \in [Threads -> Threads]
    BY Zenon DEF Init, Threads
  <2>2. timer \in 1 .. kTimerReset /\ line \in Seq(Threads)
    <3>1. timer = kTimerReset /\ line = <<>>
      BY Zenon DEF Init
    <3>2. kTimerReset \in 1 .. kTimerReset
      OBVIOUS
    <3> QED  BY <3>1, <3>2, <1>4, Zenon
  <2>3. inService \in BOOLEAN /\ booted \in BOOLEAN
    BY Zenon DEF Init
  <2> QED  BY <1>3, <2>1, <2>2, <2>3, Zenon DEF Init, TypeOK
<1>6. WaitQueueInv
  <2>1. line = <<>> /\ Distinct(<<>>)
    BY <1>4 DEF Init, Distinct
  <2> QED  BY <1>1, <1>2, <1>4, <2>1 DEF WaitQueueInv, IsQueue
<1>7. FreeListInv
  <2>1. line = <<>> /\ Len(line) + 1 = 1 /\ N \in Nat
    BY <1>4 DEF Init
  <2> QED  BY <1>1, <1>2, <2>1 DEF FreeListInv
<1>8. OwnStack
  BY Zenon DEF Init, OwnStack
<1>9. StartedInTidOrder
  BY <1>4 DEF Init, StartedInTidOrder, Started, kMain
<1> QED  BY <1>5, <1>6, <1>7, <1>8, <1>9, Zenon DEF Invariant

\* CreateThread and KThreadRun move the next pool thread, and no other, from
\* the free list to the end of the wait queue.
LEMMA StartThreadInvariant == Invariant /\ StartThread => Invariant'
<1> SUFFICES ASSUME Invariant, StartThread PROVE Invariant'
  OBVIOUS
<1> USE AddrFacts, SchedulerAssumption
<1> DEFINE t == Len(line) + 1
           created == ListAdd(ListRemove(mem.next, FREE), KLIST, t)
           q == [mem EXCEPT !.next = created]
<1>1. /\ QueueType(mem, Addr) /\ line \in Seq(Threads) /\ line \in Seq(Addr)
      /\ IsQueue(mem, WAIT, line) /\ Len(line) \in Nat /\ N \in Nat
      /\ mem = [next |-> mem.next, tail |-> mem.tail]
      /\ mem.next \in [Addr -> Addr \cup {NULL}] /\ mem.tail \in Addr
  BY DEF Invariant, TypeOK, WaitQueueInv, QueueType
<1>2. t <= N /\ t \in Nat /\ t \in Threads /\ mem.next[FREE] = t
      /\ mem.next[t] = IF t = N THEN FREE ELSE t + 1
  BY <1>1 DEF StartThread, IsListEmpty, Invariant, FreeListInv
<1>3. t \notin Members(line) /\ Members(line) \subseteq 0 .. Len(line)
  BY <1>1 DEF Invariant, StartedInTidOrder, Started
<1>4. /\ q.tail = mem.tail /\ q.next = created
      /\ q = [next |-> created, tail |-> mem.tail]
  BY <1>1
<1>5. /\ created \in [Addr -> Addr \cup {NULL}]
      /\ created[FREE] = IF t = N THEN FREE ELSE t + 1
      /\ \A a \in Addr \ {FREE, KLIST, t} : created[a] = mem.next[a]
  <2> DEFINE r == ListRemove(mem.next, FREE)
  <2>1. r = [mem.next EXCEPT ![FREE] = mem.next[t], ![t] = NULL]
    BY <1>2, Zenon DEF ListRemove
  <2>2. mem.next[t] \in Addr /\ t \in Addr /\ t # FREE /\ t # KLIST
        /\ FREE # KLIST
    BY <1>1, <1>2
  <2>3. /\ r \in [Addr -> Addr \cup {NULL}] /\ r[FREE] = mem.next[t]
        /\ \A a \in Addr \ {FREE, t} : r[a] = mem.next[a]
    BY <1>1, <2>1, <2>2
  <2>4. created = [r EXCEPT ![KLIST] = t, ![t] = r[KLIST]]
    BY Zenon DEF ListAdd
  <2> HIDE DEF r, created
  <2>5. created \in [Addr -> Addr \cup {NULL}]
    BY <2>2, <2>3, <2>4, Zenon
  <2>6. \A a \in Addr \ {KLIST, t} : created[a] = r[a]
    BY <2>2, <2>3, <2>4, Zenon
  <2> QED  BY <1>2, <2>2, <2>3, <2>5, <2>6, Zenon
<1>6. QueueType(q, Addr)
  BY <1>1, <1>4, <1>5, Zenon DEF QueueType
<1>7. IsQueue(q, WAIT, line)
  <2>1. \A a \in Members(line) \cup {WAIT} : a \in Addr \ {FREE, KLIST, t}
    <3>1. Members(line) \subseteq Threads
      BY <1>1 DEF Members
    <3>2. \A a \in Members(line) : a \in Addr \ {FREE, KLIST, t}
      BY <3>1, <1>3
    <3>3. WAIT \in Addr \ {FREE, KLIST, t}
      BY <1>2, Zenon
    <3> QED  BY <3>2, <3>3, Zenon
  <2> QED  BY <2>1, <1>1, <1>4, <1>5, QueueFrame
<1>8. mem' = Enqueue(q, t) /\ line' = Append(line, t) /\ line' \in Seq(Threads)
      /\ Len(line') = t
  BY <1>1, <1>2 DEF StartThread, CreateThread
<1>9. QueueType(mem', Addr) /\ IsQueue(mem', WAIT, line')
  <2>1. t \in Addr \ {WAIT}
    BY <1>2, Zenon
  <2> QED  BY <2>1, <1>1, <1>3, <1>6, <1>7, <1>8, EnqueueAppends
<1>10. Members(line') = Members(line) \cup {t}
  BY <1>1, <1>2, <1>8, MembersOfAppend
<1>11. UNCHANGED <<tss, cpu, timer, inService, booted>> /\ esp' = [esp EXCEPT ![t] = t]
  BY <1>2, Zenon DEF StartThread
<1>12. TypeOK'
  BY <1>2, <1>8, <1>9, <1>11, Zenon DEF Invariant, TypeOK
<1>13. WaitQueueInv'
  <2>1. cpu # t
    BY <1>1 DEF Invariant, StartedInTidOrder, Started
  <2> QED  BY <2>1, <1>9, <1>10, <1>11, Zenon DEF Invariant, WaitQueueInv
<1>14. FreeListInv'
  <2>1. ASSUME NEW a \in Addr, a = FREE \/ a \in (t + 1) .. N
        PROVE  mem'.next[a] = created[a]
    <3>1. q.tail \in Members(line) \cup {WAIT}
      BY <1>1, <1>7, TailInQueue, Zenon
    <3>2. a # q.tail /\ a # t
      BY <2>1, <3>1, <1>1, <1>2, <1>3
    <3> QED  BY <3>2, <1>2, <1>4, <1>6, <1>8, EnqueueFrame
  <2>2. \A a \in (t + 1) .. N : /\ a \in Addr \ {FREE, KLIST, t}
                                /\ mem.next[a] = IF a = N THEN FREE ELSE a + 1
    <3> TAKE a \in (t + 1) .. N
    <3>1. a \in t .. N /\ a \in Threads /\ a # t
      BY <1>1, <1>2
    <3> QED  BY <3>1, <1>1 DEF Invariant, FreeListInv
  <2>3. \A a \in (t + 1) .. N : mem'.next[a] = IF a = N THEN FREE ELSE a + 1
    BY <2>1, <2>2, <1>5, Zenon
  <2>4. mem'.next[FREE] = IF t + 1 > N THEN FREE ELSE t + 1
    BY <2>1, <1>1, <1>2, <1>5
  <2> QED  BY <2>3, <2>4, <1>8, Zenon DEF FreeListInv
<1>15. OwnStack'
  BY <1>2, <1>11, Zenon DEF Invariant, OwnStack, TypeOK
<1>16. StartedInTidOrder'
  <2>1. Started' = Started \cup {t}
    BY <1>10, <1>11, Zenon DEF Started
  <2> QED  BY <2>1, <1>1, <1>2, <1>8 DEF Invariant, StartedInTidOrder
<1> QED  BY <1>12, <1>13, <1>14, <1>15, <1>16, Zenon DEF Invariant

\* ThreadSwitch puts the running thread at the end of the line and runs the
\* first of the line on its own stack, or does nothing when nobody waits.
LEMMA ThreadSwitchEffect ==
  ASSUME Invariant, ThreadSwitch
  PROVE  /\ line = <<>> => UNCHANGED <<mem, tss, cpu, esp, line>>
         /\ line # <<>> => /\ cpu' = line[1] /\ tss' = line[1]
                           /\ line' = Append(Tail(line), cpu)
                           /\ esp' = esp
                           /\ mem' = Enqueue(Dequeue(mem, WAIT), cpu)
<1> USE AddrFacts
<1>1. /\ QueueType(mem, Addr) /\ IsQueue(mem, WAIT, line)
      /\ line \in Seq(Threads) /\ line \in Seq(Addr)
      /\ cpu = tss /\ cpu \in Threads /\ esp \in [Threads -> Threads]
      /\ \A t \in Threads : esp[t] = t
  BY DEF Invariant, TypeOK, WaitQueueInv, OwnStack
<1>2. CASE line = <<>>
  <2>1. QueueGetHead(mem, WAIT) = NULL
    BY <1>1, <1>2, DequeueOfEmpty, Zenon
  <2> QED  BY <1>2, <2>1, Zenon DEF ThreadSwitch
<1>3. CASE line # <<>>
  <2>1. QueueGetHead(mem, WAIT) = line[1]
    BY <1>1, <1>3, DequeueRemovesOldest
  <2>2. line[1] \in Threads /\ line[1] # NULL
    BY <1>1, <1>3, SchedulerAssumption DEF Threads, Pool, kMain
  <2>3. [esp EXCEPT ![tss] = cpu] = esp
    BY <1>1, Zenon
  <2> QED  BY <1>1, <1>3, <2>1, <2>2, <2>3, Zenon DEF ThreadSwitch, SwitchReg
<1> QED  BY <1>2, <1>3, Zenon

\* ThreadSwitch keeps the invariant, whether somebody waits or not.
LEMMA ThreadSwitchInvariant ==
  ASSUME Invariant, ThreadSwitch, timer' \in 1 .. kTimerReset,
         inService' \in BOOLEAN, booted' \in BOOLEAN
  PROVE  Invariant'
<1> USE AddrFacts, SchedulerAssumption
<1>1. /\ QueueType(mem, Addr) /\ IsQueue(mem, WAIT, line) /\ Distinct(line)
      /\ line \in Seq(Threads) /\ line \in Seq(Addr) /\ Len(line) \in Nat
      /\ cpu = tss /\ cpu \in Threads /\ esp \in [Threads -> Threads]
      /\ cpu \notin Members(line)
      /\ Started = 0 .. Len(line) /\ Len(line) <= N
  BY DEF Invariant, TypeOK, WaitQueueInv, OwnStack, IsQueue, StartedInTidOrder
<1>2. CASE line = <<>>
  <2>1. UNCHANGED <<mem, tss, cpu, esp, line>>
    BY <1>2, ThreadSwitchEffect, Zenon
  <2> QED  BY <2>1, Zenon DEF Invariant, TypeOK, WaitQueueInv, FreeListInv, OwnStack,
                       StartedInTidOrder, Started
<1>3. CASE line # <<>>
  <2> DEFINE q == Dequeue(mem, WAIT)
  <2>1. /\ cpu' = line[1] /\ tss' = line[1] /\ esp' = esp
        /\ line' = Append(Tail(line), cpu)
        /\ mem' = Enqueue(q, cpu)
    BY <1>3, ThreadSwitchEffect, Zenon
  <2>2. /\ QueueType(q, Addr) /\ IsQueue(q, WAIT, Tail(line))
        /\ QueueGetHead(mem, WAIT) = line[1]
    BY <1>1, <1>3, DequeueRemovesOldest, Zenon
  <2>3. /\ Tail(line) \in Seq(Threads) /\ Tail(line) \in Seq(Addr)
        /\ line[1] \in Threads /\ Len(Tail(line)) = Len(line) - 1
    BY <1>1, <1>3
  <2>4. /\ Members(Tail(line)) = Members(line) \ {line[1]}
        /\ line[1] \in Members(line)
    BY <1>1, <1>3, MembersOfTail, Zenon
  <2>5. Members(line') = (Members(line) \ {line[1]}) \cup {cpu}
    <3> DEFINE rest == Tail(line)
    <3>1. rest \in Seq(Threads) /\ cpu \in Threads
      BY <1>1, <2>3, Zenon
    <3> HIDE DEF rest
    <3>2. Members(Append(rest, cpu)) = Members(rest) \cup {cpu}
      BY <3>1, MembersOfAppend
    <3> QED  BY <3>2, <2>1, <2>4, Zenon DEF rest
  <2>6. QueueType(mem', Addr) /\ IsQueue(mem', WAIT, line')
    <3>1. cpu \in Addr \ {WAIT} /\ cpu \notin Members(Tail(line))
      BY <1>1, <2>4, Zenon
    <3> QED  BY <3>1, <2>1, <2>2, <2>3, EnqueueAppends, Zenon
  <2>7. line' \in Seq(Threads) /\ Len(line') = Len(line)
    BY <1>1, <1>3, <2>1, <2>3
  <2>8. TypeOK'
    BY <1>1, <2>1, <2>3, <2>6, <2>7, Zenon DEF Invariant, TypeOK
  <2>9. WaitQueueInv'
    BY <1>1, <2>1, <2>4, <2>5, <2>6, Zenon DEF WaitQueueInv
  <2>10. OwnStack'
    BY <2>1, Zenon DEF Invariant, OwnStack
  <2>11. StartedInTidOrder'
    BY <1>1, <2>1, <2>4, <2>5, <2>7 DEF StartedInTidOrder, Started
  <2>12. FreeListInv'
    <3>1. ASSUME NEW a \in Addr, a = FREE \/ a \in (Len(line) + 1) .. N
          PROVE  mem'.next[a] = mem.next[a]
      <4>1. a # WAIT /\ a # cpu /\ a \notin Members(line) /\ a # line[1]
        BY <3>1, <1>1, <2>3, <2>4 DEF Started
      <4>2. mem.next[WAIT] = line[1]
        BY <1>1, <1>3, Zenon DEF IsQueue
      <4>3. q.next[a] = mem.next[a]
        BY <4>1, <4>2, <1>1, DequeueFrame
      <4>4. a # q.tail
        <5>1. q.tail \in Members(Tail(line)) \cup {WAIT}
          BY <2>2, <2>3, TailInQueue, Zenon
        <5> QED  BY <5>1, <4>1, <2>4
      <4> QED  BY <4>1, <4>3, <4>4, <1>1, <2>1, <2>2, EnqueueFrame
    <3>2. \A a \in (Len(line) + 1) .. N : a \in Addr
      BY <1>1
    <3> QED  BY <3>1, <3>2, <2>7, Zenon DEF Invariant, FreeListInv
  <2> QED  BY <2>8, <2>9, <2>10, <2>11, <2>12, Zenon DEF Invariant
<1> QED  BY <1>2, <1>3, Zenon

\* TimerHandler counts down and starts a new slice with each switch.
LEMMA TimerHandlerInvariant == Invariant /\ TimerHandler => Invariant'
<1> SUFFICES ASSUME Invariant, TimerHandler PROVE Invariant'
  OBVIOUS
<1>1. timer \in 1 .. kTimerReset /\ kTimerReset \in 1 .. 255
  BY SchedulerAssumption, Zenon DEF Invariant, TypeOK
<1>2. inService' \in BOOLEAN /\ booted' \in BOOLEAN
  BY Zenon DEF TimerHandler, Invariant, TypeOK
<1>3. CASE (timer - 1) % 256 = 0
  <2>1. timer' = kTimerReset /\ ThreadSwitch
    BY <1>3, Zenon DEF TimerHandler
  <2> QED  BY <2>1, <1>1, <1>2, ThreadSwitchInvariant
<1>4. CASE (timer - 1) % 256 # 0
  <2>1. timer' = (timer - 1) % 256 /\ UNCHANGED <<mem, tss, cpu, esp, line>>
    BY <1>4, Zenon DEF TimerHandler
  <2>2. timer' \in 1 .. kTimerReset
    BY <2>1, <1>1, <1>4
  <2> QED  BY <2>1, <2>2, <1>2, Zenon DEF Invariant, TypeOK, WaitQueueInv, FreeListInv,
                                  OwnStack, StartedInTidOrder, Started
<1> QED  BY <1>3, <1>4, Zenon

\* Thread creation, the end of boot and the timer keep the invariant.
LEMMA NextInvariant == Invariant /\ [Next]_vars => Invariant'
<1> SUFFICES ASSUME Invariant, [Next]_vars PROVE Invariant'
  OBVIOUS
<1>1. CASE StartThread
  BY <1>1, StartThreadInvariant, Zenon
<1>2. CASE Sti
  BY <1>2, Zenon DEF Sti, Invariant, TypeOK, WaitQueueInv, FreeListInv, OwnStack,
              StartedInTidOrder, Started
<1>3. CASE TimerHandler
  BY <1>3, TimerHandlerInvariant, Zenon
<1>4. CASE UNCHANGED vars
  BY <1>4, Zenon DEF vars, Invariant, TypeOK, WaitQueueInv, FreeListInv, OwnStack,
              StartedInTidOrder, Started
<1> QED  BY <1>1, <1>2, <1>3, <1>4, Zenon DEF Next

\* The lists, the stacks and the timer keep their invariant from boot on.
THEOREM InvariantHolds == Spec => []Invariant
<1>1. Init => Invariant
  BY InitInvariant, Zenon
<1>2. Invariant /\ [Next]_vars => Invariant'
  BY NextInvariant, Zenon
<1> QED  BY <1>1, <1>2, PTL DEF Spec

\* TypeOK: every variable keeps its type; timer, a uint8_t, never wraps.
THEOREM TypeCorrect == Spec => []TypeOK
<1>1. Invariant => TypeOK
  BY Zenon DEF Invariant
<1> QED  BY <1>1, InvariantHolds, PTL

\* Whatever the pool size, ThreadSwitch and thread creation never lose or
\* duplicate a thread: wait_thread_queue holds the started threads but one.
THEOREM NoThreadLost == Spec => []WaitQueueInv
<1>1. Invariant => WaitQueueInv
  BY Zenon DEF Invariant
<1> QED  BY <1>1, InvariantHolds, PTL

\* The threads never started stay linked in free_thread_list.
THEOREM PoolIntact == Spec => []FreeListInv
<1>1. Invariant => FreeListInv
  BY Zenon DEF Invariant
<1> QED  BY <1>1, InvariantHolds, PTL

\* Under timer preemption GetCurThread() is the thread that runs, and each
\* thread resumes on its own stack.
THEOREM StacksNotMixed == Spec => []OwnStack
<1>1. Invariant => OwnStack
  BY Zenon DEF Invariant
<1> QED  BY <1>1, InvariantHolds, PTL

\* Every step of thread.c and timer.c is a round-robin turn, a thread that
\* joins, or neither.
LEMMA StepRefines == Invariant /\ [Next]_vars => [Abstract!Next]_(Abstract!vars)
<1> SUFFICES ASSUME Invariant, [Next]_vars
             PROVE  [Abstract!Next]_(Abstract!vars)
  OBVIOUS
<1>1. CASE StartThread
  <2> DEFINE t == Len(line) + 1
  <2>1. Len(line) \in Nat /\ N \in Nat
    BY SchedulerAssumption DEF Invariant, TypeOK
  <2>2. t \in Pool /\ mem.next[FREE] = t
    BY <1>1, <2>1 DEF StartThread, IsListEmpty, Invariant, FreeListInv, Pool
  <2>3. t \notin Members(line) \cup {cpu}
    BY <2>1 DEF Invariant, StartedInTidOrder, Started
  <2>4. line' = Append(line, t) /\ cpu' = cpu
    BY <1>1, <2>2, Zenon DEF StartThread
  <2> QED  BY <2>2, <2>3, <2>4, Zenon DEF Abstract!Next, Abstract!Join, Members
<1>2. CASE Sti
  BY <1>2, Zenon DEF Sti, Abstract!vars
<1>3. CASE TimerHandler
  <2>1. CASE (timer - 1) % 256 = 0
    <3>1. ThreadSwitch
      BY <1>3, <2>1, Zenon DEF TimerHandler
    <3> QED  BY <3>1, ThreadSwitchEffect, Zenon
             DEF Abstract!Next, Abstract!TakeTurn, Abstract!vars
  <2>2. CASE (timer - 1) % 256 # 0
    BY <1>3, <2>2, Zenon DEF TimerHandler, Abstract!vars
  <2> QED  BY <2>1, <2>2, Zenon
<1>4. CASE UNCHANGED vars
  BY <1>4, Zenon DEF vars, Abstract!vars
<1> QED  BY <1>1, <1>2, <1>3, <1>4, Zenon DEF Next

\* The scheduler of thread.c, driven by timer.c, implements round robin for
\* every number of threads and every slice length.
THEOREM SchedulerIsRoundRobin == Spec => ImplementsRoundRobin
<1>1. Init => Abstract!Init
  BY Zenon DEF Init, Abstract!Init
<1>2. Invariant /\ [Next]_vars => [Abstract!Next]_(Abstract!vars)
  BY StepRefines, Zenon
<1> QED  BY <1>1, <1>2, InvariantHolds, PTL
         DEF Spec, ImplementsRoundRobin, Abstract!Spec

-----------------------------------------------------------------------------
(* Induction on the natural numbers, and what a recursive function is.     *)

\* A set of natural numbers has a least member.
LEMMA Least ==
  ASSUME NEW T, T \subseteq Nat, T # {}
  PROVE  \E x \in T : \A y \in T : x <= y
<1>1. PICK x \in T : \A y \in T : ~ (<<y, x>> \in OpToRel(<, Nat))
  BY NatLessThanWellFounded, WFMin, Zenon
<1>2. ASSUME NEW y \in T PROVE ~ (y < x)
  <2>1. <<y, x>> \in Nat \X Nat
    OBVIOUS
  <2>2. <<y, x>>[1] = y /\ <<y, x>>[2] = x
    OBVIOUS
  <2> QED  BY <1>1, <2>1, <2>2, Zenon DEF OpToRel
<1> QED  BY <1>2

\* A set that has 0, and n + 1 with n, has every natural number.
LEMMA Induction ==
  ASSUME NEW S, 0 \in S, \A n \in Nat : n \in S => n + 1 \in S
  PROVE  Nat \subseteq S
<1> DEFINE T == Nat \ S
<1> SUFFICES ASSUME T # {} PROVE FALSE
  OBVIOUS
<1>1. PICK x \in T : \A y \in T : x <= y
  BY Least, Zenon
<1>2. x # 0 /\ x - 1 \in Nat /\ x - 1 + 1 = x
  BY <1>1
<1>3. x - 1 \in S
  BY <1>1, <1>2
<1> QED  BY <1>1, <1>2, <1>3, Zenon

\* A set that has n whenever it has every smaller number has all of them.
LEMMA StrongInduction ==
  ASSUME NEW S, \A n \in Nat : (\A m \in Nat : m < n => m \in S) => n \in S
  PROVE  Nat \subseteq S
<1> DEFINE T == Nat \ S
<1> SUFFICES ASSUME T # {} PROVE FALSE
  OBVIOUS
<1>1. PICK x \in T : \A y \in T : x <= y
  BY Least, Zenon
<1> QED  BY <1>1

\* What a recursion on the numbers demands of g up to n: base where it stops,
\* else step of the value at the smaller number down[d].
Unfolds(g, n, stop, base, down, step) ==
    \A d \in 0 .. n : g[d] = IF d \in stop THEN base[d] ELSE step[<<d, g[down[d]]>>]

\* Such a recursion defines a function.
LEMMA NumberRecursion ==
  ASSUME NEW X, NEW stop, NEW base \in [Nat -> X], NEW down \in [Nat -> Nat],
         NEW step \in [Nat \X X -> X], \A d \in Nat \ stop : down[d] < d
  PROVE  \E f \in [Nat -> X] : \A n \in Nat : Unfolds(f, n, stop, base, down, step)
<1> DEFINE Good(g, n) == Unfolds(g, n, stop, base, down, step)
           Turn(g) == [d \in Nat |-> IF d \in stop THEN base[d] ELSE step[<<d, g[down[d]]>>]]
           S == {n \in Nat : \E g \in [Nat -> X] : Good(g, n)}
<1>1. ASSUME NEW g \in [Nat -> X] PROVE Turn(g) \in [Nat -> X]
  OBVIOUS
<1>2. ASSUME NEW n \in Nat, NEW g \in [Nat -> X], Good(g, n - 1) PROVE Good(Turn(g), n)
  <2>1. ASSUME NEW d \in 0 .. n, d \notin stop PROVE Turn(g)[down[d]] = g[down[d]]
    <3>1. down[d] \in 0 .. n - 1
      BY <2>1
    <3> QED  BY <1>2, <3>1 DEF Unfolds
  <2>2. ASSUME NEW d \in 0 .. n
        PROVE  Turn(g)[d] = IF d \in stop THEN base[d] ELSE step[<<d, Turn(g)[down[d]]>>]
    <3>1. Turn(g)[d] = IF d \in stop THEN base[d] ELSE step[<<d, g[down[d]]>>]
      OBVIOUS
    <3> HIDE DEF Turn
    <3> QED  BY <2>1, <3>1, Zenon
  <2> HIDE DEF Turn
  <2> QED  BY <2>2, Zenon DEF Unfolds
<1> HIDE DEF Turn
<1>3. Nat \subseteq S
  <2>1. 0 \in S
    <3>1. Good(base, 0 - 1)
      BY DEF Unfolds
    <3> QED  BY <1>1, <1>2, <3>1, Zenon
  <2>2. ASSUME NEW n \in Nat, n \in S PROVE n + 1 \in S
    <3>1. PICK g \in [Nat -> X] : Good(g, n)
      BY <2>2, Zenon
    <3>2. n + 1 \in Nat /\ (n + 1) - 1 = n
      OBVIOUS
    <3>3. Good(Turn(g), n + 1)
      BY <1>2, <3>1, <3>2, Zenon
    <3> QED  BY <1>1, <3>2, <3>3, Zenon
  <2> HIDE DEF S
  <2> QED  BY <2>1, <2>2, Induction, Zenon
<1>4. ASSUME NEW g, NEW h, NEW m \in Nat, NEW n \in Nat, m <= n, Good(g, m), Good(h, n)
      PROVE  \A d \in 0 .. m : g[d] = h[d]
  <2> DEFINE E == {d \in Nat : d <= m => g[d] = h[d]}
  <2>1. ASSUME NEW d \in Nat, \A e \in Nat : e < d => e \in E PROVE d \in E
    <3> SUFFICES ASSUME d <= m PROVE g[d] = h[d]
      OBVIOUS
    <3>1. d \notin stop => g[down[d]] = h[down[d]]
      BY <2>1
    <3>2. d \in 0 .. m /\ d \in 0 .. n
      BY <1>4
    <3>3. /\ g[d] = IF d \in stop THEN base[d] ELSE step[<<d, g[down[d]]>>]
          /\ h[d] = IF d \in stop THEN base[d] ELSE step[<<d, h[down[d]]>>]
      BY <1>4, <3>2, Zenon DEF Unfolds
    <3> QED  BY <3>1, <3>3, Zenon
  <2>2. Nat \subseteq E
    <3> HIDE DEF E
    <3> QED  BY <2>1, StrongInduction, Zenon
  <2> QED  BY <2>2
<1> DEFINE At(n) == CHOOSE g \in [Nat -> X] : Good(g, n)
           f == [d \in Nat |-> At(d)[d]]
<1>5. \A n \in Nat : At(n) \in [Nat -> X] /\ Good(At(n), n)
  BY <1>3, Zenon
<1> HIDE DEF At
<1>6. ASSUME NEW n \in Nat, NEW d \in 0 .. n
      PROVE  f[d] = IF d \in stop THEN base[d] ELSE step[<<d, f[down[d]]>>]
  <2>1. d \in Nat /\ d \in 0 .. d /\ down[d] \in Nat
    OBVIOUS
  <2>2. At(d)[d] = IF d \in stop THEN base[d] ELSE step[<<d, At(d)[down[d]]>>]
    BY <1>5, <2>1, Zenon DEF Unfolds
  <2>3. ASSUME d \notin stop PROVE At(down[d])[down[d]] = At(d)[down[d]]
    <3>1. down[d] <= d /\ down[d] \in 0 .. down[d]
      BY <2>1, <2>3
    <3> QED  BY <1>4, <1>5, <2>1, <3>1
  <2> QED  BY <2>1, <2>2, <2>3, Zenon
<1>7. \A n \in Nat : Good(f, n)
  BY <1>6, Zenon DEF Unfolds
<1>8. f \in [Nat -> X]
  BY <1>5, Zenon
<1> HIDE DEF f
<1> QED  BY <1>7, <1>8, Zenon

-----------------------------------------------------------------------------
(* itoa.                                                                   *)

\* One turn of the loop of itoa, in either base.
LEMMA Division ==
  ASSUME NEW b \in {10, 16}, NEW ud \in Nat
  PROVE  /\ ud \div b \in Nat
         /\ (ud % b) \in 0 .. b - 1
         /\ ud = (ud \div b) * b + (ud % b)
         /\ ud \div b # 0 => ud \div b < ud
<1>1. CASE b = 10
  BY <1>1
<1>2. CASE b = 16
  BY <1>2
<1> QED  BY <1>1, <1>2, Zenon

\* The characters of the console.
Chars == STRING \cup {Digit[n] : n \in 1 .. 16} \cup {Newline, Minus, Blank, Space, "0", "a"}

\* A character that stands for a digit.
DigitChar(ud, b) == Digit[1 + (ud % b)]

\* A digit is a character.
LEMMA DigitChars ==
  ASSUME NEW b \in {10, 16}, NEW ud \in Nat
  PROVE  DigitChar(ud, b) \in Chars
<1>1. 1 + (ud % b) \in 1 .. 16
  BY Division
<1> QED  BY <1>1, Zenon DEF DigitChar, Chars

\* The loop of itoa ends and produces a digit for every turn.
LEMMA DigitsUnfold ==
  ASSUME NEW b \in {10, 16}
  PROVE  /\ Digits(b) \in [Nat -> Seq(Chars)]
         /\ \A ud \in Nat :
              Digits(b)[ud] = <<DigitChar(ud, b)>> \o
                              (IF ud \div b = 0 THEN <<>> ELSE Digits(b)[ud \div b])
<1> DEFINE stop == {ud \in Nat : ud \div b = 0}
           base == [ud \in Nat |-> <<DigitChar(ud, b)>>]
           down == [ud \in Nat |-> ud \div b]
           step == [p \in Nat \X Seq(Chars) |-> <<DigitChar(p[1], b)>> \o p[2]]
           Body(f) == [ud \in Nat |-> <<DigitChar(ud, b)>> \o
                         (IF ud \div b = 0 THEN <<>> ELSE f[ud \div b])]
<1>1. /\ base \in [Nat -> Seq(Chars)] /\ down \in [Nat -> Nat]
      /\ step \in [Nat \X Seq(Chars) -> Seq(Chars)]
      /\ \A ud \in Nat \ stop : down[ud] < ud
  <2>1. base \in [Nat -> Seq(Chars)]
    BY DigitChars
  <2>2. down \in [Nat -> Nat] /\ \A ud \in Nat \ stop : down[ud] < ud
    BY Division, Zenon
  <2>3. step \in [Nat \X Seq(Chars) -> Seq(Chars)]
    BY DigitChars
  <2> QED  BY <2>1, <2>2, <2>3, Zenon
<1> HIDE DEF stop, base, down, step
<1>2. PICK f \in [Nat -> Seq(Chars)] : \A n \in Nat : Unfolds(f, n, stop, base, down, step)
  BY <1>1, NumberRecursion, Zenon
<1> USE DEF stop, base, down, step
<1>3. ASSUME NEW ud \in Nat PROVE f[ud] = Body(f)[ud]
  <2>1. f[ud] = IF ud \in stop THEN base[ud] ELSE step[<<ud, f[down[ud]]>>]
    <3>1. ud \in 0 .. ud
      OBVIOUS
    <3> QED  BY <1>2, <3>1, Zenon DEF Unfolds
  <2>2. <<DigitChar(ud, b)>> \o <<>> = <<DigitChar(ud, b)>>
    BY DigitChars
  <2>3. CASE ud \div b = 0
    BY <2>1, <2>2, <2>3, Zenon
  <2>4. CASE ud \div b # 0
    <3>1. ud \div b \in Nat /\ f[ud \div b] \in Seq(Chars)
      BY Division, <1>2, Zenon
    <3> QED  BY <2>1, <2>4, <3>1, Zenon
  <2> QED  BY <2>3, <2>4, Zenon
<1>4. f = Body(f)
  BY <1>2, <1>3, Zenon
<1> DEFINE d == CHOOSE g : g = Body(g)
<1>5. d = Body(d)
  BY <1>4, Zenon
<1>6. Digits(b) = d
  BY Zenon DEF Digits, DigitChar
<1> HIDE DEF d
<1> DEFINE S == {ud \in Nat : d[ud] \in Seq(Chars)}
<1>7. Nat \subseteq S
  <2>1. ASSUME NEW n \in Nat, \A m \in Nat : m < n => m \in S PROVE n \in S
    <3>1. ASSUME n \div b # 0 PROVE d[n \div b] \in Seq(Chars)
      BY <2>1, <3>1, Division, Zenon
    <3> DEFINE rest == IF n \div b = 0 THEN <<>> ELSE d[n \div b]
    <3>2. rest \in Seq(Chars)
      BY <3>1
    <3>3. d[n] = <<DigitChar(n, b)>> \o rest
      BY <1>5, Zenon
    <3>4. DigitChar(n, b) \in Chars
      BY DigitChars, Zenon
    <3> HIDE DEF rest
    <3>5. d[n] \in Seq(Chars)
      BY <3>2, <3>3, <3>4
    <3> QED  BY <3>5, Zenon
  <2> HIDE DEF S
  <2> QED  BY <2>1, StrongInduction, Zenon
<1>8. d \in [Nat -> Seq(Chars)]
  BY <1>5, <1>7, Zenon
<1> QED  BY <1>5, <1>6, <1>8, Zenon

\* The digits, and the value of one.
DigitSet == {Digit[n] : n \in 1 .. 16}
DigitNo(c) == CHOOSE n \in 1 .. 16 : Digit[n] = c
DigitOf(c) == DigitNo(c) - 1

\* The sixteen digits differ from each other and from the sign.
LEMMA DigitsDiffer ==
  /\ \A m, n \in 1 .. 16 : Digit[m] = Digit[n] => m = n
  /\ \A n \in 1 .. 16 : Digit[n] # Minus /\ (Digit[n] = "0" => n = 1)
<1>1. \A n \in 1 .. 16 : \/ n = 1 \/ n = 2 \/ n = 3 \/ n = 4 \/ n = 5 \/ n = 6 \/ n = 7 \/ n = 8
                         \/ n = 9 \/ n = 10 \/ n = 11 \/ n = 12 \/ n = 13 \/ n = 14
                         \/ n = 15 \/ n = 16
  OBVIOUS
<1>2. ASSUME NEW m \in 1 .. 16, NEW n \in 1 .. 16, Digit[m] = Digit[n] PROVE m = n
  BY <1>1, <1>2 DEF Digit
<1>3. \A n \in 1 .. 16 : Digit[n] # Minus /\ (Digit[n] = "0" => n = 1)
  BY <1>1 DEF Digit, Minus
<1> QED  BY <1>2, <1>3, Zenon

\* The character itoa writes for a remainder stands for that remainder.
LEMMA DigitValue ==
  ASSUME NEW b \in {10, 16}, NEW ud \in Nat
  PROVE  /\ DigitChar(ud, b) \in DigitSet
         /\ DigitOf(DigitChar(ud, b)) = (ud % b)
         /\ DigitChar(ud, b) = "0" => (ud % b) = 0
<1>0. (ud % b) \in Int /\ (ud % b) >= 0 /\ (ud % b) < b
  BY Division
<1>1. 1 + (ud % b) \in 1 .. 16 /\ (ud % b) \in Nat
  BY <1>0
<1>2. \A n \in 1 .. 16 : Digit[n] = DigitChar(ud, b) => n = 1 + (ud % b)
  BY <1>1, DigitsDiffer, Zenon DEF DigitChar
<1>3. DigitNo(DigitChar(ud, b)) = 1 + (ud % b)
  BY <1>1, <1>2, Zenon DEF DigitChar, DigitNo
<1>4. DigitOf(DigitChar(ud, b)) = (ud % b)
  BY <1>1, <1>3 DEF DigitOf
<1>5. DigitChar(ud, b) = "0" => 1 + (ud % b) = 1
  BY <1>1, DigitsDiffer, Zenon DEF DigitChar
<1> QED  BY <1>1, <1>4, <1>5 DEF DigitSet, DigitChar

\* The digit of every digit character is a number.
LEMMA DigitOfInt == \A c \in DigitSet : DigitOf(c) \in Nat
<1> SUFFICES ASSUME NEW c \in DigitSet PROVE DigitOf(c) \in Nat
  OBVIOUS
<1>1. \E n \in 1 .. 16 : Digit[n] = c
  BY Zenon DEF DigitSet
<1>2. DigitNo(c) \in 1 .. 16
  BY <1>1, Zenon DEF DigitNo
<1> QED  BY <1>2 DEF DigitOf

\* What Reversed returns, and that a first element becomes the last.
LEMMA ReversedFacts ==
  ASSUME NEW X, NEW s \in Seq(X)
  PROVE  /\ Reversed(s) \in Seq(X) /\ Len(Reversed(s)) = Len(s)
         /\ \A k \in 1 .. Len(s) : Reversed(s)[k] = s[Len(s) + 1 - k]
  BY DEF Reversed

LEMMA ReversedFirst ==
  ASSUME NEW X, NEW c \in X, NEW s \in Seq(X)
  PROVE  Reversed(<<c>> \o s) = Append(Reversed(s), c)
<1> DEFINE t == <<c>> \o s
<1>1. /\ t \in Seq(X) /\ Len(t) = Len(s) + 1 /\ t[1] = c
      /\ \A k \in 1 .. Len(s) : t[k + 1] = s[k]
  OBVIOUS
<1> HIDE DEF t
<1> DEFINE u == Append(Reversed(s), c)
           r == Reversed(t)
<1>2. /\ u \in Seq(X) /\ Len(u) = Len(s) + 1 /\ u[Len(s) + 1] = c
      /\ \A k \in 1 .. Len(s) : u[k] = s[Len(s) + 1 - k]
  BY ReversedFacts
<1>3. /\ r \in Seq(X) /\ Len(r) = Len(s) + 1
      /\ \A k \in 1 .. Len(s) + 1 : r[k] = t[Len(s) + 2 - k]
  BY <1>1, ReversedFacts
<1> HIDE DEF u, r
<1>4. ASSUME NEW k \in 1 .. Len(s) + 1 PROVE u[k] = r[k]
  <2>1. Len(s) \in Nat
    OBVIOUS
  <2>2. CASE k = Len(s) + 1
    BY <2>1, <2>2, <1>1, <1>2, <1>3
  <2>3. CASE k \in 1 .. Len(s)
    <3>1. Len(s) + 1 - k \in 1 .. Len(s) /\ Len(s) + 1 - k + 1 = Len(s) + 2 - k
      BY <2>1, <2>3
    <3>2. t[Len(s) + 2 - k] = s[Len(s) + 1 - k]
      BY <1>1, <3>1, Zenon
    <3> QED  BY <1>2, <1>3, <2>3, <3>2, Zenon
  <2> QED  BY <2>1, <2>2, <2>3
<1>5. u = r
  BY <1>2, <1>3, <1>4, SameSequence, Zenon
<1> QED  BY <1>5, Zenon DEF u, r, t

\* The partial values of a text.
Value(text, b) ==
    CHOOSE value : value = [k \in 0 .. Len(text) |->
                              IF k = 0 THEN 0 ELSE value[k - 1] * b + DigitOf(text[k])]

LEMMA ValueUnfold ==
  ASSUME NEW b \in {10, 16}, NEW text \in Seq(DigitSet)
  PROVE  /\ ValueOf(text, b) = Value(text, b)[Len(text)]
         /\ Value(text, b)[0] = 0
         /\ \A k \in 1 .. Len(text) :
              Value(text, b)[k] = Value(text, b)[k - 1] * b + DigitOf(text[k])
<1> DEFINE D == 0 .. Len(text)
           stop == {0}
           base == [k \in Nat |-> 0]
           down == [k \in Nat |-> IF k = 0 THEN 0 ELSE k - 1]
           step == [p \in Nat \X Int |->
                      IF p[1] \in D \ {0} THEN p[2] * b + DigitOf(text[p[1]]) ELSE 0]
           Body(f) == [k \in D |-> IF k = 0 THEN 0 ELSE f[k - 1] * b + DigitOf(text[k])]
<1>0. Len(text) \in Nat /\ \A k \in D \ {0} : DigitOf(text[k]) \in Int
  BY DigitOfInt
<1>1. /\ base \in [Nat -> Int] /\ down \in [Nat -> Nat] /\ step \in [Nat \X Int -> Int]
      /\ \A k \in Nat \ stop : down[k] < k
  <2>1. base \in [Nat -> Int] /\ down \in [Nat -> Nat]
    OBVIOUS
  <2>2. \A k \in Nat \ stop : down[k] < k
    OBVIOUS
  <2>3. \A i \in Int : i * b \in Int
    OBVIOUS
  <2>4. step \in [Nat \X Int -> Int]
    BY <1>0, <2>3
  <2> QED  BY <2>1, <2>2, <2>4, Zenon
<1> HIDE DEF stop, base, down, step
<1>2. PICK g \in [Nat -> Int] : \A n \in Nat : Unfolds(g, n, stop, base, down, step)
  BY <1>1, NumberRecursion, Zenon
<1> USE DEF stop, base, down, step
<1> DEFINE f == [k \in D |-> g[k]]
<1>3. \A k \in D : f[k] = Body(f)[k]
  <2> TAKE k \in D
  <2>1. f[k] = IF k \in stop THEN base[k] ELSE step[<<k, g[down[k]]>>]
    <3>1. k \in Nat /\ k \in 0 .. k
      BY <1>0
    <3> QED  BY <1>2, <3>1, Zenon DEF Unfolds
  <2>2. CASE k = 0
    BY <2>1, <2>2, Zenon
  <2>3. CASE k # 0
    <3>1. k - 1 \in D /\ k - 1 \in Nat /\ k \in Nat /\ down[k] = k - 1
      BY <2>3, <1>0
    <3>2. f[k - 1] = g[k - 1] /\ g[k - 1] \in Int
      BY <3>1, <1>2, Zenon
    <3>3. f[k] = g[k - 1] * b + DigitOf(text[k])
      BY <2>1, <2>3, <3>1, <3>2, Zenon
    <3> QED  BY <2>3, <3>2, <3>3, Zenon
  <2> QED  BY <2>2, <2>3, Zenon
<1>4. f = Body(f)
  BY <1>2, <1>3, Zenon
<1> DEFINE d == CHOOSE h : h = Body(h)
<1>5. d = Body(d)
  BY <1>4, Zenon
<1>6. d = Value(text, b)
  BY Zenon DEF Value
<1>7. ValueOf(text, b) = d[Len(text)]
  BY Zenon DEF ValueOf, DigitOf, DigitNo
<1> HIDE DEF d, f, stop, base, down, step
<1>8. d[0] = 0
  BY <1>0, <1>5
<1>9. ASSUME NEW k \in 1 .. Len(text) PROVE d[k] = d[k - 1] * b + DigitOf(text[k])
  <2>1. k \in D /\ k # 0
    BY <1>0
  <2> QED  BY <1>5, <2>1, Zenon
<1> QED  BY <1>6, <1>7, <1>8, <1>9, Zenon

\* A digit more makes the value b times as large, plus the digit.
LEMMA ValueAppend ==
  ASSUME NEW b \in {10, 16}, NEW s \in Seq(DigitSet), NEW c \in DigitSet
  PROVE  ValueOf(Append(s, c), b) = ValueOf(s, b) * b + DigitOf(c)
<1> DEFINE t == Append(s, c)
<1>1. /\ t \in Seq(DigitSet) /\ Len(t) = Len(s) + 1 /\ t[Len(s) + 1] = c
      /\ \A k \in 1 .. Len(s) : t[k] = s[k]
      /\ Len(s) \in Nat
  OBVIOUS
<1> HIDE DEF t
<1>2. /\ ValueOf(t, b) = Value(t, b)[Len(s) + 1] /\ Value(t, b)[0] = 0
      /\ \A k \in 1 .. Len(s) + 1 : Value(t, b)[k] = Value(t, b)[k - 1] * b + DigitOf(t[k])
  <2>1. /\ ValueOf(t, b) = Value(t, b)[Len(t)] /\ Value(t, b)[0] = 0
        /\ \A k \in 1 .. Len(t) : Value(t, b)[k] = Value(t, b)[k - 1] * b + DigitOf(t[k])
    BY <1>1, ValueUnfold, Zenon
  <2> QED  BY <1>1, <2>1, Zenon
<1>3. /\ ValueOf(s, b) = Value(s, b)[Len(s)] /\ Value(s, b)[0] = 0
      /\ \A k \in 1 .. Len(s) : Value(s, b)[k] = Value(s, b)[k - 1] * b + DigitOf(s[k])
  BY ValueUnfold
<1> DEFINE S == {k \in Nat : k <= Len(s) => Value(t, b)[k] = Value(s, b)[k]}
<1>4. 0 \in S
  BY <1>2, <1>3
<1>5. ASSUME NEW n \in Nat, n \in S PROVE n + 1 \in S
  <2> SUFFICES ASSUME n + 1 <= Len(s) PROVE Value(t, b)[n + 1] = Value(s, b)[n + 1]
    OBVIOUS
  <2>1. n + 1 \in 1 .. Len(s) /\ n + 1 \in 1 .. Len(s) + 1 /\ n + 1 - 1 = n /\ n <= Len(s)
    BY <1>1
  <2>2. Value(t, b)[n] = Value(s, b)[n]
    BY <1>5, <2>1
  <2> QED  BY <1>1, <1>2, <1>3, <2>1, <2>2
<1>6. Nat \subseteq S
  <2> HIDE DEF S
  <2> QED  BY <1>4, <1>5, Induction
<1>7. Value(t, b)[Len(s)] = Value(s, b)[Len(s)]
  BY <1>1, <1>6
<1>8. Len(s) + 1 \in 1 .. Len(s) + 1 /\ Len(s) + 1 - 1 = Len(s)
  BY <1>1
<1> QED  BY <1>1, <1>2, <1>3, <1>7, <1>8 DEF t

\* The empty text reads as 0.
LEMMA ValueEmpty == ASSUME NEW b \in {10, 16} PROVE ValueOf(<<>>, b) = 0
<1>1. <<>> \in Seq(DigitSet) /\ Len(<<>>) = 0
  OBVIOUS
<1>2. /\ ValueOf(<<>>, b) = Value(<<>>, b)[Len(<<>>)]
      /\ Value(<<>>, b)[0] = 0
  BY <1>1, ValueUnfold, Zenon
<1> QED  BY <1>1, <1>2, Zenon

\* What the loop of itoa leaves, the last digit first: a digit at least, that
\* read backwards give the number, the first of them not a 0 unless alone.
Reads(ud, b) ==
    LET s == Digits(b)[ud]
    IN  /\ s \in Seq(DigitSet) /\ Len(s) >= 1
        /\ ValueOf(Reversed(s), b) = ud
        /\ ud # 0 => s[Len(s)] # "0"
        /\ ud = 0 => Len(s) = 1

LEMMA DigitsRead ==
  ASSUME NEW b \in {10, 16}
  PROVE  \A ud \in Nat : Reads(ud, b)
<1> DEFINE S == {ud \in Nat : Reads(ud, b)}
<1>1. ASSUME NEW n \in Nat, \A m \in Nat : m < n => m \in S PROVE n \in S
  <2> DEFINE q == n \div b
             c == DigitChar(n, b)
             rest == IF q = 0 THEN <<>> ELSE Digits(b)[q]
             s == Digits(b)[n]
  <2>1. q \in Nat /\ (n % b) \in Nat /\ n = q * b + (n % b) /\ (q # 0 => q < n)
    BY Division
  <2>2. c \in DigitSet /\ DigitOf(c) = (n % b) /\ (c = "0" => (n % b) = 0)
    BY DigitValue
  <2>3. s = <<c>> \o rest
    BY DigitsUnfold, Zenon
  <2>4. /\ rest \in Seq(DigitSet) /\ ValueOf(Reversed(rest), b) = q
        /\ q # 0 => Len(rest) >= 1 /\ rest[Len(rest)] # "0"
    <3>1. CASE q = 0
      <4>1. Reversed(<<>>) = <<>>
        BY DEF Reversed
      <4> QED  BY <3>1, <4>1, ValueEmpty
    <3>2. CASE q # 0
      <4>1. Reads(q, b)
        BY <1>1, <2>1, <3>2
      <4> QED  BY <3>2, <4>1 DEF Reads
    <3> QED  BY <3>1, <3>2
  <2>5. q = 0 => rest = <<>>
    OBVIOUS
  <2> HIDE DEF q, c, rest, s
  <2>6. /\ s \in Seq(DigitSet) /\ Len(s) = Len(rest) + 1 /\ s[1] = c
        /\ \A k \in 1 .. Len(rest) : s[k + 1] = rest[k]
        /\ Len(rest) \in Nat
    BY <2>2, <2>3, <2>4
  <2>7. Reversed(s) = Append(Reversed(rest), c) /\ Reversed(rest) \in Seq(DigitSet)
    BY <2>2, <2>3, <2>4, ReversedFirst, ReversedFacts, Zenon
  <2>8. ValueOf(Reversed(s), b) = q * b + (n % b)
    BY <2>2, <2>4, <2>7, ValueAppend
  <2>9. n # 0 => s[Len(s)] # "0"
    <3>1. CASE q = 0
      <4>1. Len(s) = 1 /\ s[Len(s)] = c
        BY <3>1, <2>5, <2>6
      <4>2. n = (n % b)
        BY <3>1, <2>1
      <4> QED  BY <4>1, <4>2, <2>2
    <3>2. CASE q # 0
      BY <3>2, <2>4, <2>6
    <3> QED  BY <3>1, <3>2
  <2>10. n = 0 => Len(s) = 1
    <3>1. n = 0 => q = 0
      BY <2>1
    <3> QED  BY <3>1, <2>5, <2>6
  <2>11. Reads(n, b)
    BY <2>1, <2>6, <2>8, <2>9, <2>10 DEF Reads, s
  <2> QED  BY <2>11
<1>2. Nat \subseteq S
  <2> HIDE DEF S
  <2> QED  BY <1>1, StrongInduction
<1> QED  BY <1>2

\* The numbers below m have at most k digits.
AtMost(m, k, b) == \A ud \in Nat : ud < m => Len(Digits(b)[ud]) <= k

\* A number ten times as large has at most one digit more.
LEMMA AtMostStep ==
  ASSUME NEW b \in {10, 16}, NEW m \in Nat, NEW k \in Nat, AtMost(m, k, b)
  PROVE  AtMost(10 * m, k + 1, b)
<1> SUFFICES ASSUME NEW ud \in Nat, ud < 10 * m PROVE Len(Digits(b)[ud]) <= k + 1
  BY DEF AtMost
<1> DEFINE q == ud \div b
           rest == IF q = 0 THEN <<>> ELSE Digits(b)[q]
<1>1. q \in Nat /\ q < m
  <2>1. CASE b = 10
    BY <2>1
  <2>2. CASE b = 16
    BY <2>2
  <2> QED  BY <2>1, <2>2
<1>2. Digits(b)[ud] = <<DigitChar(ud, b)>> \o rest
  BY DigitsUnfold, Zenon
<1>3. rest \in Seq(Chars) /\ Len(rest) <= k /\ DigitChar(ud, b) \in Chars
  <2>1. Digits(b)[q] \in Seq(Chars) /\ DigitChar(ud, b) \in Chars
    BY <1>1, DigitsUnfold, DigitChars, Zenon
  <2>2. Len(Digits(b)[q]) <= k
    BY <1>1 DEF AtMost
  <2> HIDE DEF q
  <2> QED  BY <2>1, <2>2
<1> HIDE DEF rest
<1> QED  BY <1>2, <1>3

\* An unsigned long has at most ten digits.
LEMMA AtMostTen ==
  ASSUME NEW b \in {10, 16} PROVE AtMost(10000000000, 10, b)
<1>1. AtMost(10, 1, b)
  <2> SUFFICES ASSUME NEW ud \in Nat, ud < 10 PROVE Len(Digits(b)[ud]) <= 1
    BY DEF AtMost
  <2>1. ud \div b = 0 /\ DigitChar(ud, b) \in Chars
    BY DigitChars
  <2>2. Digits(b)[ud] = <<DigitChar(ud, b)>> \o <<>>
    BY <2>1, DigitsUnfold, Zenon
  <2> QED  BY <2>1, <2>2
<1>2. AtMost(100, 2, b)
  BY <1>1, AtMostStep
<1>3. AtMost(1000, 3, b)
  BY <1>2, AtMostStep
<1>4. AtMost(10000, 4, b)
  BY <1>3, AtMostStep
<1>5. AtMost(100000, 5, b)
  BY <1>4, AtMostStep
<1>6. AtMost(1000000, 6, b)
  BY <1>5, AtMostStep
<1>7. AtMost(10000000, 7, b)
  BY <1>6, AtMostStep
<1>8. AtMost(100000000, 8, b)
  BY <1>7, AtMostStep
<1>9. AtMost(1000000000, 9, b)
  BY <1>8, AtMostStep
<1> QED  BY <1>9, AtMostStep

\* What NumberReads says of a number printed.
NumberText(conv, arg, text) ==
    LET minus == text[1] = Minus
        digits == IF minus THEN Tail(text) ELSE text
        value == ValueOf(digits, IF conv = "x" THEN 16 ELSE 10)
    IN  /\ IF conv = "d" THEN arg = (IF minus THEN -value ELSE value)
           ELSE value = Unsigned(arg)
        /\ Len(digits) > 1 => digits[1] # "0"
        /\ Len(text) < kBufSize

\* The number whose digits itoa takes is the one to print or its opposite, or
\* what the unsigned long holds, and it is below 2^32.
LEMMA Magnitude ==
  ASSUME NEW d \in Ints
  PROVE  /\ Unsigned(d) \in Nat /\ Unsigned(d) < 10000000000
         /\ d >= 0 => Unsigned(d) = d
         /\ d < 0 => Unsigned(-d) = -d /\ -d \in Nat /\ -d < 10000000000
<1> DEFINE M == 2 * (IntMax + 1)
<1>1. /\ M \in Nat /\ M > 0 /\ M <= 4294967296 /\ d \in Int
      /\ d >= -(IntMax + 1) /\ d <= IntMax /\ IntMax \in Nat
  BY IntAssumption DEF Ints
<1>2. (d % M) \in Int /\ (d % M) >= 0 /\ (d % M) < M
  BY <1>1
<1>3. d >= 0 => (d % M) = d
  BY <1>1
<1>4. d < 0 => (-d) % M = -d
  BY <1>1
<1> QED  BY <1>1, <1>2, <1>3, <1>4 DEF Unsigned

\* itoa, for every int and every conversion.
LEMMA ItoaReads ==
  ASSUME NEW conv \in {"d", "u", "x"}, NEW d \in Ints
  PROVE  /\ itoa(conv, d) \in Seq(DigitSet \cup {Minus})
         /\ NumberText(conv, d, itoa(conv, d))
<1> DEFINE minus == conv = "d" /\ d < 0
           ud == Unsigned(IF minus THEN -d ELSE d)
           b == IF conv = "x" THEN 16 ELSE 10
           s == Digits(b)[ud]
           r == Reversed(s)
           text == itoa(conv, d)
<1>1. d \in Int /\ b \in {10, 16}
  BY DEF Ints
<1>2. ud \in Nat /\ ud < 10000000000
  BY Magnitude
<1>3. Reads(ud, b) /\ Len(s) <= 10
  BY <1>1, <1>2, DigitsRead, AtMostTen DEF AtMost
<1>4. text = (IF minus THEN <<Minus>> ELSE <<>>) \o r
  BY DEF itoa
<1>5. IF conv = "d" THEN d = (IF minus THEN -ud ELSE ud) ELSE ud = Unsigned(d)
  BY <1>1, Magnitude
<1> HIDE DEF ud, b, text
<1>6. /\ s \in Seq(DigitSet) /\ Len(s) \in Nat /\ Len(s) >= 1 /\ Len(s) <= 10
      /\ ValueOf(r, b) = ud /\ (Len(s) > 1 => s[Len(s)] # "0")
  BY <1>3 DEF Reads
<1> HIDE DEF s
<1>7. /\ r \in Seq(DigitSet) /\ Len(r) = Len(s) /\ r[1] = s[Len(s)] /\ r[1] \in DigitSet
  <2>1. 1 \in 1 .. Len(s) /\ Len(s) + 1 - 1 = Len(s) /\ Len(s) \in 1 .. Len(s)
    BY <1>6
  <2> QED  BY <1>6, <2>1, ReversedFacts
<1>8. r[1] # Minus
  BY <1>7, DigitsDiffer DEF DigitSet
<1> HIDE DEF r
<1>9. ValueOf(r, IF conv = "x" THEN 16 ELSE 10) = ud
  BY <1>6 DEF b
<1>10. CASE minus
  <2>1. text = <<Minus>> \o r
    BY <1>4, <1>10
  <2>2. /\ text \in Seq(DigitSet \cup {Minus}) /\ text[1] = Minus /\ Tail(text) = r
        /\ Len(text) = Len(r) + 1
    BY <1>6, <1>7, <2>1
  <2>3. conv = "d" /\ d = -ud
    BY <1>5, <1>10
  <2>4. NumberText(conv, d, text)
    <3>1. (IF text[1] = Minus THEN Tail(text) ELSE text) = r
      BY <2>2, Zenon
    <3>2. d = -ValueOf(r, IF conv = "x" THEN 16 ELSE 10)
      BY <1>9, <2>3, Zenon
    <3>3. /\ Len(r) > 1 => r[1] # "0"
          /\ Len(text) < kBufSize
      BY <1>6, <1>7, <2>2 DEF kBufSize
    <3> QED  BY <2>2, <2>3, <3>1, <3>2, <3>3, Zenon DEF NumberText
  <2> QED  BY <2>2, <2>4 DEF text
<1>11. CASE ~ minus
  <2>1. text = <<>> \o r
    BY <1>4, <1>11, Zenon
  <2>2. text = r /\ r \in Seq(DigitSet \cup {Minus})
    BY <1>7, <2>1
  <2>3. IF conv = "d" THEN d = ud ELSE ud = Unsigned(d)
    BY <1>5, <1>11
  <2>4. NumberText(conv, d, text)
    BY <1>6, <1>7, <1>8, <1>9, <2>2, <2>3 DEF NumberText, kBufSize
  <2> QED  BY <2>2, <2>4 DEF text
<1> QED  BY <1>10, <1>11

-----------------------------------------------------------------------------
(* The screen.                                                             *)

ScreenSize == LINES * COLUMNS
Cursor == xpos + ypos * COLUMNS

\* The field a directive prints: its width and its characters.
Width(pad, text) == IF pad > Len(text) THEN pad ELSE Len(text)
FieldChar(pad0, pad, text, k) ==
    IF k > Width(pad, text) - Len(text) THEN text[k - (Width(pad, text) - Len(text))]
    ELSE IF pad0 THEN "0" ELSE Space

Plain(text) == \A k \in 1 .. Len(text) : text[k] # Newline

\* How many characters of the field are out.
Done == Width(call.pad, call.text) - Len(out)

CallType ==
    /\ call.text \in Seq(Chars) /\ call.pad \in Nat /\ call.pad0 \in BOOLEAN
    /\ call.at \in 0 .. ScreenSize - 1

\* putchar has been given the beginning of the field and is to be given the
\* rest of it.
OutIsRest ==
    /\ out \in Seq(Chars) /\ Len(out) <= Width(call.pad, call.text)
    /\ \A k \in 1 .. Len(out) :
         out[k] = FieldChar(call.pad0, call.pad, call.text, Done + k)

\* The beginning of the field is on the screen and the cursor is after it.
DoneOnScreen ==
    Plain(call.text) /\ Width(call.pad, call.text) <= ScreenSize =>
      /\ Cursor = (call.at + Done) % ScreenSize
      /\ \A k \in 1 .. Done :
           video[(call.at + k - 1) % ScreenSize] =
             FieldChar(call.pad0, call.pad, call.text, k)

ConsoleInv ==
    /\ CursorOnScreen
    /\ video \in [0 .. ScreenSize - 1 -> Chars]
    /\ CallType
    /\ call.conv \in {"d", "u", "x"} => NumberText(call.conv, call.arg, call.text)
    /\ OutIsRest
    /\ DoneOnScreen

\* The cursor is at a position of the screen.
LEMMA CursorPosition ==
  ASSUME NEW x \in 0 .. COLUMNS - 1, NEW y \in 0 .. LINES - 1
  PROVE  x + y * COLUMNS \in 0 .. ScreenSize - 1
<1>1. LINES \in Nat /\ COLUMNS \in Nat /\ COLUMNS >= 1 /\ LINES >= 1
  BY ConsoleAssumption
<1>2. y \in Nat /\ y + 1 <= LINES
  BY <1>1
<1>3. (y + 1) * COLUMNS <= LINES * COLUMNS /\ y * COLUMNS \in Nat
  BY <1>1, <1>2
<1>4. (y + 1) * COLUMNS = y * COLUMNS + COLUMNS
  BY <1>1, <1>2
<1> QED  BY <1>1, <1>3, <1>4 DEF ScreenSize

\* The cursor goes to the next position, or from the last to the first.
LEMMA NextPosition ==
  ASSUME NEW x \in 0 .. COLUMNS - 1, NEW y \in 0 .. LINES - 1
  PROVE  /\ x + 1 < COLUMNS => (x + 1) + y * COLUMNS = (x + y * COLUMNS) + 1
         /\ x + 1 >= COLUMNS /\ y + 1 < LINES => 0 + (y + 1) * COLUMNS = (x + y * COLUMNS) + 1
         /\ x + 1 >= COLUMNS /\ y + 1 >= LINES => (x + y * COLUMNS) + 1 = ScreenSize
<1>1. LINES \in Nat /\ COLUMNS \in Nat /\ COLUMNS >= 1 /\ LINES >= 1 /\ x \in Nat /\ y \in Nat
  BY ConsoleAssumption
<1>2. (y + 1) * COLUMNS = y * COLUMNS + COLUMNS /\ y * COLUMNS \in Nat
  BY <1>1
<1>3. y + 1 >= LINES => LINES = y + 1
  BY <1>1
<1>4. x + 1 >= COLUMNS => COLUMNS = x + 1
  BY <1>1
<1> QED  BY <1>1, <1>2, <1>3, <1>4 DEF ScreenSize

\* A position from the start of a field that fits the screen.
LEMMA Wraps ==
  ASSUME NEW M \in Nat, M > 0, NEW a \in 0 .. M - 1, NEW k \in 0 .. M
  PROVE  (a + k) % M = IF a + k < M THEN a + k ELSE a + k - M
  OBVIOUS

\* The characters the console itself writes, and those of numbers and strings.
LEMMA CharFacts ==
  /\ "0" \in Chars /\ Space \in Chars /\ "a" \in Chars /\ Blank \in Chars /\ Newline \in Chars
  /\ DigitSet \cup {Minus} \subseteq Chars
  BY Zenon DEF Chars, DigitSet

\* What printf gives putchar is the field.
LEMMA FieldFacts ==
  ASSUME NEW pad0 \in BOOLEAN, NEW pad \in Nat, NEW text \in Seq(Chars)
  PROVE  LET f == Padding(pad0, pad, text) \o text
         IN  /\ f \in Seq(Chars) /\ Len(f) = Width(pad, text)
             /\ \A k \in 1 .. Len(f) : f[k] = FieldChar(pad0, pad, text, k)
<1> DEFINE c == IF pad0 THEN "0" ELSE Space
           n == IF pad > Len(text) THEN pad - Len(text) ELSE 0
           p == Padding(pad0, pad, text)
           f == p \o text
<1>1. c \in Chars
  BY CharFacts, Zenon
<1>2. p = [k \in 1 .. n |-> c]
  BY Zenon DEF Padding
<1> HIDE DEF c
<1>0. n \in Nat /\ Len(text) \in Nat
  OBVIOUS
<1>3. n = Width(pad, text) - Len(text) /\ Width(pad, text) \in Nat
  BY <1>0 DEF Width
<1> HIDE DEF n, p
<1>4. p \in Seq(Chars) /\ Len(p) = n /\ \A k \in 1 .. n : p[k] = c
  BY <1>0, <1>1, <1>2
<1>5. f \in Seq(Chars) /\ Len(f) = n + Len(text)
  BY <1>0, <1>1, <1>4
<1>6. ASSUME NEW k \in 1 .. Len(f) PROVE f[k] = FieldChar(pad0, pad, text, k)
  <2>1. f[k] = IF k <= n THEN p[k] ELSE text[k - n]
    BY <1>0, <1>1, <1>4, <1>5
  <2>2. CASE k <= n
    <3>1. k \in 1 .. n /\ ~ (k > Width(pad, text) - Len(text))
      BY <1>0, <1>1, <1>3, <2>2
    <3> QED  BY <1>4, <2>1, <2>2, <3>1, Zenon DEF FieldChar, c
  <2>3. CASE ~ (k <= n)
    <3>1. k > Width(pad, text) - Len(text) /\ n = Width(pad, text) - Len(text)
      BY <1>0, <1>1, <1>3, <2>3
    <3> QED  BY <2>1, <2>3, <3>1, Zenon DEF FieldChar
  <2> QED  BY <2>2, <2>3, Zenon
<1> HIDE DEF f
<1>7. /\ f \in Seq(Chars) /\ Len(f) = Width(pad, text)
      /\ \A k \in 1 .. Len(f) : f[k] = FieldChar(pad0, pad, text, k)
  BY <1>0, <1>1, <1>3, <1>5, <1>6
<1> QED  BY <1>7, Zenon DEF f, p

\* A field whose text has no newline has none.
LEMMA PlainField ==
  ASSUME NEW pad0 \in BOOLEAN, NEW pad \in Nat, NEW text \in Seq(Chars), Plain(text),
         NEW k \in 1 .. Width(pad, text)
  PROVE  FieldChar(pad0, pad, text, k) # Newline
<1>1. Len(text) \in Nat /\ Width(pad, text) \in Nat /\ Width(pad, text) >= Len(text)
  BY DEF Width
<1>2. CASE k > Width(pad, text) - Len(text)
  <2>1. k - (Width(pad, text) - Len(text)) \in 1 .. Len(text)
    BY <1>1, <1>2
  <2> QED  BY <1>2, <2>1, Zenon DEF FieldChar, Plain
<1>3. CASE ~ (k > Width(pad, text) - Len(text))
  BY <1>3, Zenon DEF FieldChar, Newline, Space
<1> QED  BY <1>2, <1>3, Zenon

\* kernel_start finds a cleared screen.
LEMMA ConsoleInitInv == ConsoleInit => ConsoleInv
<1> SUFFICES ASSUME ConsoleInit PROVE ConsoleInv
  OBVIOUS
<1>1. LINES \in Nat /\ COLUMNS \in Nat /\ COLUMNS >= 1 /\ LINES >= 1
  BY ConsoleAssumption
<1>2. CursorOnScreen
  BY <1>1 DEF ConsoleInit, CursorOnScreen
<1>3. Cursor = 0 /\ 0 \in 0 .. ScreenSize - 1 /\ ScreenSize \in Nat
  BY <1>1, CursorPosition DEF ConsoleInit, Cursor, ScreenSize
<1>4. video \in [0 .. ScreenSize - 1 -> Chars]
  BY CharFacts, Zenon DEF ConsoleInit, Cleared, ScreenSize
<1>5. /\ call.text = <<>> /\ call.pad = 0 /\ call.pad0 = FALSE /\ call.at = 0
      /\ call.conv = "none" /\ out = <<>>
  BY Zenon DEF ConsoleInit, NoCall
<1>6. Width(call.pad, call.text) = 0 /\ Done = 0 /\ Len(out) = 0
  BY <1>5 DEF Width, Done
<1>7. CallType
  <2>1. <<>> \in Seq(Chars) /\ 0 \in Nat
    OBVIOUS
  <2> QED  BY <1>3, <1>5, <2>1, Zenon DEF CallType
<1>8. OutIsRest
  BY <1>5, <1>6 DEF OutIsRest
<1>9. 0 % ScreenSize = 0
  BY <1>3
<1>10. DoneOnScreen
  BY <1>3, <1>5, <1>6, <1>9 DEF DoneOnScreen
<1> QED  BY <1>2, <1>4, <1>5, <1>7, <1>8, <1>10, Zenon DEF ConsoleInv

\* putchar puts the next character of the field where the cursor is.
LEMMA PutcharInv == ConsoleInv /\ putchar => ConsoleInv'
<1> SUFFICES ASSUME ConsoleInv, putchar PROVE ConsoleInv'
  OBVIOUS
<1> DEFINE W == Width(call.pad, call.text)
           F(k) == FieldChar(call.pad0, call.pad, call.text, k)
           M == ScreenSize
           c == Head(out)
<1>1. /\ LINES \in Nat /\ COLUMNS \in Nat /\ COLUMNS >= 1 /\ LINES >= 1
      /\ xpos \in 0 .. COLUMNS - 1 /\ ypos \in 0 .. LINES - 1
  BY ConsoleAssumption DEF ConsoleInv, CursorOnScreen
<1>2. /\ out \in Seq(Chars) /\ out # <<>> /\ Len(out) \in Nat /\ Len(out) >= 1
      /\ out' \in Seq(Chars) /\ Len(out') = Len(out) - 1 /\ c = out[1] /\ c \in Chars
      /\ \A k \in 1 .. Len(out) - 1 : out'[k] = out[k + 1]
  BY DEF ConsoleInv, OutIsRest, putchar
<1>3. /\ W \in Nat /\ Len(out) <= W /\ Done \in Nat /\ Done = W - Len(out)
      /\ call' = call /\ Done' = Done + 1 /\ W' = W
  BY <1>2 DEF ConsoleInv, OutIsRest, CallType, Width, Done, putchar
<1>4. /\ Cursor \in 0 .. M - 1 /\ M \in Nat /\ M > 0
  BY <1>1, CursorPosition DEF Cursor, ScreenSize
<1>5. CursorOnScreen'
  BY <1>1 DEF putchar, NewLine, CursorOnScreen
<1>6. video' \in [0 .. M - 1 -> Chars]
  BY <1>2, <1>4, Zenon DEF ConsoleInv, putchar, Cursor
<1>7. c = F(Done + 1)
  BY <1>2, <1>3 DEF ConsoleInv, OutIsRest
<1>8. OutIsRest'
  <2>1. ASSUME NEW k \in 1 .. Len(out) - 1 PROVE out'[k] = F(Done + 1 + k)
    <3>1. k + 1 \in 1 .. Len(out) /\ Done + (k + 1) = Done + 1 + k
      BY <1>2, <1>3
    <3> QED  BY <1>2, <3>1, Zenon DEF ConsoleInv, OutIsRest
  <2> QED  BY <1>2, <1>3, <2>1 DEF OutIsRest
<1>9. ASSUME Plain(call.text), W <= M
      PROVE  /\ Cursor' = (call.at + (Done + 1)) % M
             /\ \A k \in 1 .. Done + 1 : video'[(call.at + k - 1) % M] = F(k)
  <2>1. Done + 1 \in 1 .. W /\ Done \in 0 .. M - 1
    BY <1>2, <1>3, <1>4, <1>9
  <2>2. c # Newline
    BY <1>7, <1>9, <2>1, PlainField, Zenon DEF ConsoleInv, CallType
  <2>3. /\ Cursor = (call.at + Done) % M
        /\ \A k \in 1 .. Done : video[(call.at + k - 1) % M] = F(k)
    BY <1>9, Zenon DEF ConsoleInv, DoneOnScreen
  <2>4. call.at \in 0 .. M - 1
    BY Zenon DEF ConsoleInv, CallType
  <2>5. Cursor' = IF Cursor + 1 < M THEN Cursor + 1 ELSE 0
    <3>1. /\ (xpos + 1 < COLUMNS => xpos' = xpos + 1 /\ ypos' = ypos)
          /\ (xpos + 1 >= COLUMNS /\ ypos + 1 < LINES => xpos' = 0 /\ ypos' = ypos + 1)
          /\ (xpos + 1 >= COLUMNS /\ ypos + 1 >= LINES => xpos' = 0 /\ ypos' = 0)
      BY <1>1, <2>2 DEF putchar, NewLine
    <3>2. Cursor' = xpos' + ypos' * COLUMNS /\ Cursor' \in 0 .. M - 1
      BY <1>5, CursorPosition, Zenon DEF Cursor, CursorOnScreen
    <3>3. CASE xpos + 1 < COLUMNS
      <4>1. Cursor' = Cursor + 1
        BY <1>1, <3>1, <3>2, <3>3, NextPosition, Zenon DEF Cursor
      <4> QED  BY <1>4, <3>2, <4>1
    <3>4. CASE xpos + 1 >= COLUMNS /\ ypos + 1 < LINES
      <4>1. Cursor' = Cursor + 1
        BY <1>1, <3>1, <3>2, <3>4, NextPosition, Zenon DEF Cursor
      <4> QED  BY <1>4, <3>2, <4>1
    <3>5. CASE xpos + 1 >= COLUMNS /\ ypos + 1 >= LINES
      <4>1. Cursor + 1 = M
        BY <1>1, <3>5, NextPosition, Zenon DEF Cursor
      <4>2. Cursor' = 0
        BY <1>1, <3>1, <3>2, <3>5
      <4> QED  BY <1>4, <4>1, <4>2
    <3> QED  BY <1>1, <3>3, <3>4, <3>5
  <2>6. \A k \in 0 .. M : (call.at + k) % M = IF call.at + k < M THEN call.at + k ELSE call.at + k - M
    BY <1>4, <2>4, Wraps, Zenon
  <2>7. Cursor' = (call.at + (Done + 1)) % M
    <3>1. Done \in 0 .. M /\ Done + 1 \in 0 .. M
      BY <1>4, <2>1
    <3> DEFINE p(k) == (call.at + k) % M
    <3>2. p(Done) = IF call.at + Done < M THEN call.at + Done ELSE call.at + Done - M
      BY <2>6, <3>1, Zenon
    <3>3. p(Done + 1) = IF call.at + (Done + 1) < M THEN call.at + (Done + 1)
                        ELSE call.at + (Done + 1) - M
      BY <2>6, <3>1, Zenon
    <3>4. Cursor = p(Done)
      BY <2>3, Zenon
    <3> HIDE DEF p
    <3>5. Cursor' = p(Done + 1)
      BY <1>4, <2>1, <2>4, <2>5, <3>2, <3>3, <3>4
    <3> QED  BY <3>5, Zenon DEF p
  <2>8. video' = [video EXCEPT ![Cursor] = c] /\ video \in [0 .. M - 1 -> Chars]
    BY <2>2, Zenon DEF putchar, Cursor, ConsoleInv
  <2>9. ASSUME NEW k \in 1 .. Done + 1 PROVE video'[(call.at + k - 1) % M] = F(k)
    <3>1. /\ k - 1 \in 0 .. M /\ Done \in 0 .. M /\ call.at + k - 1 = call.at + (k - 1)
          /\ call.at \in Nat /\ Done \in Nat
      BY <1>3, <1>4, <2>1, <2>4
    <3>2. (call.at + (k - 1)) % M \in 0 .. M - 1
      BY <1>4, <2>1, <2>4, <2>6, <3>1
    <3>3. CASE k = Done + 1
      <4>1. (call.at + k - 1) % M = Cursor
        BY <2>3, <3>1, <3>3
      <4> QED  BY <1>4, <1>7, <2>8, <3>3, <4>1, Zenon
    <3>4. CASE k \in 1 .. Done
      <4>1. (call.at + (k - 1)) % M # (call.at + Done) % M
        <5> DEFINE p(m) == (call.at + m) % M
        <5>1. p(Done) = IF call.at + Done < M THEN call.at + Done ELSE call.at + Done - M
          BY <2>6, <3>1, Zenon
        <5>2. p(k - 1) = IF call.at + (k - 1) < M THEN call.at + (k - 1)
                         ELSE call.at + (k - 1) - M
          BY <2>6, <3>1, Zenon
        <5> HIDE DEF p
        <5>3. p(k - 1) # p(Done)
          BY <1>4, <2>1, <2>4, <3>4, <5>1, <5>2
        <5> QED  BY <5>3, Zenon DEF p
      <4> QED  BY <1>4, <2>3, <2>8, <3>1, <3>2, <3>4, <4>1, Zenon
    <3> QED  BY <2>1, <3>3, <3>4
  <2> QED  BY <2>7, <2>9, Zenon
<1>10. DoneOnScreen'
  BY <1>3, <1>9, Zenon DEF DoneOnScreen, ScreenSize
<1> QED  BY <1>3, <1>5, <1>6, <1>8, <1>10, Zenon DEF ConsoleInv, CallType, ScreenSize

\* printf begins a directive where the cursor is.
LEMMA DirectiveInv ==
  ASSUME NEW conv, NEW arg, NEW pad0 \in BOOLEAN, NEW pad \in Nat, NEW text \in Seq(Chars),
         conv \in {"d", "u", "x"} => NumberText(conv, arg, text),
         ConsoleInv, Directive(conv, arg, pad0, pad, text)
  PROVE  ConsoleInv'
<1>1. /\ call'.conv = conv /\ call'.arg = arg /\ call'.pad0 = pad0 /\ call'.pad = pad
      /\ call'.text = text /\ call'.at = Cursor
  BY Zenon DEF Directive, Cursor
<1>2. video' = video /\ xpos' = xpos /\ ypos' = ypos /\ Cursor' = Cursor
  BY Zenon DEF Directive, Cursor
<1> DEFINE f == Padding(pad0, pad, text) \o text
<1>3. out' = f
  BY Zenon DEF Directive
<1>4. /\ f \in Seq(Chars) /\ Len(f) = Width(pad, text)
      /\ \A k \in 1 .. Len(f) : f[k] = FieldChar(pad0, pad, text, k)
  BY FieldFacts, Zenon
<1> HIDE DEF f
<1>5. Cursor \in 0 .. ScreenSize - 1 /\ ScreenSize \in Nat
  BY CursorPosition, ConsoleAssumption DEF ConsoleInv, CursorOnScreen, Cursor, ScreenSize
<1>6. CallType'
  BY <1>1, <1>5, Zenon DEF CallType, ScreenSize
<1>7. /\ Width(call'.pad, call'.text) = Width(pad, text) /\ Len(out') = Width(pad, text)
      /\ Width(pad, text) \in Nat
  BY <1>1, <1>3, <1>4 DEF Width
<1>8. Done' = 0
  BY <1>7 DEF Done
<1>9. OutIsRest'
  <2>1. \A k \in 1 .. Len(out') : 0 + k = k
    BY <1>7
  <2> QED  BY <1>1, <1>3, <1>4, <1>7, <1>8, <2>1 DEF OutIsRest
<1>10. DoneOnScreen'
  <2>1. Cursor + 0 = Cursor /\ Cursor % ScreenSize = Cursor
    BY <1>5
  <2>2. 1 .. 0 = {}
    OBVIOUS
  <2> QED  BY <1>1, <1>2, <1>8, <2>1, <2>2, Zenon DEF DoneOnScreen, ScreenSize
<1>11. /\ CursorOnScreen' /\ (video \in [0 .. ScreenSize - 1 -> Chars])'
       /\ (call.conv \in {"d", "u", "x"} => NumberText(call.conv, call.arg, call.text))'
  BY <1>1, <1>2, Zenon DEF ConsoleInv, CursorOnScreen, ScreenSize
<1> QED  BY <1>6, <1>9, <1>10, <1>11, Zenon DEF ConsoleInv

\* cls leaves what kernel_start finds.
LEMMA ClsInv == ConsoleInv /\ cls => ConsoleInv'
<1> SUFFICES ASSUME ConsoleInv, cls PROVE ConsoleInv'
  OBVIOUS
<1>1. LINES \in Nat /\ COLUMNS \in Nat /\ COLUMNS >= 1 /\ LINES >= 1
  BY ConsoleAssumption
<1>2. CursorOnScreen'
  BY <1>1 DEF cls, CursorOnScreen
<1>3. Cursor' = 0 /\ 0 \in 0 .. ScreenSize - 1 /\ ScreenSize \in Nat
  BY <1>1, CursorPosition DEF cls, Cursor, ScreenSize
<1>4. (video \in [0 .. ScreenSize - 1 -> Chars])'
  BY CharFacts, Zenon DEF cls, Cleared, ScreenSize
<1>5. /\ call'.text = <<>> /\ call'.pad = 0 /\ call'.pad0 = FALSE /\ call'.at = 0
      /\ call'.conv = "none" /\ out' = <<>>
  BY Zenon DEF cls, NoCall
<1>6. Width(call'.pad, call'.text) = 0 /\ Done' = 0 /\ Len(out') = 0
  BY <1>5 DEF Width, Done
<1>7. CallType'
  <2>1. <<>> \in Seq(Chars) /\ 0 \in Nat
    OBVIOUS
  <2> QED  BY <1>3, <1>5, <2>1, Zenon DEF CallType, ScreenSize
<1>8. OutIsRest'
  BY <1>5, <1>6 DEF OutIsRest
<1>9. 0 % ScreenSize = 0
  BY <1>3
<1>10. DoneOnScreen'
  BY <1>3, <1>5, <1>6, <1>9 DEF DoneOnScreen, ScreenSize
<1> QED  BY <1>2, <1>4, <1>5, <1>7, <1>8, <1>10, Zenon DEF ConsoleInv

\* Every step of the console keeps the invariant.
LEMMA ConsoleNextInv == ConsoleInv /\ [ConsoleNext]_screen => ConsoleInv'
<1> SUFFICES ASSUME ConsoleInv, [ConsoleNext]_screen PROVE ConsoleInv'
  OBVIOUS
<1>1. CASE cls
  BY <1>1, ClsInv, Zenon
<1>2. CASE putchar
  BY <1>2, PutcharInv, Zenon
<1>3. CASE PrintNumber
  <2>1. PICK conv \in {"d", "u", "x"}, d \in Ints, pad0 \in BOOLEAN, pad \in Pads :
          Directive(conv, d, pad0, pad, itoa(conv, d))
    BY <1>3, Zenon DEF PrintNumber
  <2>2. itoa(conv, d) \in Seq(Chars) /\ NumberText(conv, d, itoa(conv, d))
    BY ItoaReads, CharFacts, WiderSequence, Zenon
  <2>3. pad \in Nat
    BY ConsoleAssumption
  <2> QED  BY <2>1, <2>2, <2>3, DirectiveInv, Zenon
<1>4. CASE PrintString
  <2>1. PICK s \in Strings, pad0 \in BOOLEAN, pad \in Pads : Directive("s", 0, pad0, pad, s)
    BY <1>4, Zenon DEF PrintString
  <2>2. s \in Seq(STRING)
    BY ConsoleAssumption, Zenon
  <2>3. STRING \subseteq Chars
    BY Zenon DEF Chars
  <2>4. s \in Seq(Chars)
    BY <2>2, <2>3, WiderSequence, Zenon
  <2>5. "s" \notin {"d", "u", "x"}
    OBVIOUS
  <2>6. pad \in Nat
    BY ConsoleAssumption
  <2> QED  BY <2>1, <2>4, <2>5, <2>6, DirectiveInv, Zenon
<1>5. CASE PrintChar
  <2>1. PICK c \in {Newline, "a"} : Directive("c", 0, FALSE, 0, <<c>>)
    BY <1>5, Zenon DEF PrintChar
  <2>2. c \in Chars
    BY CharFacts, Zenon
  <2>3. <<c>> \in Seq(Chars) /\ 0 \in Nat /\ FALSE \in BOOLEAN
    BY <2>2
  <2>4. "c" \notin {"d", "u", "x"}
    OBVIOUS
  <2> QED  BY <2>1, <2>3, <2>4, DirectiveInv, Zenon
<1>6. CASE UNCHANGED screen
  BY <1>6, Zenon DEF screen, ConsoleInv, CursorOnScreen, CallType, OutIsRest, DoneOnScreen, Cursor, Done
<1> QED  BY <1>1, <1>2, <1>3, <1>4, <1>5, <1>6, Zenon DEF ConsoleNext

\* putchar writes inside the screen, for every size of it.
THEOREM ConsoleCursor == ConsoleSpec => []CursorOnScreen
<1>1. ConsoleInv => CursorOnScreen
  BY Zenon DEF ConsoleInv
<1> QED  BY <1>1, ConsoleInitInv, ConsoleNextInv, PTL DEF ConsoleSpec

\* Every number printed reads as the int printf was given, for ints of every
\* width up to the code's: the smallest one, whose opposite is no int, included.
THEOREM ConsoleNumbers == ConsoleSpec => []NumberReads
<1>1. ConsoleInv => NumberReads
  BY Zenon DEF ConsoleInv, NumberReads, NumberText
<1> QED  BY <1>1, ConsoleInitInv, ConsoleNextInv, PTL DEF ConsoleSpec

\* What a directive printed is on the screen, for every screen, string and
\* field width.
THEOREM ConsoleText == ConsoleSpec => []TextOnScreen
<1>1. ConsoleInv => TextOnScreen
  <2> SUFFICES ASSUME ConsoleInv, out = <<>>, Plain(call.text),
                      Width(call.pad, call.text) <= ScreenSize
               PROVE  /\ Cursor = (call.at + Width(call.pad, call.text)) % ScreenSize
                      /\ \A k \in 1 .. Width(call.pad, call.text) :
                           video[(call.at + (k - 1)) % ScreenSize] =
                             FieldChar(call.pad0, call.pad, call.text, k)
    BY Zenon DEF TextOnScreen, Plain, Width, ScreenSize, Cursor, FieldChar
  <2>1. Width(call.pad, call.text) \in Nat /\ call.at \in Nat
    BY DEF ConsoleInv, CallType, Width
  <2>2. Done = Width(call.pad, call.text)
    BY <2>1 DEF Done
  <2>3. \A k \in 1 .. Done : call.at + k - 1 = call.at + (k - 1)
    BY <2>1, <2>2, Zenon
  <2> QED  BY <2>2, <2>3, Zenon DEF ConsoleInv, DoneOnScreen
<1> QED  BY <1>1, ConsoleInitInv, ConsoleNextInv, PTL DEF ConsoleSpec

-----------------------------------------------------------------------------
(* The page allocator.                                                     *)

\* NoPageTwice is not inductive: what keeps ReqPage from handing a page out
\* again is its bit, and what keeps RelPage from clearing the bit of a page in
\* use is that no two pages in use share one.
Consistent(q, ps) ==
    /\ DOMAIN q \subseteq UPages \cup Pages
    /\ \A u \in DOMAIN q : q[u] \in Pages
    /\ \A u \in DOMAIN q : q[u] # 0 =>
         q[u] >= kDynamicMappingStartPage /\ IsBitmapSet(ps, q[u])
    /\ \A u, v \in DOMAIN q :
         q[u] # 0 /\ q[v] # 0 /\ BitOf(q[u]) = BitOf(q[v]) => u = v

PagesInv ==
    /\ init.t # 0 => DOMAIN pte = {}
    /\ Consistent(pte, page_state)

\* A non-empty set of numbers has a least one.
LEMMA LeastExists ==
  ASSUME NEW S, S \subseteq Nat, S # {}
  PROVE  (CHOOSE n \in S : \A k \in S : n <= k) \in S
BY Least, Zenon

\* ReqPage returns a free page whenever there is one.
LEMMA ReqPageIsFree ==
  ASSUME FreePages # {}
  PROVE  ReqPage \in FreePages
<1>1. FreePages \subseteq Nat
  BY PageAssumption DEF FreePages
<1> QED BY <1>1, LeastExists, Zenon DEF ReqPage

\* What ReqPage leaves: the page it returns, if any, is out of the direct
\* mapping area, its bit was clear and is the only one to be set.
LEMMA ReqPageFacts ==
  /\ ReqPage \in Pages
  /\ page_state \subseteq AfterReqPage
  /\ ReqPage # 0 =>
       /\ ReqPage >= kDynamicMappingStartPage
       /\ ~ IsBitmapSet(page_state, ReqPage)
       /\ IsBitmapSet(AfterReqPage, ReqPage)
<1>1. CASE FreePages = {}
  BY <1>1, PageAssumption DEF ReqPage, AfterReqPage, Pages
<1>2. CASE FreePages # {}
  <2>1. ReqPage \in FreePages
    BY <1>2, ReqPageIsFree, Zenon
  <2>2. /\ ReqPage \in kDynamicMappingStartPage .. kVirtualPageNum - 1
        /\ ~ IsBitmapSet(page_state, ReqPage)
    BY <2>1, Zenon DEF FreePages
  <2>3. ReqPage >= kDynamicMappingStartPage /\ ReqPage \in Pages
    BY <2>2, PageAssumption DEF Pages
  <2>4. AfterReqPage = page_state \cup {BitOf(ReqPage)}
    BY <1>2, Zenon DEF AfterReqPage, SetBitmap
  <2> QED BY <2>2, <2>3, <2>4, Zenon DEF IsBitmapSet
<1> QED BY <1>1, <1>2, Zenon

\* A page table entry set to the page ReqPage returns, as PfHandler does.
LEMMA SetPteConsistent ==
  ASSUME Consistent(pte, page_state), NEW u \in UPages \cup Pages, u \notin DOMAIN pte
  PROVE  Consistent(SetPte(u, ReqPage), AfterReqPage)
<1> DEFINE q == SetPte(u, ReqPage)
           f == ReqPage
           ps == AfterReqPage
<1>1. /\ DOMAIN q = DOMAIN pte \cup {u}
      /\ \A v \in DOMAIN pte : q[v] = pte[v]
      /\ q[u] = f
  BY Zenon DEF SetPte
<1>2. /\ f \in Pages
      /\ page_state \subseteq ps
      /\ f # 0 => /\ f >= kDynamicMappingStartPage
                  /\ BitOf(f) \notin page_state
                  /\ BitOf(f) \in ps
  BY ReqPageFacts, Zenon DEF IsBitmapSet
<1>3. /\ DOMAIN pte \subseteq UPages \cup Pages
      /\ \A v \in DOMAIN pte : pte[v] \in Pages
      /\ \A v \in DOMAIN pte : pte[v] # 0 =>
           pte[v] >= kDynamicMappingStartPage /\ BitOf(pte[v]) \in page_state
      /\ \A v, w \in DOMAIN pte :
           pte[v] # 0 /\ pte[w] # 0 /\ BitOf(pte[v]) = BitOf(pte[w]) => v = w
  BY Zenon DEF Consistent, IsBitmapSet
<1> HIDE DEF q, f, ps
<1>4. DOMAIN q \subseteq UPages \cup Pages /\ \A v \in DOMAIN q : q[v] \in Pages
  BY <1>1, <1>2, <1>3, Zenon
<1>5. \A v \in DOMAIN q : q[v] # 0 =>
        q[v] >= kDynamicMappingStartPage /\ BitOf(q[v]) \in ps
  BY <1>1, <1>2, <1>3
<1>6. \A v, w \in DOMAIN q :
        q[v] # 0 /\ q[w] # 0 /\ BitOf(q[v]) = BitOf(q[w]) => v = w
  BY <1>1, <1>2, <1>3, Zenon
<1>7. Consistent(q, ps)
  BY <1>4, <1>5, <1>6, Zenon DEF Consistent, IsBitmapSet
<1> QED BY <1>7, Zenon DEF q, ps, f

\* An entry dropped, with or without its bit cleared.
LEMMA DropConsistent ==
  ASSUME NEW q, NEW ps, Consistent(q, ps), NEW u \in DOMAIN q
  PROVE  LET r == [v \in DOMAIN q \ {u} |-> q[v]]
         IN  /\ Consistent(r, ps)
             /\ q[u] # 0 => Consistent(r, ClearBitmap(ps, q[u]))
<1> DEFINE r == [v \in DOMAIN q \ {u} |-> q[v]]
<1>1. DOMAIN r \subseteq DOMAIN q /\ u \notin DOMAIN r
      /\ \A v \in DOMAIN r : r[v] = q[v]
  OBVIOUS
<1> HIDE DEF r
<1>2. Consistent(r, ps)
  BY <1>1, Zenon DEF Consistent
<1>3. ASSUME q[u] # 0 PROVE Consistent(r, ClearBitmap(ps, q[u]))
  <2>1. \A v \in DOMAIN r : r[v] # 0 => BitOf(r[v]) # BitOf(q[u])
    BY <1>1, <1>3, Zenon DEF Consistent
  <2>2. \A v \in DOMAIN r : r[v] # 0 => IsBitmapSet(ClearBitmap(ps, q[u]), r[v])
    BY <1>2, <2>1, Zenon DEF Consistent, ClearBitmap, IsBitmapSet
  <2> QED BY <1>2, <2>2, Zenon DEF Consistent
<1> QED BY <1>2, <1>3, Zenon DEF r

\* Nothing is mapped before the allocator is initialised.
LEMMA PagesInit == PageInit => PagesInv
BY Zenon DEF PageInit, PagesInv, Consistent

\* PageAllocatorInit, a page fault and the release of a page, with the fault
\* it may take, keep the invariant.
LEMMA PagesStep == PagesInv /\ [PageNext]_page_vars => PagesInv'
<1> SUFFICES ASSUME PagesInv, [PageNext]_page_vars PROVE PagesInv'
  OBVIOUS
<1>1. CASE InitEntry \/ InitRest
  <2>1. init.t # 0 /\ pte' = pte
    BY <1>1 DEF InitEntry, InitRest
  <2>2. DOMAIN pte' = {}
    BY <2>1, Zenon DEF PagesInv
  <2> QED BY <2>2, Zenon DEF PagesInv, Consistent
<1>2. ASSUME NEW u \in UPages, PfHandler(u) PROVE PagesInv'
  <2>1. /\ pte' = SetPte(u, ReqPage) /\ page_state' = AfterReqPage
        /\ u \notin DOMAIN pte /\ init.t = 0 /\ init' = init
    BY <1>2, Zenon DEF PfHandler
  <2>2. Consistent(SetPte(u, ReqPage), AfterReqPage)
    BY <2>1, SetPteConsistent, Zenon DEF PagesInv
  <2>3. Consistent(pte', page_state')
    BY <2>1, <2>2, Zenon
  <2> QED BY <2>1, <2>3, Zenon DEF PagesInv, Consistent
<1>3. ASSUME NEW u \in UPages, RelPage(u) PROVE PagesInv'
  <2> DEFINE n == pte[u]
             fault == n \notin DOMAIN pte
             kernel == IF fault THEN SetPte(n, ReqPage) ELSE pte
             ps == IF fault THEN AfterReqPage ELSE page_state
  <2>1. u \in DOMAIN pte /\ init.t = 0 /\ init' = init
    BY <1>3, Zenon DEF RelPage
  <2>2. n \in Pages /\ n # u
    <3>1. n \in Pages
      BY <2>1, Zenon DEF PagesInv, Consistent
    <3>2. UPages \cap Nat = {} /\ Pages \subseteq Nat
      BY PageAssumption DEF Pages
    <3> QED  BY <3>1, <3>2, Zenon
  <2>3. Consistent(kernel, ps) /\ u \in DOMAIN kernel /\ kernel[u] = n
    <3>1. CASE fault
      <4>1. Consistent(SetPte(n, ReqPage), AfterReqPage)
        BY <2>2, <3>1, SetPteConsistent, Zenon DEF PagesInv
      <4>2. /\ u \in DOMAIN SetPte(n, ReqPage)
            /\ SetPte(n, ReqPage)[u] = n
        BY <2>1, <2>2, Zenon DEF SetPte
      <4> QED BY <3>1, <4>1, <4>2, Zenon
    <3>2. CASE ~ fault
      BY <2>1, <3>2, Zenon DEF PagesInv
    <3> QED BY <3>1, <3>2, Zenon
  <2>4. \/ /\ n # 0
           /\ pte' = [v \in DOMAIN kernel \ {u} |-> kernel[v]]
           /\ page_state' = ClearBitmap(ps, n)
        \/ /\ pte' = [v \in DOMAIN pte \ {u} |-> pte[v]]
           /\ page_state' = page_state
    BY <1>3, Zenon DEF RelPage
  <2> HIDE DEF kernel, ps
  <2>5. Consistent(pte', page_state')
    BY <2>1, <2>3, <2>4, DropConsistent DEF PagesInv
  <2> QED BY <2>1, <2>5, Zenon DEF PagesInv, Consistent
<1>4. CASE UNCHANGED page_vars
  BY <1>4, Zenon DEF page_vars, PagesInv, Consistent
<1> QED BY <1>1, <1>2, <1>3, <1>4, Zenon DEF PageNext

\* The page table entries and the bitmap agree from boot on.
THEOREM PagesHold == PageSpec => []PagesInv
BY PagesInit, PagesStep, PTL DEF PageSpec

\* No physical page but page 0 is ever mapped twice.
THEOREM NoPageMappedTwice == PageSpec => []NoPageTwice
<1>1. PagesInv => NoPageTwice
  BY Zenon DEF PagesInv, Consistent, NoPageTwice
<1> QED BY <1>1, PagesHold, PTL

\* A page in use is never taken for a free one.
THEOREM UsedPagesMarked == PageSpec => []PagesInUseAreSet
<1>1. PagesInv => PagesInUseAreSet
  BY Zenon DEF PagesInv, Consistent, PagesInUseAreSet
<1> QED BY <1>1, PagesHold, PTL

-----------------------------------------------------------------------------
(* The types, which rest on PageAllocatorInit staying inside the bitmap.    *)

PageTypes ==
    /\ PageTypeOK
    /\ init \in [t : Nat, page : Pages]

\* The last page of the address space ends no entry of the map, so the search
\* of PageAllocatorInit stops at a page.
LEMMA InitEntryTypes == ASSUME PageTypes, InitEntry PROVE PageTypes'
<1> DEFINE t == avl_mem[init.t]
           gap == {n \in Pages : n >= init.page /\ GetPagePhysAddr(n) < t.addr}
           rest == {n \in Pages \ gap : n >= init.page}
           avl == {n \in rest : GetPagePhysAddr(n) + PageSize <= t.addr + t.size}
           next == CHOOSE n \in rest \ avl : \A k \in rest \ avl : n <= k
           last == kVirtualPageNum - 1
<1>1. /\ init.t \in 1 .. Len(avl_mem)
      /\ page_state' = (page_state \cup {BitOf(n) : n \in gap}) \ {BitOf(n) : n \in avl}
      /\ init' = [t |-> init.t + 1, page |-> next]
      /\ avl_mem' = avl_mem /\ pte' = pte
  BY Zenon DEF InitEntry
<1>2. /\ t.addr \in Nat /\ t.size \in Nat
      /\ t.addr + t.size <= last * PageSize
  BY <1>1, PageAssumption, Zenon DEF PageTypes, PageTypeOK
<1>3. /\ last \in Pages /\ last >= init.page
      /\ PageSize \in Nat /\ PageSize > 0 /\ GetPagePhysAddr(last) = last * PageSize
      /\ last * PageSize \in Nat
  BY PageAssumption DEF PageTypes, Pages, GetPagePhysAddr
<1>4. ~ (GetPagePhysAddr(last) < t.addr) /\ ~ (GetPagePhysAddr(last) + PageSize <= t.addr + t.size)
  <2> HIDE DEF t, last
  <2> QED BY <1>2, <1>3
<1>5. last \in rest \ avl
  BY <1>3, <1>4, Zenon
<1>6. rest \ avl \subseteq Pages /\ Pages \subseteq Nat /\ gap \subseteq Pages
  BY PageAssumption DEF Pages
<1> HIDE DEF rest, avl, gap, last
<1>7. next \in Pages
  <2>1. next \in rest \ avl
    BY <1>5, <1>6, LeastExists, Zenon
  <2> QED BY <1>6, <2>1, Zenon
<1>8. page_state' \subseteq {BitOf(n) : n \in Pages}
  BY <1>1, <1>6, Zenon DEF PageTypes, PageTypeOK
<1> HIDE DEF next
<1>9. init' \in [t : Nat, page : Pages] /\ init'.t \in Nat /\ init'.page \in Nat
  BY <1>1, <1>6, <1>7 DEF PageTypes, PageTypeOK
<1> QED BY <1>1, <1>8, <1>9, Zenon DEF PageTypes, PageTypeOK

\* ReqPage sets the bit of a page.
LEMMA AfterReqPageTypes ==
  ASSUME page_state \subseteq {BitOf(n) : n \in Pages}
  PROVE  AfterReqPage \subseteq {BitOf(n) : n \in Pages}
BY ReqPageFacts, Zenon DEF AfterReqPage, SetBitmap

\* Every step keeps the types.
LEMMA NextPageTypes == PageTypes /\ PagesInv /\ PagesInv' /\ [PageNext]_page_vars => PageTypes'
<1> SUFFICES ASSUME PageTypes, PagesInv, PagesInv', [PageNext]_page_vars PROVE PageTypes'
  OBVIOUS
<1>p. DOMAIN pte' \subseteq UPages \cup Pages /\ \A u \in DOMAIN pte' : pte'[u] \in Pages
  BY Zenon DEF PagesInv, Consistent
<1>1. CASE InitEntry
  BY <1>1, InitEntryTypes, Zenon
<1>2. CASE InitRest
  <2>1. page_state' \subseteq page_state /\ init' = [init EXCEPT !.t = 0] /\ avl_mem' = avl_mem
    BY <1>2, Zenon DEF InitRest
  <2>2. init' \in [t : Nat, page : Pages] /\ init'.t \in Nat /\ init'.page = init.page
    BY <2>1, Zenon DEF PageTypes
  <2> QED BY <1>p, <2>1, <2>2, Zenon DEF PageTypes, PageTypeOK
<1>3. ASSUME NEW u \in UPages, PfHandler(u) \/ RelPage(u) PROVE PageTypes'
  <2>1. avl_mem' = avl_mem /\ init' = init
    BY <1>3, Zenon DEF PfHandler, RelPage
  <2>2. page_state' \subseteq AfterReqPage \cup page_state
    BY <1>3, Zenon DEF PfHandler, RelPage, ClearBitmap
  <2>3. page_state' \subseteq {BitOf(n) : n \in Pages}
    BY <2>2, AfterReqPageTypes, Zenon DEF PageTypes, PageTypeOK
  <2> QED BY <1>p, <2>1, <2>3, Zenon DEF PageTypes, PageTypeOK
<1>4. CASE UNCHANGED page_vars
  BY <1>4, Zenon DEF page_vars, PageTypes, PageTypeOK
<1> QED BY <1>1, <1>2, <1>3, <1>4, Zenon DEF PageNext

\* PageAllocatorInit stays inside the bitmap for every memory map, and what is
\* mapped is a page.
THEOREM TypesHold == PageSpec => []PageTypeOK
<1>1. PageInit => PageTypes
  BY PageAssumption DEF PageInit, PageTypes, PageTypeOK, Pages
<1>2. PageTypes => PageTypeOK
  BY Zenon DEF PageTypes
<1> QED BY <1>1, <1>2, NextPageTypes, PagesHold, PTL DEF PageSpec

=============================================================================
