------------------------------- MODULE Lists -------------------------------
(***************************************************************************)
(* The circular singly linked list of lib/list.h and the queue that        *)
(* lib/queue.h builds on it, as operators on the memory they change.       *)
(*                                                                         *)
(* A memory `next' maps the address of every ListNode to the address its   *)
(* 'next' field holds.  NULL is an address like any other: the first 4 MB  *)
(* stay identity-mapped (memory/paging.c, PagingInit), so code that        *)
(* follows or writes a NULL node reads or changes the word at address 0    *)
(* and does not fault.  A module that can meet this keeps NULL in the      *)
(* domain of its memory.                                                   *)
(*                                                                         *)
(* A queue is a record [next, tail]; its head node is passed separately,   *)
(* as 'Queue.head' never changes after queue().                            *)
(***************************************************************************)
EXTENDS Naturals, Sequences, FiniteSets

CONSTANT NULL   \* the null pointer

\* ListAdd, with the aliasing of C: prev = new leaves the memory unchanged.
ListAdd(next, prev, new) ==
    [next EXCEPT ![prev] = new, ![new] = next[prev]]

\* ListRemove unlinks the node after prev; the node removed is next[prev].
ListRemove(next, prev) ==
    [next EXCEPT ![prev] = next[next[prev]], ![next[prev]] = NULL]

IsListEmpty(next, head) == next[head] = head

\* A loop that follows links from start to the first node p with stop[p].
\* After as many turns as there are nodes it has met every node it ever will:
\* if stop does not hold of the result, the loop never ends.
Walk(next, start, stop) ==
    LET turns == Cardinality(DOMAIN next)
        at[k \in 0 .. turns] ==
          IF k = 0 THEN start
          ELSE LET p == at[k - 1] IN IF stop[p] THEN p ELSE next[p]
    IN  at[turns]

\* queue(): the list made by List() is empty and the tail is its head.
EmptyQueue(next, head) == [next |-> [next EXCEPT ![head] = head], tail |-> head]

Enqueue(q, new) ==
    [next |-> ListAdd(q.next, q.tail, new), tail |-> new]

\* A Dequeue without the test that moves the tail back when the last goes.
DequeueKeepsTail(q, head) ==
    IF IsListEmpty(q.next, head)
      THEN q
      ELSE [q EXCEPT !.next = ListRemove(q.next, head)]

\* The queue after Dequeue; the value Dequeue returns is QueueGetHead(q, head).
Dequeue(q, head) ==
    IF IsListEmpty(q.next, head)
      THEN q
      ELSE [next |-> ListRemove(q.next, head),
            tail |-> IF q.next[head] = q.tail THEN head ELSE q.tail]

QueueGetHead(q, head) ==
    IF IsListEmpty(q.next, head) THEN NULL ELSE q.next[head]

-----------------------------------------------------------------------------
(* What it means for memory to hold a list or a queue.                     *)

\* The nodes met from head on, until the links lead back to head or nowhere.
NodesOf(next, head) ==
    LET turns == Cardinality(DOMAIN next)
        met[k \in 0 .. turns] ==
          IF k = 0 THEN <<>>
          ELSE LET s == met[k - 1]
                   p == IF s = <<>> THEN head ELSE s[Len(s)]
               IN  IF next[p] \in {head, NULL} THEN s ELSE Append(s, next[p])
    IN  met[turns]

\* The memory of a queue whose nodes, and head, have addresses in A.
QueueType(q, A) == q \in [next : [A -> A \cup {NULL}], tail : A]

Members(s) == {s[i] : i \in 1 .. Len(s)}

Distinct(s) == \A i, j \in 1 .. Len(s) : s[i] = s[j] => i = j

\* The links from head run through s in order and back to head, once each,
\* and the tail is the node before head: the comment on 'Queue'.
IsQueue(q, head, s) ==
    /\ Distinct(s)
    /\ head \notin Members(s)
    /\ q.next[head] = IF s = <<>> THEN head ELSE s[1]
    /\ \A i \in 1 .. Len(s) - 1 : q.next[s[i]] = s[i + 1]
    /\ s # <<>> => q.next[s[Len(s)]] = head
    /\ q.tail = IF s = <<>> THEN head ELSE s[Len(s)]

=============================================================================
