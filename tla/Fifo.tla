-------------------------------- MODULE Fifo --------------------------------
(***************************************************************************)
(* What lib/queue.h promises: a first-in first-out queue of nodes.         *)
(***************************************************************************)
EXTENDS Sequences, Naturals

CONSTANTS Nodes, NULL

VARIABLES
  q,     \* the nodes put and not yet taken, oldest first
  ret    \* what the last Get or Peek returned

vars == <<q, ret>>

Init == q = <<>> /\ ret = NULL

Put(n) ==
    /\ n \notin {q[i] : i \in 1 .. Len(q)}
    /\ q' = Append(q, n)
    /\ UNCHANGED ret

Get ==
    /\ q # <<>>
    /\ ret' = q[1]
    /\ q' = Tail(q)

Peek ==
    /\ q # <<>>
    /\ ret' = q[1]
    /\ UNCHANGED q

\* Both Get and Peek report an empty queue with NULL.
Nothing ==
    /\ q = <<>>
    /\ ret' = NULL
    /\ UNCHANGED q

Next == (\E n \in Nodes : Put(n)) \/ Get \/ Peek \/ Nothing

Spec == Init /\ [][Next]_vars

=============================================================================
