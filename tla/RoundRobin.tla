----------------------------- MODULE RoundRobin -----------------------------
(***************************************************************************)
(* What the kernel's scheduler promises: threads take turns on one         *)
(* processor, in the order in which they joined the line.                  *)
(***************************************************************************)
EXTENDS Naturals, Sequences

CONSTANTS First,    \* the thread that runs when the system starts
          Others    \* the threads that may join

VARIABLES running,  \* the thread that has the processor
          line      \* the threads waiting for it, next one first

vars == <<running, line>>

Init == running = First /\ line = <<>>

Join(t) ==
    /\ t \notin {line[i] : i \in 1 .. Len(line)} \cup {running}
    /\ line' = Append(line, t)
    /\ UNCHANGED running

TakeTurn ==
    /\ line # <<>>
    /\ running' = line[1]
    /\ line' = Append(Tail(line), running)

Next == (\E t \in Others : Join(t)) \/ TakeTurn

Spec == Init /\ [][Next]_vars

=============================================================================
