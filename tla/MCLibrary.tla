----------------------------- MODULE MCLibrary ------------------------------
(***************************************************************************)
(* The two parts that use no other, for TLC: a behaviour exercises either  *)
(* the queue or the console, from its initial state.  The screen is small, *)
(* so that a text goes over the end of a line and of the screen.           *)
(***************************************************************************)
EXTENDS Queue, Console

SmallStrings == {<<>>, <<"a", "b", "c">>, <<"a", Newline>>}

VARIABLE part   \* which of the two

library == <<queue_vars, screen, part>>

LibraryInit == part \in {"queue", "console"} /\ QueueInit /\ ConsoleInit

LibraryNext ==
    \/ part = "queue" /\ QueueNext /\ UNCHANGED <<screen, part>>
    \/ part = "console" /\ ConsoleNext /\ UNCHANGED <<queue_vars, part>>

LibrarySpec == LibraryInit /\ [][LibraryNext]_library

=============================================================================
