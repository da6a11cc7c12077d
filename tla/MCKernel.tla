------------------------------ MODULE MCKernel ------------------------------
(***************************************************************************)
(* A small kernel for TLC: tables of 5 entries, memory that is cleared or  *)
(* holds present entries, one key.                                         *)
(***************************************************************************)
EXTENDS Kernel

\* Memory that is cleared, and memory that reads as entries that are present.
SmallStale == {[access |-> 0, addr |-> 0], [access |-> 7, addr |-> 1]}

=============================================================================
