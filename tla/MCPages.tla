------------------------------ MODULE MCPages -------------------------------
(***************************************************************************)
(* Memory maps for TLC, in half pages: 64 pages, 32 in a word of the       *)
(* bitmap, the first 32 the direct mapping area.                           *)
(***************************************************************************)
EXTENDS PageAllocator, TLC

Region(first, last) == [addr |-> 2 * first, size |-> 2 * (last - first + 1)]

\* Memory up to the firmware, in one piece.
OneRegion == <<Region(0, 62)>>

\* A hole of which half a page belongs to the memory on each side, and memory
\* that starts with the dynamic area.
Hole == <<[addr |-> 0, size |-> 79], [addr |-> 101, size |-> 23]>>
FromDynamic == <<Region(0, 30), Region(32, 60)>>

\* Nothing above the direct mapping area is memory but a few pages.
Little == <<Region(0, 33)>>

NoMap == <<>>

AllMaps == {OneRegion, Hole, FromDynamic, Little, NoMap}
JustOne == {OneRegion}

Symmetry == Permutations(UPages)

=============================================================================
