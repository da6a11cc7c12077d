----------------------------- MODULE PagingBoot -----------------------------
(***************************************************************************)
(* How PagingInit (memory/paging.c) turns paging on: %cr3, the page        *)
(* directory entry by entry, the temporary table and the tables of the     *)
(* direct mapping area entry by entry, then the control registers.         *)
(*                                                                         *)
(* Addresses are page numbers.  mem is the physical memory the tables lie  *)
(* in: what it holds before an entry is written is whatever was there.     *)
(* Paging is off while the tables are written, so they are written through *)
(* physical addresses.                                                     *)
(***************************************************************************)
EXTENDS Integers

CONSTANTS
  kPdeNum,                \* entries of a page directory and of a page table
  kUPdeNum,               \* of the directory's, for user space
  kKPdeDirectMappingNum,  \* and for the direct mapping area
  Stale,                  \* what memory may hold before it is written
  Absent                  \* no translation

ASSUME PagingAssumption ==
    /\ kPdeNum \in Nat /\ kUPdeNum \in Nat /\ kKPdeDirectMappingNum \in Nat
    /\ kUPdeNum >= 1
    /\ kUPdeNum + kKPdeDirectMappingNum <= kPdeNum
    /\ Absent \notin Int
    /\ Stale # {} /\ Stale \subseteq [access : Nat, addr : Nat]

kPteMaxNum == kPdeNum
kKVirtualPage == kUPdeNum * kPteMaxNum
kPdeAbsentAddr == 0

\* Bits 0 and 1 of an entry: present, writable.
kKPdeWritePresentAccess == 3
kKPdeWriteAbsentAccess == 2
kUPdeWriteAbsentAccess == 6
kKPteWritePresentAccess == 3

DirectMappingPhysAddr(v) == v - kKVirtualPage
kKPd == kKVirtualPage + 1
kKPt == kKVirtualPage + 3

Frames == 1 .. 2 + kKPdeDirectMappingNum
Index == 0 .. kPdeNum - 1
Entry == [access : Nat, addr : Nat]

VARIABLES
  cr,         \* the bits of %cr0 and %cr4 that are set
  cr3,
  mem,        \* frame -> index -> entry
  pc,         \* the statement of PagingInit
  i, j, pt_addr, page_addr

paging == <<cr, cr3, mem, pc, i, j, pt_addr, page_addr>>

\* The machine as the boot loader leaves it: paging is off.
PagingStart ==
    /\ \E bits \in SUBSET {5} : cr = [n \in {0, 4} |-> IF n = 4 THEN bits ELSE {}]
    /\ cr3 = 0
    /\ \E g \in Stale : mem = [f \in Frames |-> [k \in Index |-> g]]
    /\ pc = "switch"
    /\ i = 0 /\ j = 0 /\ pt_addr = 0 /\ page_addr = 0

-----------------------------------------------------------------------------
set_cr(n, bit) == cr' = [cr EXCEPT ![n] = @ \cup {bit}]

clear_cr(n, bit) == cr' = [cr EXCEPT ![n] = @ \ {bit}]

SwitchPd(pd_addr) == cr3' = DirectMappingPhysAddr(pd_addr)

k_pd == DirectMappingPhysAddr(kKPd)

SetPde(k, access, address) ==
    mem' = [mem EXCEPT ![k_pd][k] = [access |-> access, addr |-> address]]

SetPte(pt, k, access, address) ==
    mem' = [mem EXCEPT ![pt][k] = [access |-> access, addr |-> address]]

SwitchStep ==
    /\ pc = "switch"
    /\ SwitchPd(kKPd)
    /\ pc' = "temp"
    /\ UNCHANGED <<cr, mem, i, j, pt_addr, page_addr>>

\* The temporary table, which maps the first pages to themselves.
TempPde ==
    /\ pc = "temp"
    /\ pt_addr' = DirectMappingPhysAddr(kKPt - 1)
    /\ SetPde(0, kKPdeWritePresentAccess, pt_addr')
    /\ j' = 0
    /\ pc' = "temp_fill"
    /\ UNCHANGED <<cr, cr3, i, page_addr>>

TempFill ==
    /\ pc = "temp_fill" /\ j < kPteMaxNum
    /\ SetPte(pt_addr, j, kKPteWritePresentAccess, j)
    /\ j' = j + 1
    /\ UNCHANGED <<cr, cr3, pc, i, pt_addr, page_addr>>

TempDone ==
    /\ pc = "temp_fill" /\ j >= kPteMaxNum
    /\ i' = 1
    /\ pc' = "user"
    /\ UNCHANGED <<cr, cr3, mem, j, pt_addr, page_addr>>

\* A loop over user space that goes one entry too far.
UserPdeOneMore ==
    /\ pc = "user" /\ i <= kUPdeNum
    /\ SetPde(i, kUPdeWriteAbsentAccess, kPdeAbsentAddr)
    /\ i' = i + 1
    /\ UNCHANGED <<cr, cr3, pc, j, pt_addr, page_addr>>

UserPde ==
    /\ pc = "user" /\ i < kUPdeNum
    /\ SetPde(i, kUPdeWriteAbsentAccess, kPdeAbsentAddr)
    /\ i' = i + 1
    /\ UNCHANGED <<cr, cr3, pc, j, pt_addr, page_addr>>

UserDone ==
    /\ pc = "user" /\ i >= kUPdeNum
    /\ pt_addr' = DirectMappingPhysAddr(kKPt)
    /\ page_addr' = 0
    /\ pc' = "direct"
    /\ UNCHANGED <<cr, cr3, mem, i, j>>

\* The direct mapping area: one table per entry, one page after the other.
DirectPde ==
    /\ pc = "direct" /\ i < kKPdeDirectMappingNum + kUPdeNum
    /\ SetPde(i, kKPdeWritePresentAccess, pt_addr)
    /\ j' = 0
    /\ pc' = "fill"
    /\ UNCHANGED <<cr, cr3, i, pt_addr, page_addr>>

DirectFill ==
    /\ pc = "fill" /\ j < kPteMaxNum
    /\ SetPte(pt_addr, j, kKPteWritePresentAccess, page_addr)
    /\ page_addr' = page_addr + 1
    /\ j' = j + 1
    /\ UNCHANGED <<cr, cr3, pc, i, pt_addr>>

DirectNext ==
    /\ pc = "fill" /\ j >= kPteMaxNum
    /\ pt_addr' = pt_addr + 1
    /\ i' = i + 1
    /\ pc' = "direct"
    /\ UNCHANGED <<cr, cr3, mem, j, page_addr>>

DirectDone ==
    /\ pc = "direct" /\ i >= kKPdeDirectMappingNum + kUPdeNum
    /\ pc' = "dynamic"
    /\ UNCHANGED <<cr, cr3, mem, i, j, pt_addr, page_addr>>

DynamicPde ==
    /\ pc = "dynamic" /\ i < kPdeNum
    /\ SetPde(i, kKPdeWriteAbsentAccess, kPdeAbsentAddr)
    /\ i' = i + 1
    /\ UNCHANGED <<cr, cr3, pc, j, pt_addr, page_addr>>

ClearPae ==
    /\ pc = "dynamic" /\ i >= kPdeNum
    /\ clear_cr(4, 5)
    /\ pc' = "pg"
    /\ UNCHANGED <<cr3, mem, i, j, pt_addr, page_addr>>

OpenPaging ==
    /\ pc = "pg"
    /\ set_cr(0, 31)
    /\ pc' = "done"
    /\ UNCHANGED <<cr3, mem, i, j, pt_addr, page_addr>>

PagingStep ==
    \/ SwitchStep \/ TempPde \/ TempFill \/ TempDone \/ UserPde \/ UserDone
    \/ DirectPde \/ DirectFill \/ DirectNext \/ DirectDone \/ DynamicPde
    \/ ClearPae \/ OpenPaging

PagingSpec == PagingStart /\ [][PagingStep]_paging

-----------------------------------------------------------------------------
PagingOn == 31 \in cr[0]

Present(e) == e.access % 2 = 1

\* How the processor translates virtual page d * kPteMaxNum + t.
Translate(d, t) ==
    LET pde == mem[cr3][d]
        pte == mem[pde.addr][t]
    IN  IF Present(pde) /\ Present(pte) THEN pte.addr ELSE Absent

\* The tables are read in the 32-bit format they are written in; the first
\* pages, from which the code that turns paging on goes on running, are where
\* they were; the direct mapping area maps physical memory from page 0 on; and
\* nothing else is mapped.
Mapped ==
    /\ 5 \notin cr[4]
    /\ \A d \in Index, t \in Index :
         Translate(d, t) =
           IF d = 0 THEN t
           ELSE IF d \in kUPdeNum .. kUPdeNum + kKPdeDirectMappingNum - 1
             THEN (d - kUPdeNum) * kPteMaxNum + t
           ELSE Absent

\* The step with which PagingInit turns paging on finds the whole mapping in
\* place, whatever memory held before.  What PfHandler maps and unmaps later is
\* another matter (module PageTables).
MappedRight == [][PagingOn' /\ ~PagingOn => Mapped']_paging

=============================================================================
