----------------------------- MODULE PageTables -----------------------------
(***************************************************************************)
(* The kernel's page directory and page tables: PagingInit and the walk of *)
(* PfHandler in memory/paging.c.                                           *)
(*                                                                         *)
(* Addresses are page numbers.  The kernel's virtual memory starts at      *)
(* kKVirtualPage; the direct mapping area there maps physical memory from  *)
(* page 0 on.  PfHandler keeps the physical address of a page table and    *)
(* writes the table through it as if it were a virtual one, which needs a  *)
(* translation of its own: only the first table's worth of pages is mapped *)
(* to itself.  An access that is not mapped faults, in PfHandler too, so   *)
(* the handler is a stack of activations.                                  *)
(***************************************************************************)
EXTENDS Integers, Sequences

CONSTANTS
  kPteMaxNum,             \* entries of a page table
  kPdeNum,                \* entries of a page directory
  kUPdeNum,               \* of these, for user space
  kKPdeDirectMappingNum,  \* and for the direct mapping area
  TableFrames,            \* what ReqBytes(kPtMaxSize) may return, as physical pages
  Stale,                  \* what the entries of a new page table may hold
  Touched,                \* virtual pages the program uses
  Absent,                 \* an entry whose present flag is clear
  MaxDepth                \* bound: activations of PfHandler

kPdeAbsentAddr == 0
kKVirtualPage == kUPdeNum * kPteMaxNum
kDynamicMappingStartPage == kKPdeDirectMappingNum * kPteMaxNum
VirtualPageNum == kPdeNum * kPteMaxNum
Entries == 0 .. kPteMaxNum - 1

\* The temporary page table, and the first one of the direct mapping area.
TempPt == 2
KPt == TempPt + 1

VARIABLES
  pd,     \* the page directory, and the words below it, at negative indices
  pt,     \* page table -> its entries
  page,   \* the next page ReqPage returns
  stack   \* the activations of PfHandler: [addr, pc, page]

vars == <<pd, pt, page, stack>>

PagingInit ==
    /\ pd = [i \in -(kPdeNum \div 2) .. kPdeNum - 1 |->
               IF i = 0 THEN TempPt
               ELSE IF i \in kUPdeNum .. kUPdeNum + kKPdeDirectMappingNum - 1
                 THEN KPt + i - kUPdeNum
               ELSE kPdeAbsentAddr]
    /\ pt = [f \in TempPt .. KPt + kKPdeDirectMappingNum - 1 |->
               [j \in Entries |-> IF f = TempPt THEN j ELSE (f - KPt) * kPteMaxNum + j]]

Init ==
    /\ PagingInit
    /\ page = kDynamicMappingStartPage
    /\ stack = <<>>

\* How the processor translates a virtual page: the index is unsigned.
Translate(v) ==
    LET f == pd[v \div kPteMaxNum]
    IN  IF f = kPdeAbsentAddr THEN Absent ELSE pt[f][v % kPteMaxNum]

\* The index PfHandler computes, by a division of (int) addr that rounds
\* towards 0, for an address inside page v.
PdIndex(v) ==
    IF v < VirtualPageNum \div 2
      THEN v \div kPteMaxNum
      ELSE -((VirtualPageNum - v - 1) \div kPteMaxNum)

Top == stack[Len(stack)]
SetTop(a) == [stack EXCEPT ![Len(stack)] = a]

\* An access to virtual page v that is absent: the processor calls PfHandler.
Fault(v) == Append(stack, [addr |-> v, pc |-> "pde", page |-> Absent])

Touch(v) ==
    /\ stack = <<>>
    /\ Translate(v) = Absent
    /\ stack' = Fault(v)
    /\ UNCHANGED <<pd, pt, page>>

\* A page directory entry that is absent gets a new page table, which is not
\* cleared; then ReqPage is called.
SetPde ==
    LET i == PdIndex(Top.addr) IN
    /\ stack # <<>> /\ Top.pc = "pde"
    /\ IF pd[i] = kPdeAbsentAddr
         THEN \E f \in TableFrames \ DOMAIN pt, g \in Stale :
                /\ pd' = [pd EXCEPT ![i] = f]
                /\ pt' = [h \in DOMAIN pt \cup {f} |->
                            IF h = f THEN [j \in Entries |-> g] ELSE pt[h]]
         ELSE UNCHANGED <<pd, pt>>
    /\ page' = page + 1
    /\ stack' = SetTop([Top EXCEPT !.pc = "pte", !.page = page])

\* The write of the page table entry, through the physical address of the
\* table.  It faults when that is not mapped; otherwise PfHandler returns.
SetPte ==
    LET f == pd[PdIndex(Top.addr)]
        written == Translate(f)
    IN  /\ stack # <<>> /\ Top.pc = "pte"
        /\ IF written = Absent
             THEN Len(stack) < MaxDepth /\ stack' = Fault(f) /\ UNCHANGED pt
             ELSE /\ pt' = IF written \in DOMAIN pt
                             THEN [pt EXCEPT ![written][Top.addr % kPteMaxNum] = Top.page]
                             ELSE pt
                  /\ stack' = SubSeq(stack, 1, Len(stack) - 1)
        /\ UNCHANGED <<pd, page>>

Next == SetPde \/ SetPte \/ \E v \in Touched : Touch(v)

Spec == Init /\ [][Next]_vars

-----------------------------------------------------------------------------
\* "page not present -- allocate a new page" (paging.h:92): PfHandler gets to
\* the end of a page fault without the same page fault on the way.
NoFaultWithinItself ==
    \A i, j \in 1 .. Len(stack) : stack[i].addr = stack[j].addr => i = j

=============================================================================
