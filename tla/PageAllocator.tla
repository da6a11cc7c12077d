--------------------------- MODULE PageAllocator ----------------------------
(***************************************************************************)
(* The physical page allocator of memory/paging.c, with the page fault     *)
(* handler and RelPages, through which it is used.                         *)
(*                                                                         *)
(* pte maps the virtual pages that have a page table entry set to their    *)
(* physical pages.  A virtual page of a process is a member of UPages; a   *)
(* natural number n is the page at address n * PageSize of the kernel's    *)
(* page directory.  Page tables are taken to be there and within reach of  *)
(* PfHandler and RelPages: what PfHandler really does to get one is in     *)
(* PageTables, and CloseProc passes RelPages a page number as an address.  *)
(*                                                                         *)
(* CloseProc releases the pages of a process under the kernel's page       *)
(* directory, in which a page above the first 4 MB is not mapped at its    *)
(* physical address.  So the first write of ClearPage(n), at that address, *)
(* faults, and PfHandler gives the kernel another page there.              *)
(***************************************************************************)
EXTENDS Bitmap, Sequences

CONSTANTS
  PageSize,                  \* in units fine enough for the memory map
  kVirtualPageNum,
  kDynamicMappingStartPage,  \* the pages below belong to the other allocator
  UPages,                    \* virtual pages of processes
  Maps                       \* memory maps: sequences of [addr, size], sorted

Pages == 0 .. kVirtualPageNum - 1

ASSUME PageAssumption ==
    /\ PageSize \in Nat \ {0} /\ kVirtualPageNum \in Nat \ {0}
    /\ kDynamicMappingStartPage \in Nat \ {0}
    /\ UPages \cap Nat = {}
    /\ \A m \in Maps : \A t \in 1 .. Len(m) :
         /\ m[t].addr \in Nat /\ m[t].size \in Nat
         \* firmware, not memory, is at the end of the address space
         /\ m[t].addr + m[t].size <= (kVirtualPageNum - 1) * PageSize

VARIABLES
  avl_mem,      \* the memory map
  init,         \* [t, page]: the locals of PageAllocatorInit; t = 0 at its end
  page_state,   \* the bitmap
  pte           \* virtual page -> physical page

page_vars == <<avl_mem, init, page_state, pte>>

PageInit ==
    /\ avl_mem \in Maps
    /\ init = [t |-> 1, page |-> 0]
    /\ page_state = {}
    /\ pte = [u \in {} |-> 0]

GetPagePhysAddr(n) == n * PageSize

\* Physical page n lies within the memory of the map entry t.
Within(t, n) ==
    /\ t.addr <= GetPagePhysAddr(n)
    /\ GetPagePhysAddr(n) + PageSize <= t.addr + t.size

\* PageAllocatorInit, one entry of the map: pages from init.page that start
\* before the entry are set, the ones after them that end in it are cleared.
InitEntry ==
    LET t == avl_mem[init.t]
        gap == {n \in Pages : n >= init.page /\ GetPagePhysAddr(n) < t.addr}
        rest == {n \in Pages \ gap : n >= init.page}
        avl == {n \in rest : GetPagePhysAddr(n) + PageSize <= t.addr + t.size}
        next == CHOOSE n \in rest \ avl : \A k \in rest \ avl : n <= k
    IN  /\ init.t \in 1 .. Len(avl_mem)
        /\ page_state' = (page_state \cup {BitOf(n) : n \in gap}) \ {BitOf(n) : n \in avl}
        /\ init' = [t |-> init.t + 1, page |-> next]
        /\ UNCHANGED <<avl_mem, pte>>

\* Its end: the pages after the last entry, and the direct mapping area.
InitRest ==
    LET rest == {n \in Pages : init.page # 0 /\ n >= init.page}
        low == {n \in Pages : n < kDynamicMappingStartPage}
    IN  /\ init.t > Len(avl_mem)
        /\ page_state' = page_state \ {BitOf(n) : n \in rest \cup low}
        /\ init' = [init EXCEPT !.t = 0]
        /\ UNCHANGED <<avl_mem, pte>>

-----------------------------------------------------------------------------
\* A search of ReqPage that goes one page too far.
FreePagesPastEnd == {n \in kDynamicMappingStartPage .. kVirtualPageNum :
                       ~ IsBitmapSet(page_state, n)}

FreePages == {n \in kDynamicMappingStartPage .. kVirtualPageNum - 1 :
                ~ IsBitmapSet(page_state, n)}

\* The page ReqPage returns, as a page number: 0 when there is none.
ReqPage ==
    IF FreePages = {} THEN 0
    ELSE CHOOSE n \in FreePages : \A k \in FreePages : n <= k

\* A ReqPage that does not record the page it returns.
AfterReqPageUnrecorded == page_state

\* The bitmap after ReqPage.
AfterReqPage ==
    IF FreePages = {} THEN page_state ELSE SetBitmap(page_state, ReqPage)

\* pte with u mapped to f.
SetPte(u, f) == [v \in DOMAIN pte \cup {u} |-> IF v = u THEN f ELSE pte[v]]

\* A process touches a virtual page that is absent.
PfHandler(u) ==
    /\ init.t = 0
    /\ u \in UPages \ DOMAIN pte
    /\ page_state' = AfterReqPage
    /\ pte' = SetPte(u, ReqPage)
    /\ UNCHANGED <<avl_mem, init>>

\* The turn of the loop of RelPages that meets the entry of u: RelPage with
\* ClearPage and the fault it takes when the kernel has no page at n yet.
RelPage(u) ==
    LET n == pte[u]
        releasable == \E t \in 1 .. Len(avl_mem) :
          /\ Within(avl_mem[t], n)
          /\ avl_mem[t].addr # GetPagePhysAddr(n)
        fault == n \notin DOMAIN pte
        kernel == IF fault THEN SetPte(n, ReqPage) ELSE pte
    IN  /\ init.t = 0
        /\ u \in UPages \cap DOMAIN pte
        /\ IF n # 0 /\ releasable
             THEN /\ page_state' =
                       ClearBitmap(IF fault THEN AfterReqPage ELSE page_state, n)
                  /\ pte' = [v \in DOMAIN kernel \ {u} |-> kernel[v]]
             ELSE /\ pte' = [v \in DOMAIN pte \ {u} |-> pte[v]]
                  /\ UNCHANGED page_state
        /\ UNCHANGED <<avl_mem, init>>

PageNext ==
    \/ InitEntry
    \/ InitRest
    \/ \E u \in UPages : PfHandler(u) \/ RelPage(u)

PageSpec == PageInit /\ [][PageNext]_page_vars

-----------------------------------------------------------------------------
PageTypeOK ==
    /\ avl_mem \in Maps
    /\ init.t \in Nat /\ init.page \in Nat
    /\ page_state \subseteq {BitOf(n) : n \in Pages}
    /\ DOMAIN pte \subseteq UPages \cup Pages
    /\ \A u \in DOMAIN pte : pte[u] \in Pages

\* No physical page but page 0 is mapped twice, though eight pages share a bit
\* and RelPage takes a page in the middle of giving one back.
NoPageTwice ==
    \A u, v \in DOMAIN pte : pte[u] = pte[v] /\ pte[u] # 0 => u = v

\* A page in use, mapped by a process or by the kernel, is out of the direct
\* mapping area and its bit says that it is allocated.
PagesInUseAreSet ==
    \A u \in DOMAIN pte : pte[u] # 0 =>
      pte[u] >= kDynamicMappingStartPage /\ IsBitmapSet(page_state, pte[u])

=============================================================================
