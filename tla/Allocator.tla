----------------------------- MODULE Allocator ------------------------------
(***************************************************************************)
(* The buddy allocator of memory/direct_mapping_allocator.c.               *)
(*                                                                         *)
(* Every list is a circular list of lib/list.h whose nodes are MemBlocks   *)
(* out of one pool.  An address of the list memory is <<"free", k>> or     *)
(* <<"alloc", k>>, the head of a list of blocks of 2^k bytes, POOL, the    *)
(* head of mem_block_pool, or <<"block", i>>, a MemBlock.  ZERO is what a  *)
(* NULL MemBlock pointer leads to: page 0 is mapped, so the code goes on.  *)
(* Addresses of memory are offsets in the direct mapping area; its base    *)
(* kKVirtualAddr is an even multiple of every block size.                  *)
(*                                                                         *)
(* Each call is one step: the allocator is used at boot with interrupts    *)
(* off.  `Release' is what its users do with RelBytes: "any" release any   *)
(* area they hold, "lone" release it only when its buddy is not free and   *)
(* no smaller block is in use above it.  The kernel as linked only         *)
(* requests, which both allow.                                             *)
(***************************************************************************)
EXTENDS Lists, Integers, FiniteSetsExt

CONSTANTS
  kMemBlockTypeNum,
  PoolSize,       \* MemBlocks left in the pool after the list heads are taken
  Area,           \* kDirectMappingSize - kNodePoolSize
  K_END,          \* the end of the kernel image
  Sizes,          \* the sizes users request
  MaxHeld,        \* bound: areas in use at once
  Unset,          \* values the 'addr' of a list head, never set, may have
  Release         \* "lone" or "any"

Types == 0 .. kMemBlockTypeNum - 1
POOL == <<"pool", 0>>
ZERO == <<"block", 0>>
Block(i) == <<"block", i>>
Free(k) == <<"free", k>>
Alloc(k) == <<"alloc", k>>
Blocks == {Block(i) : i \in 1 .. PoolSize}
Heads == {POOL} \cup {Free(k) : k \in Types} \cup {Alloc(k) : k \in Types}

\* 1u << k.
GetMemBlockSize(k) ==
    LET shifted[i \in Nat] == IF i = 0 THEN 1 ELSE 2 * shifted[i - 1]
    IN  shifted[k]

\* The loop finds the highest bit of size; a power of two has no other.
GetMemBlockSizeType(size) ==
    LET i == CHOOSE i \in 0 .. 31 : size \div GetMemBlockSize(i) = 1
    IN  IF size = GetMemBlockSize(i) THEN i ELSE i + 1

reserved_size == GetMemBlockSize(GetMemBlockSizeType(K_END))

\* No one asks for more than the largest block, and the kernel image fits one.
\* The direct mapping area is smaller than two blocks of the largest type, as
\* 63 MB is than two of 32 MB: DirectMappingInit makes one block of a type.
ASSUME AllocatorAssumption ==
    /\ kMemBlockTypeNum \in Nat \ {0} /\ kMemBlockTypeNum <= 31
    /\ PoolSize \in Nat \ {0} /\ Area \in Nat /\ MaxHeld \in Nat \ {0}
    /\ \A n \in Sizes \cup {K_END} :
         n \in Nat \ {0} /\ n <= GetMemBlockSize(kMemBlockTypeNum - 1)
    /\ Unset \subseteq Nat /\ Release \in {"lone", "any"}
    /\ Area - reserved_size < GetMemBlockSize(kMemBlockTypeNum)

\* A MemBlock is not at address 0.
ASSUME NullAssumption == NULL \notin Blocks \cup Heads \cup {ZERO}

VARIABLES
  next,   \* the links of all lists
  addr,   \* the 'addr' field of every MemBlock
  fill,   \* [i, j]: the locals of the loop of DirectMappingInit
  held,   \* what the users hold: the size requested at each address
  failed  \* the size of a request that has just been refused, or 0

vars == <<next, addr, fill, held, failed>>

\* MemBlockPoolInit, which links the last MemBlock first in the pool, and the
\* empty lists.
MemBlockPoolInit ==
    [a \in Blocks \cup Heads \cup {ZERO, NULL} |->
       IF a = POOL /\ PoolSize > 0 THEN Block(PoolSize)
       ELSE IF a \in Blocks THEN IF a[2] = 1 THEN POOL ELSE Block(a[2] - 1)
       ELSE IF a \in Heads THEN a
       ELSE NULL]

\* ReqMemBlock of a memory n: the block it returns.
ReqMemBlock(n) == IF IsListEmpty(n, POOL) THEN ZERO ELSE n[POOL]

\* A ReqMemBlock that leaves the block it returns in the pool.
AfterReqMemBlockKeeps(n) == n

\* The memory after ReqMemBlock.
AfterReqMemBlock(n) == IF IsListEmpty(n, POOL) THEN n ELSE ListRemove(n, POOL)

RelMemBlock(n, b) == ListAdd([n EXCEPT ![b] = NULL], POOL, b)

\* DirectMappingInit up to its loop: the block of the reserved memory.
Init ==
    LET n == MemBlockPoolInit
    IN  /\ next = ListAdd(AfterReqMemBlock(n), Alloc(GetMemBlockSizeType(K_END)),
                          ReqMemBlock(n))
        /\ \E u \in Unset : addr = [b \in DOMAIN n |-> IF b \in Heads THEN u ELSE 0]
        /\ fill = [i |-> reserved_size, j |-> kMemBlockTypeNum - 1]
        /\ held = [a \in {} |-> 0]
        /\ failed = 0

Filling == fill.j >= 0 /\ fill.i < Area

\* One turn of the loop of DirectMappingInit that makes the free blocks.
FillStep ==
    LET size == GetMemBlockSize(fill.j)
        b == ReqMemBlock(next)
    IN  /\ Filling
        /\ IF fill.i + size <= Area
             THEN /\ addr' = [addr EXCEPT ![b] = fill.i]
                  /\ next' = ListAdd(AfterReqMemBlock(next), Free(fill.j), b)
                  /\ fill' = [fill EXCEPT !.i = @ + size]
             ELSE /\ fill' = [fill EXCEPT !.j = @ - 1]
                  /\ UNCHANGED <<next, addr>>
        /\ UNCHANGED <<held, failed>>

-----------------------------------------------------------------------------
\* An insertion that forgets to look for the place.
InsertAtHead(n, ad, head, b, a) == ListAdd(n, head, b)

\* An insertion that finds the place and forgets the ListAdd.
InsertForgotten(n, ad, head, b, a) == n

\* The sorted insertion that ReqBytes, RelBytes and MergeBlock share: block b
\* goes before the first block of the list whose address is not below a.
Insert(n, ad, head, b, a) ==
    LET stop == [p \in DOMAIN n |-> n[p] = head \/ ad[n[p]] >= a]
    IN  ListAdd(n, Walk(n, head, stop), b)

\* A division that gives the second half the address of the next block.
SplitTooFar(m, k) ==
    LET b1 == m.next[Free(k)]
        n1 == ListRemove(m.next, Free(k))
        b2 == ReqMemBlock(n1)
        n2 == ListAdd(AfterReqMemBlock(n1), Free(k - 1), b1)
    IN  [next |-> ListAdd(n2, Free(k - 1), b2),
         addr |-> [m.addr EXCEPT ![b2] = m.addr[b1] + GetMemBlockSize(k)]]

\* A division that takes a second MemBlock for the first half too.
SplitTakesTwo(m, k) ==
    LET b1 == m.next[Free(k)]
        n1 == ListRemove(m.next, Free(k))
        b2 == ReqMemBlock(n1)
        n2 == AfterReqMemBlock(n1)
        b3 == ReqMemBlock(n2)
        n3 == ListAdd(AfterReqMemBlock(n2), Free(k - 1), b3)
    IN  [next |-> ListAdd(n3, Free(k - 1), b2),
         addr |-> [m.addr EXCEPT ![b3] = m.addr[b1],
                                 ![b2] = m.addr[b1] + GetMemBlockSize(k - 1)]]

\* A division that is off by one.
SplitTooNear(m, k) ==
    LET b1 == m.next[Free(k)]
        n1 == ListRemove(m.next, Free(k))
        b2 == ReqMemBlock(n1)
        n2 == ListAdd(AfterReqMemBlock(n1), Free(k - 1), b1)
    IN  [next |-> ListAdd(n2, Free(k - 1), b2),
         addr |-> [m.addr EXCEPT ![b2] = m.addr[b1] + GetMemBlockSize(k - 1) - 1]]

\* DivBlock, when there is a free block of type k: m is [next, addr].
Split(m, k) ==
    LET b1 == m.next[Free(k)]
        n1 == ListRemove(m.next, Free(k))
        b2 == ReqMemBlock(n1)
        n2 == ListAdd(AfterReqMemBlock(n1), Free(k - 1), b1)
    IN  [next |-> ListAdd(n2, Free(k - 1), b2),
         addr |-> [m.addr EXCEPT ![b2] = m.addr[b1] + GetMemBlockSize(k - 1)]]

\* A DivBlock that does not look further than the next size.
LargerNext(k) == {j \in {k + 1} \cap Types : ~ IsListEmpty(next, Free(j))}

\* The types above k in which DivBlock finds a block.
Larger(k) == {j \in k + 1 .. kMemBlockTypeNum - 1 : ~ IsListEmpty(next, Free(j))}

\* DivBlock(k + 1) with its recursion: the nearest larger block is divided,
\* and one half of it again, down to type k.
DivBlock(k) ==
    LET top == Min(Larger(k))
        div[j \in k + 1 .. top] ==
          Split(IF j = top THEN [next |-> next, addr |-> addr] ELSE div[j + 1], j)
    IN  div[k + 1]

ReqBytes(size) ==
    LET k == GetMemBlockSizeType(size)
        divided == IsListEmpty(next, Free(k))
        m == IF divided THEN DivBlock(k) ELSE [next |-> next, addr |-> addr]
        b == m.next[Free(k)]
    IN  /\ ~ Filling
        /\ IF divided /\ Larger(k) = {}
             THEN failed' = size /\ UNCHANGED <<next, addr, held>>
             ELSE /\ next' = Insert(ListRemove(m.next, Free(k)), m.addr,
                                    Alloc(k), b, m.addr[b])
                  /\ addr' = m.addr
                  /\ held' = [a \in DOMAIN held \cup {m.addr[b]} |->
                                IF a = m.addr[b] THEN size ELSE held[a]]
                  /\ failed' = 0
        /\ UNCHANGED fill

\* Two neighbours in the free list of type k, after p, that MergeBlock joins.
Mergeable(n, ad, k, p) ==
    LET b1 == n[p]
        b2 == n[n[p]]
    IN  /\ b1 # Free(k) /\ b2 # Free(k)
        /\ ad[b1] + GetMemBlockSize(k) = ad[b2]
        /\ ((ad[b1] - reserved_size) \div GetMemBlockSize(k)) % 2 = 0

\* One call of MergeBlock, for type k: prev is [next, go], the links and whether
\* MergeBlock is called.  The second ListRemove takes 'tmp->next' for the node
\* before block2, but after the first one that is block2 itself.
MergeOnce(prev, ad, k) ==
    LET nx == prev.next
        stop == [p \in DOMAIN nx |-> nx[p] = Free(k) \/ Mergeable(nx, ad, k, p)]
        tmp == Walk(nx, Free(k), stop)
        b1 == nx[tmp]
        b2 == nx[b1]
        n1 == ListRemove(nx, tmp)
        n2 == ListRemove(n1, n1[tmp])
        n3 == RelMemBlock(n2, b2)
    IN  IF /\ prev.go /\ k < kMemBlockTypeNum - 1
           /\ nx[tmp] # Free(k) /\ Mergeable(nx, ad, k, tmp)
          THEN [next |-> Insert(n3, ad, Free(k + 1), b1, ad[b1]), go |-> TRUE]
          ELSE [next |-> nx, go |-> FALSE]

\* MergeBlock and its recursion into larger types.
MergeBlock(n, ad, type) ==
    LET merge[k \in type .. kMemBlockTypeNum - 1] ==
          MergeOnce(IF k = type THEN [next |-> n, go |-> TRUE] ELSE merge[k - 1], ad, k)
    IN  merge[kMemBlockTypeNum - 1].next

\* Where RelBytes stops in the list of type k: before the first block whose
\* address is not below a.
Position(k, a) ==
    LET stop == [p \in DOMAIN next |-> next[p] = Alloc(k) \/ addr[next[p]] >= a]
    IN  Walk(next, Alloc(k), stop)

\* The types whose list stops the search of RelBytes for a.
StopTypes(a) == {k \in Types : next[Position(k, a)] # Alloc(k)}

\* RelBytes: the search stops at the first type that has a block at a or above.
RelBytes(a) ==
    LET k == Min(StopTypes(a))
        p == Position(k, a)
        found == addr[next[p]] = a
        remove == IF found THEN next[p] ELSE p
        n == IF found THEN ListRemove(next, p) ELSE next
    IN  /\ ~ Filling
        /\ IF StopTypes(a) = {}
             THEN UNCHANGED next
             ELSE next' = MergeBlock(Insert(n, addr, Free(k), remove, a), addr, k)
        /\ held' = [b \in DOMAIN held \ {a} |-> held[b]]
        /\ failed' = 0
        /\ UNCHANGED <<addr, fill>>

-----------------------------------------------------------------------------
\* The blocks of the lists, as <<address, type>>.
FreeBlocks == UNION {{<<addr[b], k>> : b \in Members(NodesOf(next, Free(k)))} : k \in Types}
AllocBlocks == UNION {{<<addr[b], k>> : b \in Members(NodesOf(next, Alloc(k)))} : k \in Types}

Buddy(a, k) ==
    LET s == GetMemBlockSize(k)
    IN  IF ((a - reserved_size) \div s) % 2 = 0 THEN a + s ELSE a - s

MayRelease(a) ==
    \/ Release = "any"
    \/ LET k == GetMemBlockSizeType(held[a])
       IN  /\ <<Buddy(a, k), k>> \notin FreeBlocks
           /\ \A b \in AllocBlocks : b[2] < k => b[1] < a

MayRequest == Cardinality(DOMAIN held) < MaxHeld

Request == MayRequest /\ \E n \in Sizes : ReqBytes(n)

Give == \E a \in DOMAIN held : MayRelease(a) /\ RelBytes(a)

Next == FillStep \/ Request \/ Give

Spec == Init /\ [][Next]_vars

-----------------------------------------------------------------------------
\* The blocks tile the memory: every byte of the area, once it is filled, is
\* in exactly one block, free or allocated (the reserved one included), after
\* any divisions.
Tiling ==
    ~ Filling =>
      \A x \in 0 .. Area - 1 :
        Cardinality({b \in FreeBlocks \cup AllocBlocks :
                       b[1] <= x /\ x < b[1] + GetMemBlockSize(b[2])}) = 1

\* "'MemBlock' in the two lists sort from lower address to higher address":
\* at every return of ReqBytes and RelBytes, though DivBlock pushes the higher
\* half in front of the lower one.
ListsSorted ==
    ~ Filling =>
      \A k \in Types : \A h \in {Free(k), Alloc(k)} :
        LET s == NodesOf(next, h)
        IN  \A i, j \in 1 .. Len(s) : i < j => addr[s[i]] < addr[s[j]]

\* No MemBlock is lost or in two lists: each one is in the pool, in a free
\* list or in an allocated list, and every list leads back to its head.
BlocksConserved ==
    /\ \A h \in Heads : LET s == NodesOf(next, h)
                        IN  next[IF s = <<>> THEN h ELSE s[Len(s)]] = h
    /\ \A b \in Blocks : \E h \in Heads :
         /\ b \in Members(NodesOf(next, h))
         /\ \A g \in Heads \ {h} : b \notin Members(NodesOf(next, g))

\* An area in use is an allocated block of its size rounded up to a power of
\* two, and every allocated block but the reserved one is in use.
HeldIsAllocated ==
    AllocBlocks = {<<a, GetMemBlockSizeType(held[a])>> : a \in DOMAIN held}
                  \cup {<<0, GetMemBlockSizeType(K_END)>>}

\* Every block but the reserved one lies a whole number of blocks of its size
\* above the reserved memory: MergeBlock tells by the parity of that number
\* which of two neighbours are the halves of one block, and PfHandler puts the
\* address of a table into an entry whose low bits are flags.
BlocksAligned ==
    \A b \in (FreeBlocks \cup AllocBlocks) \ {<<0, GetMemBlockSizeType(K_END)>>} :
      \E m \in 0 .. Area : b[1] = reserved_size + m * GetMemBlockSize(b[2])

\* ReqBytes returns 0 only when no free block is large enough.
RefusesOnlyWhenFull ==
    failed # 0 => \A b \in FreeBlocks : GetMemBlockSize(b[2]) < failed

\* The next step, a turn of the loop of DirectMappingInit or a request, finds
\* in the pool a MemBlock for each block it makes: none of the two callers of
\* ReqMemBlock tests for NULL.  The pool is smaller than the area, which can be
\* cut into single bytes; "enough 'MemBlock'" (lines 36-38) depends on how many
\* areas are in use at once, whatever was requested and released before.
PoolSuffices ==
    IF Filling
      THEN fill.i + GetMemBlockSize(fill.j) <= Area => ~ IsListEmpty(next, POOL)
      ELSE MayRequest =>
             \A n \in Sizes :
               LET k == GetMemBlockSizeType(n)
               IN  IsListEmpty(next, Free(k)) /\ Larger(k) # {} =>
                     Len(NodesOf(next, POOL)) >= Min(Larger(k)) - k

\* The allocator keeps the promise of its header: see BlockPool.
Abstract == INSTANCE BlockPool WITH Reserved <- reserved_size

\* No two areas in use overlap, and none overlaps the reserved memory.
ImplementsBlockPool == Abstract!Spec

\* A free list stays "a circular linked List" (list.h:69) when MergeBlock joins
\* blocks "until no continuous blocks remain" (lines 231-234).
FreeListsCircular ==
    \A k \in Types : LET s == NodesOf(next, Free(k))
                     IN  next[IF s = <<>> THEN Free(k) ELSE s[Len(s)]] = Free(k)

=============================================================================
