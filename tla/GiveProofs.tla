---------------------------- MODULE GiveProofs ------------------------------
(***************************************************************************)
(* What RelBytes does to the blocks of the buddy allocator when there is   *)
(* nothing to merge: finding the block, giving it back, and MergeBlock,    *)
(* which then changes nothing.                                             *)
(***************************************************************************)
EXTENDS BlockProofs

(* Merging, which a release that the users may make does not start.        *)

\* Every walk ends at an address.
LEMMA WalkType ==
  ASSUME Counted(Mem), NEW n \in [Mem -> Mem], NEW stop \in [Mem -> BOOLEAN], NEW p \in Mem
  PROVE  Walk(n, p, stop) \in Mem
<1>1. PICK at \in [0 .. Cardinality(Mem) -> Mem] : Walk(n, p, stop) = at[Cardinality(Mem)]
  BY WalkTurns
<1>2. Cardinality(Mem) \in 0 .. Cardinality(Mem)
  BY DEF Counted
<1> QED  BY <1>1, <1>2, Zenon

\* What MergeBlock passes on to the next type.
Merges == [next : [Mem -> Mem], go : BOOLEAN]

\* MergeOnce passes that on.
LEMMA MergeType ==
  ASSUME Counted(Mem), NEW prev \in Merges, NEW ad \in [Mem -> Nat], NEW k \in Types
  PROVE  MergeOnce(prev, ad, k) \in Merges
<1> DEFINE nx == prev.next
           stop == [p \in DOMAIN nx |-> nx[p] = Free(k) \/ Mergeable(nx, ad, k, p)]
           tmp == Walk(nx, Free(k), stop)
           b1 == nx[tmp]
           b2 == nx[b1]
           n1 == ListRemove(nx, tmp)
           n2 == ListRemove(n1, n1[tmp])
           n3 == RelMemBlock(n2, b2)
           cond == /\ prev.go /\ k < kMemBlockTypeNum - 1
                   /\ nx[tmp] # Free(k) /\ Mergeable(nx, ad, k, tmp)
           n4 == Insert(n3, ad, Free(k + 1), b1, ad[b1])
<1>1. nx \in [Mem -> Mem] /\ DOMAIN nx = Mem /\ prev.go \in BOOLEAN
  BY Zenon DEF Merges
<1>2. Free(k) \in Mem /\ NULL \in Mem /\ POOL \in Mem
  BY Addresses, Zenon DEF Mem
<1>3. stop \in [Mem -> BOOLEAN]
  BY <1>1, Zenon DEF Mergeable
<1> HIDE DEF nx, stop
<1>4. tmp \in Mem
  BY <1>1, <1>2, <1>3, WalkType, Zenon
<1> HIDE DEF tmp
<1>5. b1 \in Mem /\ b2 \in Mem
  BY <1>1, <1>4, Zenon
<1> HIDE DEF b1, b2
<1>6. n1 \in [Mem -> Mem] /\ n1[tmp] \in Mem
  <2>1. n1 \in [Mem -> Mem]
    BY <1>1, <1>4, ListType, Zenon
  <2> QED  BY <1>4, <2>1, Zenon
<1> HIDE DEF n1
<1>7. n2 \in [Mem -> Mem]
  BY <1>6, ListType, Zenon
<1> HIDE DEF n2
<1>8. n3 \in [Mem -> Mem]
  <2>1. [n2 EXCEPT ![b2] = NULL] \in [Mem -> Mem]
    BY <1>2, <1>7, Zenon
  <2> QED  BY <1>2, <1>5, <2>1, ListType, Zenon DEF RelMemBlock
<1> HIDE DEF n3
<1>9. cond => n4 \in [Mem -> Mem]
  <2> SUFFICES ASSUME cond PROVE n4 \in [Mem -> Mem]
    OBVIOUS
  <2> DEFINE st == [p \in DOMAIN n3 |-> n3[p] = Free(k + 1) \/ ad[n3[p]] >= ad[b1]]
  <2>1. k + 1 \in Types
    BY BlockSizes DEF Types
  <2>2. Free(k + 1) \in Mem
    BY <2>1, Addresses, Zenon DEF Mem
  <2>3. st \in [Mem -> BOOLEAN]
    <3>1. DOMAIN n3 = Mem
      BY <1>8, Zenon
    <3> QED  BY <3>1, Zenon
  <2>4. n4 = ListAdd(n3, Walk(n3, Free(k + 1), st), b1)
    BY Zenon DEF Insert
  <2> HIDE DEF st, n4
  <2>5. Walk(n3, Free(k + 1), st) \in Mem
    BY <1>8, <2>2, <2>3, WalkType, Zenon
  <2> QED  BY <1>5, <1>8, <2>4, <2>5, ListType, Zenon
<1>10. MergeOnce(prev, ad, k) = IF cond THEN [next |-> n4, go |-> TRUE] ELSE [next |-> nx, go |-> FALSE]
  BY Zenon DEF MergeOnce, nx, stop, tmp, b1, b2, n1, n2, n3
<1> HIDE DEF n4, cond
<1> QED  BY <1>1, <1>9, <1>10 DEF Merges

\* MergeBlock finds nothing to join in a list without buddies.
LEMMA MergeNone ==
  ASSUME NEW n, NEW L, NEW w, Links(n, L, w), NEW ad \in [Mem -> Nat], Calm(ad, w, NULL),
         NEW k \in Types, NEW go
  PROVE  MergeOnce([next |-> n, go |-> go], ad, k) = [next |-> n, go |-> FALSE]
<1> DEFINE h == Free(k)
           s == L[h]
           prev == [next |-> n, go |-> go]
           stop == [p \in DOMAIN n |-> n[p] = h \/ Mergeable(n, ad, k, p)]
           tmp == Walk(n, h, stop)
<1>0. h \in Heads
  BY Addresses, Zenon
<1>1. /\ n \in [Mem -> Mem] /\ s \in Seq(Blocks) /\ Len(s) \in Nat
      /\ Chain(n, h, s) /\ h \in Mem /\ s \in Seq(Mem) /\ Len(s) <= Cardinality(Mem)
      /\ Counted(Mem)
  <2>1. Len(s) <= Cardinality(Mem)
    BY <1>0, ListOf, Zenon
  <2> QED  BY <1>0, <2>1 DEF Links, Mem
<1>2. stop \in [Mem -> BOOLEAN]
  <2>1. DOMAIN n = Mem
    BY <1>1, Zenon
  <2> QED  BY <2>1, Zenon DEF Mergeable
<1>3. stop[NodeAt(h, s, Len(s))]
  <2>1. Len(s) \in 0 .. Len(s) /\ Len(s) \in 0 .. Len(s) + 1
    BY <1>1
  <2>2. NodeAt(h, s, Len(s)) \in Mem
    BY <1>0, <2>1, NodeFacts, Zenon
  <2>3. n[NodeAt(h, s, Len(s))] = NodeAt(h, s, Len(s) + 1)
    BY <1>1, <2>1, Zenon DEF Chain
  <2>4. NodeAt(h, s, Len(s) + 1) = h
    BY Zenon DEF NodeAt
  <2> QED  BY <1>1, <2>2, <2>3, <2>4, Zenon
<1> HIDE DEF s, stop
<1>4. PICK i \in 0 .. Len(s) : Walk(n, h, stop) = NodeAt(h, s, i) /\ StopsAt(h, s, stop, i)
  BY <1>1, <1>2, <1>3, WalkResult, Zenon
<1>5. ~ (n[tmp] # h /\ Mergeable(n, ad, k, tmp))
  <2> SUFFICES ASSUME n[tmp] # h, Mergeable(n, ad, k, tmp) PROVE FALSE
    OBVIOUS
  <2>1. ASSUME NEW j \in 0 .. Len(s), n[NodeAt(h, s, j)] # h
        PROVE  /\ j + 1 \in 1 .. Len(s) /\ n[NodeAt(h, s, j)] = NodeAt(h, s, j + 1)
               /\ NodeAt(h, s, j + 1) \in Blocks /\ w[NodeAt(h, s, j + 1)] = h
    <3>1. n[NodeAt(h, s, j)] = NodeAt(h, s, j + 1)
      BY <1>1, Zenon DEF Chain
    <3>2. j + 1 # Len(s) + 1
      BY <2>1, <3>1, Zenon DEF NodeAt
    <3>3. j + 1 \in 1 .. Len(s) /\ j + 1 \in 0 .. Len(s) + 1
      BY <1>1, <3>2
    <3>4. NodeAt(h, s, j + 1) \in Blocks /\ w[NodeAt(h, s, j + 1)] = h
      BY <1>0, <3>3, NodeFacts DEF s
    <3> QED  BY <3>1, <3>3, <3>4, Zenon
  <2> DEFINE b1 == n[tmp]
             b2 == n[b1]
  <2>2. i + 1 \in 1 .. Len(s) /\ b1 = NodeAt(h, s, i + 1) /\ b1 \in Blocks /\ w[b1] = h
    BY <1>4, <2>1, Zenon
  <2>3. b2 # h
    BY Zenon DEF Mergeable
  <2>4. b2 \in Blocks /\ w[b2] = h
    <3>1. i + 1 \in 0 .. Len(s)
      BY <2>2
    <3> QED  BY <2>1, <2>2, <2>3, <3>1, Zenon
  <2>5. b1 # NULL /\ b2 # NULL
    BY <2>2, <2>4, Addresses, Zenon
  <2>6. /\ ad[b1] + GetMemBlockSize(k) = ad[b2]
        /\ ((ad[b1] - reserved_size) \div GetMemBlockSize(k)) % 2 = 0
    BY Zenon DEF Mergeable
  <2> HIDE DEF b1, b2
  <2> QED  BY <2>2, <2>4, <2>5, <2>6, Zenon DEF Calm
<1>6. prev.next = n
  OBVIOUS
<1> HIDE DEF prev
<1>7. MergeOnce(prev, ad, k) = [next |-> prev.next, go |-> FALSE]
  BY <1>5, <1>6, Zenon DEF MergeOnce, stop
<1> QED  BY <1>6, <1>7, Zenon DEF prev

\* MergeBlock changes nothing then.
LEMMA MergeNothing ==
  ASSUME NEW n, NEW L, NEW w, Links(n, L, w), NEW ad \in [Mem -> Nat], Calm(ad, w, NULL),
         NEW type \in Types
  PROVE  MergeBlock(n, ad, type) = n
<1> DEFINE max == kMemBlockTypeNum - 1
           D == type .. max
           m0 == [next |-> n, go |-> TRUE]
           done == [next |-> n, go |-> FALSE]
           rank == [k \in D |-> k - type]
           stop == {type}
           base == [k \in D |-> MergeOnce(m0, ad, type)]
           down == [k \in D |-> IF k = type THEN type ELSE k - 1]
           step == [d \in D \X Merges |-> MergeOnce(d[2], ad, d[1])]
           Body(f) == [k \in D |-> MergeOnce(IF k = type THEN m0 ELSE f[k - 1], ad, k)]
           merge == CHOOSE f : f = Body(f)
<1>1. type \in Nat /\ max \in Nat /\ type <= max /\ D \subseteq Types
  BY BlockSizes DEF Types
<1>2. m0 \in Merges /\ Counted(Mem)
  BY Zenon DEF Merges, Links
<1> HIDE DEF max, m0
<1>3. Descends(D, Merges, rank, stop, base, down, step)
  <2>1. rank \in [D -> Nat] /\ down \in [D -> D]
    BY <1>1
  <2>2. base \in [D -> Merges]
    BY <1>2, MergeType, Zenon
  <2>3. step \in [D \X Merges -> Merges]
    BY <1>1, <1>2, MergeType, Zenon
  <2>4. \A d \in D \ stop : rank[down[d]] < rank[d]
    BY <1>1
  <2> QED  BY <2>1, <2>2, <2>3, <2>4, Zenon DEF Descends
<1> HIDE DEF rank, stop, base, down, step
<1>4. PICK f \in [D -> Merges] : Solves(f, D, stop, base, down, step)
  BY <1>3, RecursionExists, Zenon
<1> USE DEF stop, base, down, step
<1>5. f = Body(f)
  <2>1. ASSUME NEW k \in D PROVE f[k] = MergeOnce(IF k = type THEN m0 ELSE f[k - 1], ad, k)
    <3>1. f[k] = IF k \in stop THEN base[k] ELSE step[<<k, f[down[k]]>>]
      BY <1>4, Zenon DEF Solves
    <3>2. CASE k = type
      BY <3>1, <3>2, Zenon
    <3>3. CASE k # type
      <4>1. k - 1 \in D /\ down[k] = k - 1
        BY <1>1, <3>3
      <4>2. <<k, f[k - 1]>> \in D \X Merges /\ <<k, f[k - 1]>>[1] = k /\ <<k, f[k - 1]>>[2] = f[k - 1]
        BY <4>1, Zenon
      <4> HIDE DEF D, Merges
      <4>3. step[<<k, f[k - 1]>>] = MergeOnce(f[k - 1], ad, k)
        BY <4>2, Zenon
      <4> QED  BY <3>1, <3>3, <4>1, <4>3, Zenon
    <3> QED  BY <3>2, <3>3, Zenon
  <2> QED  BY <2>1, Zenon
<1>6. merge = Body(merge)
  BY <1>5, Zenon
<1>7. MergeBlock(n, ad, type) = merge[max].next
  BY Zenon DEF MergeBlock, max, m0
<1> HIDE DEF merge
<1> DEFINE S == {t \in Nat : type + t <= max => merge[type + t] = done}
<1>8. Nat \subseteq S
  <2>1. 0 \in S
    <3>1. type + 0 = type /\ type \in D
      BY <1>1
    <3>2. merge[type] = MergeOnce(m0, ad, type)
      BY <1>6, <3>1, Zenon
    <3>3. MergeOnce(m0, ad, type) = done
      BY MergeNone, Zenon DEF m0
    <3> QED  BY <3>1, <3>2, <3>3, Zenon
  <2>2. ASSUME NEW t \in Nat, t \in S PROVE t + 1 \in S
    <3> SUFFICES ASSUME type + (t + 1) <= max PROVE merge[type + (t + 1)] = done
      OBVIOUS
    <3> DEFINE k == type + (t + 1)
    <3>1. k \in D /\ k # type /\ k - 1 = type + t /\ type + t <= max
      BY <1>1
    <3>2. merge[k - 1] = done
      BY <2>2, <3>1, Zenon
    <3> HIDE DEF k
    <3>3. merge[k] = MergeOnce(done, ad, k)
      BY <1>6, <3>1, <3>2, Zenon
    <3>4. k \in Types
      BY <1>1, <3>1, Zenon
    <3>5. MergeOnce(done, ad, k) = done
      BY <3>4, MergeNone, Zenon
    <3> QED  BY <3>3, <3>5, Zenon DEF k
  <2> HIDE DEF S
  <2> QED  BY <2>1, <2>2, Induction, Zenon
<1>9. merge[max] = done
  <2> DEFINE t == max - type
  <2>1. t \in Nat /\ type + t = max /\ max <= max
    BY <1>1
  <2> HIDE DEF t
  <2> QED  BY <1>8, <2>1, Zenon
<1> QED  BY <1>7, <1>9

-----------------------------------------------------------------------------
(* Releasing.                                                              *)

\* The areas held after the release of a.
Given(hd, a) == [c \in DOMAIN hd \ {a} |-> hd[c]]

\* The blocks of the lists are the blocks by the list they are in.
LEMMA BlockSets ==
  ASSUME NEW L, NEW w, Links(next, L, w)
  PROVE  /\ \A b \in Blocks, k \in Types :
              /\ w[b] = Free(k) => <<addr[b], k>> \in FreeBlocks
              /\ w[b] = Alloc(k) => <<addr[b], k>> \in AllocBlocks
         /\ \A x \in FreeBlocks : \E b \in Blocks, k \in Types : w[b] = Free(k) /\ x = <<addr[b], k>>
         /\ \A x \in AllocBlocks : \E b \in Blocks, k \in Types : w[b] = Alloc(k) /\ x = <<addr[b], k>>
<1>1. ASSUME NEW h \in Heads, NEW b
      PROVE  b \in Members(NodesOf(next, h)) <=> b \in Blocks /\ w[b] = h
  <2>1. NodesOf(next, h) = L[h]
    BY ListOf, Zenon
  <2>2. ASSUME b \in Members(L[h]) PROVE b \in Blocks /\ w[b] = h
    BY <2>2 DEF Members, Links
  <2>3. ASSUME b \in Blocks, w[b] = h PROVE b \in Members(L[h])
    <3>1. w[b] # NULL
      BY <2>3, Addresses, Zenon
    <3>2. \E i \in 1 .. Len(L[h]) : L[h][i] = b
      BY <2>3, <3>1, Zenon DEF Links
    <3> QED  BY <3>2, Zenon DEF Members
  <2> QED  BY <2>1, <2>2, <2>3, Zenon
<1>2. \A k \in Types : Free(k) \in Heads /\ Alloc(k) \in Heads
  BY Addresses, Zenon
<1>3. ASSUME NEW b \in Blocks, NEW k \in Types
      PROVE  /\ w[b] = Free(k) => <<addr[b], k>> \in FreeBlocks
             /\ w[b] = Alloc(k) => <<addr[b], k>> \in AllocBlocks
  BY <1>1, <1>2 DEF FreeBlocks, AllocBlocks
<1>4. ASSUME NEW x \in FreeBlocks
      PROVE  \E b \in Blocks, k \in Types : w[b] = Free(k) /\ x = <<addr[b], k>>
  <2>1. PICK k \in Types : x \in {<<addr[b], k>> : b \in Members(NodesOf(next, Free(k)))}
    BY Zenon DEF FreeBlocks
  <2>2. PICK b \in Members(NodesOf(next, Free(k))) : x = <<addr[b], k>>
    BY <2>1, Zenon
  <2> QED  BY <1>1, <1>2, <2>2, Zenon
<1>5. ASSUME NEW x \in AllocBlocks
      PROVE  \E b \in Blocks, k \in Types : w[b] = Alloc(k) /\ x = <<addr[b], k>>
  <2>1. PICK k \in Types : x \in {<<addr[b], k>> : b \in Members(NodesOf(next, Alloc(k)))}
    BY Zenon DEF AllocBlocks
  <2>2. PICK b \in Members(NodesOf(next, Alloc(k))) : x = <<addr[b], k>>
    BY <2>1, Zenon
  <2> QED  BY <1>1, <1>2, <2>2, Zenon
<1> QED  BY <1>3, <1>4, <1>5, Zenon

\* Where the search of RelBytes stops in the list of a type.
LEMMA PositionAt ==
  ASSUME NEW L, NEW w, Links(next, L, w), addr \in [Mem -> Nat], NEW j \in Types, NEW a \in Nat
  PROVE  \E i \in 0 .. Len(L[Alloc(j)]) :
           /\ Position(j, a) = NodeAt(Alloc(j), L[Alloc(j)], i)
           /\ Belongs(L[Alloc(j)], addr, a, i)
           /\ j \in StopTypes(a) <=> i < Len(L[Alloc(j)])
<1> DEFINE h == Alloc(j)
           s == L[h]
           stop == [p \in DOMAIN next |-> next[p] = h \/ addr[next[p]] >= a]
<1>0. h \in Heads
  BY Addresses, Zenon
<1>1. PICK i \in 0 .. Len(s) : Walk(next, h, stop) = NodeAt(h, s, i) /\ Belongs(s, addr, a, i)
  <2> HIDE DEF stop
  <2>1. stop = [p \in DOMAIN next |-> next[p] = h \/ addr[next[p]] >= a]
    BY Zenon DEF stop
  <2> QED  BY <1>0, <2>1, WalkSorted, Zenon
<1>2. Position(j, a) = NodeAt(h, s, i)
  BY <1>1, Zenon DEF Position
<1>3. Len(s) \in Nat /\ next[NodeAt(h, s, i)] = NodeAt(h, s, i + 1)
  BY <1>0, NodeFacts DEF Links, Chain
<1>4. j \in StopTypes(a) <=> NodeAt(h, s, i + 1) # h
  BY <1>2, <1>3, Zenon DEF StopTypes
<1>5. CASE i < Len(s)
  <2>1. i + 1 \in 1 .. Len(s) /\ i + 1 \in 0 .. Len(s) + 1
    BY <1>3, <1>5
  <2>2. NodeAt(h, s, i + 1) \in Blocks
    <3>1. s \in Seq(Blocks)
      BY <1>0, Zenon DEF Links
    <3> HIDE DEF s
    <3>2. NodeAt(h, s, i + 1) = s[i + 1]
      BY <1>3, <2>1 DEF NodeAt
    <3> QED  BY <2>1, <3>1, <3>2
  <2>3. NodeAt(h, s, i + 1) # h
    BY <1>0, <2>2, Addresses, Zenon
  <2> QED  BY <1>1, <1>2, <1>4, <1>5, <2>3, Zenon
<1>6. CASE ~ (i < Len(s))
  <2>1. i = Len(s)
    BY <1>3, <1>6
  <2>2. NodeAt(h, s, i + 1) = h
    BY <2>1, Zenon DEF NodeAt
  <2> QED  BY <1>1, <1>2, <1>4, <1>6, <2>2, Zenon
<1> QED  BY <1>5, <1>6, Zenon

\* No block in use that is smaller than type k is above a.
NoneAbove(a, k) == \A b \in AllocBlocks : b[2] < k => b[1] < a

\* The search of RelBytes stops in the list of type k, before a block at a.
Found(L, a, k) ==
    /\ StopTypes(a) # {} /\ Min(StopTypes(a)) = k /\ k \in Types
    /\ \E i \in 0 .. Len(L[Alloc(k)]) - 1 :
         /\ Position(k, a) = NodeAt(Alloc(k), L[Alloc(k)], i)
         /\ next[Position(k, a)] = L[Alloc(k)][i + 1] /\ addr[L[Alloc(k)][i + 1]] = a

\* RelBytes of an area in use, when no smaller block in use is above it, finds
\* its block.
LEMMA Finds ==
  ASSUME NEW L, NEW w, Shape(next, addr, L, w, NULL), InUse(addr, w, held),
         NEW a \in DOMAIN held, NEW k, k = GetMemBlockSizeType(held[a]), NoneAbove(a, k)
  PROVE  Found(L, a, k)
<1> DEFINE h == Alloc(k)
           s == L[h]
<1>1. /\ Links(next, L, w) /\ addr \in [Mem -> Nat] /\ Sorted(L, addr, NULL)
      /\ a \in Nat /\ held[a] \in Sizes
      /\ \E b \in Blocks : w[b] = h /\ addr[b] = a
  BY Zenon DEF Shape, InUse
<1>2. k \in Types /\ k \in Nat /\ h \in Heads \ {POOL}
  BY <1>1, TypeOf, BlockSizes, Addresses, Zenon
<1>3. PICK b \in Blocks : w[b] = h /\ addr[b] = a
  BY <1>1, Zenon
<1>4. s \in Seq(Blocks) /\ Len(s) \in Nat /\ \E q \in 1 .. Len(s) : s[q] = b
  <2>1. w[b] # NULL
    BY <1>2, <1>3, Addresses, Zenon
  <2>2. \E q \in 1 .. Len(L[w[b]]) : L[w[b]][q] = b
    BY <1>1, <2>1, Zenon DEF Links
  <2>3. s \in Seq(Blocks) /\ Len(s) \in Nat
    BY <1>1, <1>2, NodeFacts, Zenon
  <2> QED  BY <1>3, <2>2, <2>3, Zenon
<1>5. PICK q \in 1 .. Len(s) : s[q] = b
  BY <1>4, Zenon
<1>6. PICK i \in 0 .. Len(s) :
        /\ Position(k, a) = NodeAt(h, s, i) /\ Belongs(s, addr, a, i)
        /\ k \in StopTypes(a) <=> i < Len(s)
  BY <1>1, <1>2, PositionAt, Zenon
<1>7. \A u \in 1 .. Len(s) : s[u] \in Blocks /\ addr[s[u]] \in Nat
  <2> TAKE u \in 1 .. Len(s)
  <2>1. s[u] \in Blocks
    BY <1>4
  <2> QED  BY <1>1, <2>1, Zenon DEF Mem
<1>8. q > i
  <2> SUFFICES ASSUME q <= i PROVE FALSE
    BY <1>4
  <2>1. addr[s[q]] < a
    BY <1>4, <1>6 DEF Belongs
  <2> QED  BY <1>1, <1>3, <1>5, <2>1
<1>9. i < Len(s) /\ i \in 0 .. Len(s) - 1 /\ i + 1 \in 1 .. Len(s) /\ i \in Nat
  BY <1>4, <1>8
<1>10. q = i + 1
  <2> SUFFICES ASSUME i + 1 < q PROVE FALSE
    BY <1>4, <1>8, <1>9
  <2>1. addr[s[i + 1]] >= a
    BY <1>6, <1>9, Zenon DEF Belongs
  <2>2. s[i + 1] # NULL
    BY <1>7, <1>9, Addresses
  <2>3. addr[s[i + 1]] < addr[s[q]]
    BY <1>1, <1>2, <1>9, <2>2, Zenon DEF Sorted
  <2>4. addr[s[i + 1]] \in Nat /\ addr[s[q]] = a /\ a \in Nat
    BY <1>1, <1>3, <1>5, <1>7, <1>9, Zenon
  <2> HIDE DEF s
  <2> QED  BY <2>1, <2>3, <2>4
<1>11. next[Position(k, a)] = s[i + 1]
  <2>1. next[NodeAt(h, s, i)] = NodeAt(h, s, i + 1)
    BY <1>1, <1>2 DEF Links, Chain
  <2>2. NodeAt(h, s, i + 1) = s[i + 1]
    BY <1>9 DEF NodeAt
  <2> QED  BY <1>6, <2>1, <2>2, Zenon
<1>12. k \in StopTypes(a)
  BY <1>6, <1>9, Zenon
<1>13. \A j \in StopTypes(a) : k <= j
  <2> SUFFICES ASSUME NEW j \in StopTypes(a), ~ (k <= j) PROVE FALSE
    OBVIOUS
  <2>1. j \in Types /\ j \in Nat /\ j < k
    <3>1. j \in Types
      BY Zenon DEF StopTypes
    <3>2. j \in Nat /\ k \in Nat
      BY <1>2, <3>1, BlockSizes, Zenon
    <3> QED  BY <3>1, <3>2
  <2> DEFINE g == Alloc(j)
             r == L[g]
  <2>2. PICK x \in 0 .. Len(r) : Belongs(r, addr, a, x) /\ x < Len(r)
    BY <1>1, <2>1, PositionAt, Zenon
  <2>3. g \in Heads /\ Len(r) \in Nat /\ r \in Seq(Blocks)
    BY <1>1, <2>1, Addresses, NodeFacts, Zenon
  <2>4. x + 1 \in 1 .. Len(r) /\ addr[r[x + 1]] >= a
    BY <2>2, <2>3 DEF Belongs
  <2>5. r[x + 1] \in Blocks /\ w[r[x + 1]] = g
    BY <1>1, <2>3, <2>4 DEF Links
  <2>6. <<addr[r[x + 1]], j>> \in AllocBlocks
    BY <1>1, <2>1, <2>5, BlockSets, Zenon
  <2>7. addr[r[x + 1]] < a
    BY <2>1, <2>6, Zenon DEF NoneAbove
  <2>8. addr[r[x + 1]] \in Nat
    BY <1>1, <2>5, Zenon DEF Mem
  <2> QED  BY <1>1, <2>4, <2>7, <2>8
<1>14. Min(StopTypes(a)) = k
  <2>1. StopTypes(a) \subseteq Nat /\ StopTypes(a) # {}
    BY <1>12, BlockSizes, Zenon DEF StopTypes
  <2>2. Min(StopTypes(a)) \in StopTypes(a) /\ \A x \in StopTypes(a) : Min(StopTypes(a)) <= x
    BY <2>1, MinOf, Zenon
  <2> QED  BY <1>2, <1>12, <1>13, <2>1, <2>2
<1>15. addr[s[i + 1]] = a
  BY <1>3, <1>5, <1>10, Zenon
<1> QED  BY <1>2, <1>6, <1>9, <1>11, <1>12, <1>14, <1>15, Zenon DEF Found

\* Division, one divisor further.
LEMMA DivNext ==
  ASSUME NEW y \in Nat, NEW s \in Nat \ {0}
  PROVE  y \div s \in Nat /\ (y + s) \div s = (y \div s) + 1
OBVIOUS

\* Block b goes from the allocated list of type k to the free one.
Back(w, v, b, k) == \A c \in Blocks : v[c] = IF c = b THEN Free(k) ELSE w[c]

\* When its buddy is not free, it is no half of a pair of free blocks then.
LEMMA GiveCalm ==
  ASSUME NEW L, NEW w, Links(next, L, w), addr \in [Mem -> Nat], Placed(addr, w),
         Calm(addr, w, NULL), NEW k \in Types, NEW b \in Blocks, NEW v, Back(w, v, b, k),
         NEW a, a = addr[b], <<Buddy(a, k), k>> \notin FreeBlocks
  PROVE  Calm(addr, v, NULL)
<1> DEFINE sz == GetMemBlockSize(k)
<1>0. sz \in Nat \ {0} /\ reserved_size \in Nat /\ a \in Nat
  BY BlockSizes, Zenon DEF Mem
<1>1. SUFFICES ASSUME NEW c \in Blocks, NEW d \in Blocks, NEW j \in Types,
                      v[c] = Free(j), v[d] = Free(j), addr[c] + GetMemBlockSize(j) = addr[d],
                      c = b \/ d = b
               PROVE  ((addr[c] - reserved_size) \div GetMemBlockSize(j)) % 2 # 0
  BY Addresses DEF Calm, Back
<1>2. j = k /\ c # d /\ addr[c] \in Nat /\ addr[d] \in Nat
  <2>1. j = k
    BY <1>1, Addresses, Zenon DEF Back
  <2>2. addr[c] \in Nat /\ addr[d] \in Nat
    BY Zenon DEF Mem
  <2> QED  BY <1>0, <1>1, <2>1, <2>2
<1>3. CASE c = b
  <2>1. w[d] = Free(k) /\ addr[d] = a + sz
    BY <1>1, <1>2, <1>3, Zenon DEF Back
  <2>2. <<a + sz, k>> \in FreeBlocks
    BY <2>1, BlockSets
  <2>3. ((a - reserved_size) \div sz) % 2 # 0
    BY <2>2, Zenon DEF Buddy
  <2> QED  BY <1>2, <1>3, <2>3, Zenon
<1>4. CASE d = b
  <2>1. w[c] = Free(k) /\ addr[c] + sz = a
    BY <1>1, <1>2, <1>4, Zenon DEF Back
  <2>2. addr[c] = a - sz
    BY <1>0, <1>2, <2>1
  <2>3. <<a - sz, k>> \in FreeBlocks
    BY <2>1, <2>2, BlockSets
  <2>4. ~ (((a - reserved_size) \div sz) % 2 # 0)
    BY <2>3, Zenon DEF Buddy
  <2>5. reserved_size <= addr[c]
    BY <2>1, Zenon DEF Placed
  <2> DEFINE y == addr[c] - reserved_size
             u == y \div sz
  <2>6. y \in Nat /\ a - reserved_size = y + sz
    <3> HIDE DEF sz
    <3>1. /\ addr[c] \in Nat /\ sz \in Nat /\ reserved_size \in Nat
          /\ addr[c] + sz = a /\ reserved_size <= addr[c]
      BY <1>0, <1>2, <2>1, <2>5, Zenon
    <3> QED  BY <3>1
  <2>7. (y + sz) \div sz = u + 1 /\ u \in Nat
    <3> HIDE DEF y
    <3> QED  BY <1>0, <2>6, DivNext, Zenon
  <2>8. (u + 1) % 2 = 0
    BY <1>0, <2>4, <2>6, <2>7, Zenon
  <2> HIDE DEF u
  <2>9. u % 2 # 0
    BY <2>7, <2>8
  <2> QED  BY <1>2, <1>4, <2>9, Zenon DEF u
<1> QED  BY <1>1, <1>3, <1>4, Zenon

\* And the users hold what they held but for the area of b.
LEMMA GiveUse ==
  ASSUME NEW w, NEW hd, InUse(addr, w, hd), NEW a \in DOMAIN hd, NEW k \in Types,
         NEW b \in Blocks, addr[b] = a, NEW v, Back(w, v, b, k),
         \A c \in Blocks : w[c] # POOL /\ c # b => addr[c] # a
  PROVE  InUse(addr, v, Given(hd, a))
<1> DEFINE hd2 == Given(hd, a)
<1>0. /\ DOMAIN hd2 = DOMAIN hd \ {a} /\ (\A c \in DOMAIN hd2 : hd2[c] = hd[c])
      /\ a \in Nat /\ reserved_size <= a /\ reserved_size \in Nat
  BY BlockSizes, Zenon DEF Given, InUse
<1> HIDE DEF hd2
<1>1. ASSUME NEW c \in DOMAIN hd2
      PROVE  /\ hd2[c] \in Sizes /\ c \in Nat
             /\ reserved_size <= c /\ c + GetMemBlockSize(GetMemBlockSizeType(hd2[c])) <= Area
             /\ \E d \in Blocks : v[d] = Alloc(GetMemBlockSizeType(hd2[c])) /\ addr[d] = c
  <2>1. c \in DOMAIN hd /\ c # a /\ hd2[c] = hd[c]
    BY <1>0, Zenon
  <2>2. PICK d \in Blocks : w[d] = Alloc(GetMemBlockSizeType(hd[c])) /\ addr[d] = c
    BY <2>1, Zenon DEF InUse
  <2>3. d # b
    BY <2>1, <2>2, Zenon
  <2>4. v[d] = Alloc(GetMemBlockSizeType(hd2[c])) /\ addr[d] = c
    BY <2>1, <2>2, <2>3, Zenon DEF Back
  <2> QED  BY <2>1, <2>4, Zenon DEF InUse
<1>2. \E d \in Blocks : v[d] = Alloc(GetMemBlockSizeType(K_END)) /\ addr[d] = 0
  <2>1. PICK d \in Blocks : w[d] = Alloc(GetMemBlockSizeType(K_END)) /\ addr[d] = 0
    BY Zenon DEF InUse
  <2>2. reserved_size # 0
    BY BlockSizes, Zenon
  <2>3. d # b
    BY <1>0, <2>1, <2>2
  <2> QED  BY <2>1, <2>3, Zenon DEF Back
<1>3. ASSUME NEW d \in Blocks, NEW j \in Types, v[d] = Alloc(j)
      PROVE  \/ addr[d] = 0 /\ j = GetMemBlockSizeType(K_END)
             \/ addr[d] \in DOMAIN hd2 /\ j = GetMemBlockSizeType(hd2[addr[d]])
  <2>1. d # b /\ w[d] = Alloc(j)
    BY <1>3, Addresses DEF Back
  <2>2. w[d] # POOL
    BY <2>1, Addresses, Zenon
  <2>3. addr[d] # a
    BY <2>1, <2>2, Zenon
  <2>4. \/ addr[d] = 0 /\ j = GetMemBlockSizeType(K_END)
        \/ addr[d] \in DOMAIN hd /\ j = GetMemBlockSizeType(hd[addr[d]])
    BY <2>1, Zenon DEF InUse
  <2> QED  BY <1>0, <2>3, <2>4, Zenon
<1>4. InUse(addr, v, hd2)
  BY <1>1, <1>2, <1>3, Zenon DEF InUse
<1> QED  BY <1>4, Zenon DEF hd2

\* RelBytes has found block b, place i of its list, of the area a in use, whose
\* buddy is not free, and n2 are the links when it has moved b.
Giving(L, w, e, a, k, i, b, n2) ==
    /\ Shape(next, addr, L, w, NULL) /\ Covered(addr, w, e) /\ InUse(addr, w, held)
    /\ k = GetMemBlockSizeType(held[a]) /\ k \in Types
    /\ i \in 0 .. Len(L[Alloc(k)]) - 1 /\ b = L[Alloc(k)][i + 1] /\ addr[b] = a
    /\ <<Buddy(a, k), k>> \notin FreeBlocks
    /\ n2 = Insert(ListRemove(next, NodeAt(Alloc(k), L[Alloc(k)], i)), addr, Free(k), b, a)

\* There is nothing to merge, and a is free.
GivenBack(n2, e, a, k) ==
    MergeBlock(n2, addr, k) = n2 /\ Settled(n2, addr, e, Given(held, a))

\* A block in use goes back to its free list, and its area with it, when its
\* buddy is not free: there is nothing to merge.
LEMMA GiveShape ==
  ASSUME NEW L, NEW w, NEW e, NEW a \in DOMAIN held, NEW k, NEW i, NEW b, NEW n2,
         Giving(L, w, e, a, k, i, b, n2)
  PROVE  GivenBack(n2, e, a, k)
<1> DEFINE g == Alloc(k)
           h == Free(k)
           v == [w EXCEPT ![b] = h]
           hd2 == Given(held, a)
           sz == GetMemBlockSize(k)
<1>0. /\ Shape(next, addr, L, w, NULL) /\ Covered(addr, w, e) /\ InUse(addr, w, held)
      /\ k = GetMemBlockSizeType(held[a]) /\ k \in Types
      /\ i \in 0 .. Len(L[Alloc(k)]) - 1 /\ b = L[Alloc(k)][i + 1] /\ addr[b] = a
      /\ <<Buddy(a, k), k>> \notin FreeBlocks
      /\ n2 = Insert(ListRemove(next, NodeAt(Alloc(k), L[Alloc(k)], i)), addr, Free(k), b, a)
  BY Zenon DEF Giving
<1> USE <1>0
<1>1. /\ Links(next, L, w) /\ (\A c \in Blocks : w[c] # NULL) /\ addr \in [Mem -> Nat]
      /\ Placed(addr, w) /\ Gridded(addr, w) /\ Calm(addr, w, NULL)
  BY Zenon DEF Shape
<1>2. /\ g \in Heads \ {POOL} /\ h \in Heads \ {POOL} /\ g # h /\ g[2] = k /\ h[2] = k
      /\ NULL \notin Heads
  BY Addresses, Zenon
<1>3. b \in Blocks /\ w[b] = g
  <2>1. Len(L[g]) \in Nat
    BY <1>1, <1>2, NodeFacts, Zenon
  <2>2. i + 1 \in 1 .. Len(L[g]) /\ i + 1 \in 0 .. Len(L[g]) + 1
    BY <2>1
  <2> QED  BY <1>1, <1>2, <2>2, NodeFacts
<1>4. w \in [Blocks -> Heads]
  BY <1>1 DEF Links
<1>5. Sorted(L, addr, b)
  <2>1. Shape(next, addr, L, w, b)
    BY ShapeBut, Zenon
  <2> QED  BY <2>1, Zenon DEF Shape
<1>6. /\ b \in Mem /\ a \in Nat /\ k \in Nat /\ sz \in Nat \ {0} /\ reserved_size \in Nat
      /\ SizeAt(w, b) = sz /\ held[a] \in Sizes /\ reserved_size <= a /\ a + sz <= Area
  BY <1>2, <1>3, BlockSizes, Zenon DEF Mem, SizeAt, InUse
<1>7. /\ \A x, y \in Blocks :
           v[x] # POOL /\ v[y] # POOL /\ x # y =>
             addr[x] + SizeAt(v, x) <= addr[y] \/ addr[y] + SizeAt(v, y) <= addr[x]
      /\ Covered(addr, v, e)
      /\ \A c \in Blocks : w[c] # POOL /\ c # b =>
           /\ addr[c] # addr[b]
           /\ addr[c] + SizeAt(w, c) <= addr[b] \/ addr[b] + SizeAt(w, b) <= addr[c]
  <2>1. w[b] # POOL /\ w[b][2] = h[2]
    BY <1>2, <1>3, Zenon
  <2>2. Relabelled(addr, w, v, b, e)
    <3> HIDE DEF h
    <3> QED  BY <1>1, <1>2, <1>3, <1>4, <2>1, Relabel, Zenon
  <2> HIDE DEF v
  <2> QED  BY <2>2, Zenon DEF Relabelled
<1>8. \A c \in Blocks : v[c] = IF c = b THEN h ELSE w[c]
  BY <1>4, Zenon
<1>9. PICK M : Links(n2, M, v) /\ Sorted(M, addr, NULL)
  <2>1. \A c \in Blocks : w[c] = h => addr[c] # addr[b]
    BY <1>2, <1>3, <1>7, Zenon
  <2>2. Moved(Insert(ListRemove(next, NodeAt(g, L[g], i)), addr, h, b, addr[b]), L, addr, v, g, h)
    <3>1. i \in 0 .. Len(L[g]) - 1 /\ b = L[g][i + 1]
      OBVIOUS
    <3> HIDE DEF g, h
    <3> QED  BY <3>1, <1>1, <1>2, <1>3, <1>5, <2>1, Transfer, Zenon
  <2> HIDE DEF v
  <2> QED  BY <2>2, Zenon DEF Moved
<1> HIDE DEF v
<1>10. Placed(addr, v)
  <2>1. \A c \in Blocks, j \in Types : v[c] = Free(j) => w[c] = Free(j) \/ (c = b /\ j = k)
    BY <1>8, Addresses, Zenon
  <2> QED  BY <1>1, <1>6, <1>7, <2>1, Zenon DEF Placed
<1>11. Back(w, v, b, k) /\ Calm(addr, v, NULL)
  <2>1. Back(w, v, b, k)
    BY <1>8, Zenon DEF Back
  <2> QED  BY <1>1, <1>3, <2>1, GiveCalm, Zenon
<1>12. Shape(n2, addr, M, v, NULL)
  <2>1. \A c \in Blocks : v[c] # NULL
    BY <1>1, <1>2, <1>8, Zenon
  <2>2. OnGrid(addr[b], k)
    <3>1. w[b] = Alloc(k) /\ addr[b] # 0
      BY <1>3, <1>6, BlockSizes
    <3> QED  BY <1>1, <1>3, <3>1, Zenon DEF Gridded
  <2>3. Gridded(addr, v)
    <3>1. GridMove(addr, w, addr, v, {b}, k)
      BY <1>8, <2>2, Zenon DEF GridMove
    <3> QED  BY <1>1, <3>1, GridKept, Zenon
  <2> QED  BY <1>1, <1>9, <1>10, <1>11, <2>1, <2>3, Zenon DEF Shape
<1>13. MergeBlock(n2, addr, k) = n2
  BY <1>1, <1>9, <1>11, MergeNothing
<1>14. InUse(addr, v, hd2)
  <2>1. \A c \in Blocks : w[c] # POOL /\ c # b => addr[c] # a
    BY <1>7, Zenon
  <2> QED  BY <1>3, <1>11, <2>1, GiveUse
<1> HIDE DEF hd2
<1>15. Settled(n2, addr, e, hd2)
  BY <1>7, <1>12, <1>14, Zenon DEF Settled
<1> QED  BY <1>13, <1>15, Zenon DEF hd2, GivenBack

\* A step of RelBytes that starts no merging.
LEMMA GiveStep ==
  ASSUME AllocatorInv, Release = "lone", NEW a \in DOMAIN held, MayRelease(a), RelBytes(a)
  PROVE  AllocatorInv' /\ held' = Given(held, a)
<1> DEFINE k == GetMemBlockSizeType(held[a])
           p == Position(k, a)
<1>1. PICK L, w : Whole(L, w)
  BY Zenon DEF AllocatorInv
<1>2. /\ Shape(next, addr, L, w, NULL) /\ Links(next, L, w)
      /\ Covered(addr, w, fill.i) /\ InUse(addr, w, held)
  BY <1>1, Zenon DEF Whole, Shape
<1>3. <<Buddy(a, k), k>> \notin FreeBlocks /\ NoneAbove(a, k)
  BY Zenon DEF MayRelease, NoneAbove
<1>4. ~ Filling /\ fill' = fill /\ addr' = addr /\ failed' = 0 /\ held' = Given(held, a)
  BY Zenon DEF RelBytes, Given
<1>5. /\ StopTypes(a) # {} /\ Min(StopTypes(a)) = k /\ k \in Types
      /\ \E i \in 0 .. Len(L[Alloc(k)]) - 1 :
           /\ p = NodeAt(Alloc(k), L[Alloc(k)], i)
           /\ next[p] = L[Alloc(k)][i + 1] /\ addr[L[Alloc(k)][i + 1]] = a
  <2>1. Found(L, a, k)
    BY <1>2, <1>3, Finds, Zenon
  <2> QED  BY <2>1, Zenon DEF Found
<1>6. PICK i \in 0 .. Len(L[Alloc(k)]) - 1 :
        /\ p = NodeAt(Alloc(k), L[Alloc(k)], i)
        /\ next[p] = L[Alloc(k)][i + 1] /\ addr[L[Alloc(k)][i + 1]] = a
  BY <1>5, Zenon
<1> DEFINE b == L[Alloc(k)][i + 1]
           n2 == Insert(ListRemove(next, p), addr, Free(k), b, a)
<1>7. next' = MergeBlock(n2, addr, k)
  <2> HIDE DEF k
  <2>1. addr[next[p]] = a /\ next[p] = b
    BY <1>6, Zenon
  <2>2. next' = MergeBlock(Insert(ListRemove(next, p), addr, Free(k), next[p], a), addr, k)
    BY <1>5, <2>1, Zenon DEF RelBytes
  <2> QED  BY <2>1, <2>2, Zenon
<1>8. GivenBack(n2, fill.i, a, k)
  <2>1. n2 = Insert(ListRemove(next, NodeAt(Alloc(k), L[Alloc(k)], i)), addr, Free(k), b, a)
    BY <1>6, Zenon
  <2> HIDE DEF n2
  <2>2. Giving(L, w, fill.i, a, k, i, b, n2)
    BY <1>2, <1>3, <1>5, <1>6, <2>1, Zenon DEF Giving
  <2> HIDE DEF k, b
  <2> QED  BY <2>2, GiveShape, Zenon
<1>9. Settled(next', addr', fill.i, held')
  BY <1>4, <1>7, <1>8, Zenon DEF GivenBack
<1> QED  BY <1>1, <1>4, <1>9, Onward, Zenon

=============================================================================
