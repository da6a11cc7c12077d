-------------------------- MODULE AllocatorProofs ---------------------------
(***************************************************************************)
(* The buddy allocator is right, for every number of types, pool, area,    *)
(* kernel image and set of request sizes, as long as the pool never runs   *)
(* out of MemBlocks and an area is released only when that starts no       *)
(* merging.                                                                *)
(***************************************************************************)
EXTENDS GrantProofs, GiveProofs, FiniteSetTheorems

-----------------------------------------------------------------------------
(* DirectMappingInit.                                                      *)

\* The lists L with block b moved from the pool to the empty list of h.
Made(n, M, v, L, w, h, b) ==
    /\ Links(n, M, v) /\ b \in Blocks /\ w[b] = POOL /\ Len(M[h]) = 1
    /\ \A f \in Heads \ {POOL, h} : M[f] = L[f]
    /\ \A c \in Blocks : v[c] = IF c = b THEN h ELSE w[c]

\* DirectMappingInit puts a MemBlock of the pool in an empty list.
LEMMA MakeFirst ==
  ASSUME NEW n, NEW L, NEW w, Links(n, L, w), L[POOL] # <<>>,
         NEW h \in Heads \ {POOL}, L[h] = <<>>
  PROVE  \E M, v : Made(ListAdd(AfterReqMemBlock(n), h, ReqMemBlock(n)), M, v, L, w, h, ReqMemBlock(n))
<1> DEFINE b == L[POOL][1]
           n2 == ListAdd(AfterReqMemBlock(n), h, b)
           M == [L EXCEPT ![POOL] = Del(L[POOL], 0), ![h] = Ins(L[h], 0, b)]
           v == [w EXCEPT ![b] = h]
<1>1. Links(n2, M, v)
  BY LinksMake, Zenon
<1>2. ReqMemBlock(n) = b /\ b \in Blocks /\ w[b] = POOL
  BY FirstOf, Addresses DEF ReqMemBlock
<1>3. L \in [Heads -> Seq(Blocks)] /\ w \in [Blocks -> Heads \cup {NULL}]
  BY Zenon DEF Links
<1>4. Len(M[h]) = 1
  <2>1. M[h] = Ins(L[h], 0, b)
    BY <1>3, Zenon
  <2>2. L[h] \in Seq(Blocks) /\ Len(L[h]) = 0 /\ 0 \in 0 .. Len(L[h])
    BY <1>3
  <2> HIDE DEF b, M
  <2>3. Len(Ins(L[h], 0, b)) = Len(L[h]) + 1
    BY <1>2, <2>2, InsDel, Zenon
  <2> QED  BY <2>1, <2>2, <2>3
<1>5. \A f \in Heads \ {POOL, h} : M[f] = L[f]
  BY <1>3, Zenon
<1>6. \A c \in Blocks : v[c] = IF c = b THEN h ELSE w[c]
  BY <1>3, Zenon
<1> HIDE DEF M, v, b
<1>7. Made(n2, M, v, L, w, h, b)
  BY <1>1, <1>2, <1>4, <1>5, <1>6, Zenon DEF Made
<1> QED  BY <1>2, <1>7, Zenon

\* A list of one is sorted, and so are the lists that did not change.
LEMMA MadeSorted ==
  ASSUME NEW n, NEW M, NEW v, NEW L, NEW w, NEW h \in Heads \ {POOL}, NEW b,
         Made(n, M, v, L, w, h, b), NEW ad, NEW ad2, Sorted(L, ad, NULL),
         \A c \in Blocks \ {b} : ad2[c] = ad[c]
  PROVE  Sorted(M, ad2, NULL)
<1> SUFFICES ASSUME NEW f \in Heads \ {POOL}, NEW i \in 1 .. Len(M[f]), NEW j \in 1 .. Len(M[f]),
                    i < j, M[f][i] # NULL
             PROVE  ad2[M[f][i]] < ad2[M[f][j]]
  BY Zenon DEF Sorted
<1>1. f # h
  <2> SUFFICES ASSUME f = h PROVE FALSE
    OBVIOUS
  <2>1. Len(M[f]) = 1
    BY Zenon DEF Made
  <2>2. i \in 1 .. 1 /\ j \in 1 .. 1
    BY <2>1, Zenon
  <2> QED  BY <2>2
<1>2. M[f] = L[f] /\ M[f] \in Seq(Blocks)
  BY <1>1, Zenon DEF Made, Links
<1>3. M[f][i] \in Blocks /\ M[f][j] \in Blocks /\ v[M[f][i]] = f /\ v[M[f][j]] = f
  BY <1>2 DEF Made, Links
<1>4. M[f][i] # b /\ M[f][j] # b
  BY <1>1, <1>3, Zenon DEF Made
<1> QED  BY <1>2, <1>3, <1>4, Zenon DEF Sorted

\* A turn of the loop of DirectMappingInit.
LEMMA FillKeeps ==
  ASSUME AllocatorInv, PoolSuffices, FillStep
  PROVE  AllocatorInv' /\ UNCHANGED held
<1> DEFINE j == fill.j
           e == fill.i
           sz == GetMemBlockSize(fill.j)
           h == Free(fill.j)
           b == ReqMemBlock(next)
<1>1. PICK L, w : Whole(L, w)
  BY Zenon DEF AllocatorInv
<1>2. /\ Shape(next, addr, L, w, NULL) /\ Covered(addr, w, e) /\ InUse(addr, w, held)
      /\ FillInv(addr, L, w) /\ Refused(w)
  BY <1>1, Zenon DEF Whole
<1>3. /\ Links(next, L, w) /\ (\A c \in Blocks : w[c] # NULL) /\ addr \in [Mem -> Nat]
      /\ Placed(addr, w) /\ Gridded(addr, w) /\ Sorted(L, addr, NULL) /\ Calm(addr, w, NULL)
  BY <1>2, Zenon DEF Shape
<1>4. /\ Filling /\ j \in Types /\ e \in Nat /\ Area \in Nat /\ sz \in Nat \ {0} /\ j \in Nat
      /\ reserved_size <= e /\ reserved_size \in Nat /\ failed = 0 /\ h \in Heads \ {POOL} /\ h[2] = j
      /\ Area - e < 2 * sz /\ fill = [i |-> e, j |-> j] /\ kMemBlockTypeNum \in Nat
      /\ OnGrid(e, j)
  <2>1. Filling
    BY Zenon DEF FillStep
  <2>2. j \in Types /\ e \in Nat /\ j \in Nat /\ kMemBlockTypeNum \in Nat
    BY <1>2, <2>1, BlockSizes DEF FillInv, Filling, Types
  <2>3. GetMemBlockSize(j + 1) = 2 * sz
    BY <2>2, SizeDoubles, Zenon
  <2> QED  BY <1>2, <2>1, <2>2, <2>3, BlockSizes, Addresses DEF FillInv
<1>5. UNCHANGED <<held, failed>>
  BY Zenon DEF FillStep
<1>6. CASE e + sz <= Area
  <2>1. /\ next' = ListAdd(AfterReqMemBlock(next), h, b) /\ addr' = [addr EXCEPT ![b] = e]
        /\ fill' = [i |-> e + sz, j |-> j]
    BY <1>4, <1>6, Zenon DEF FillStep
  <2>2. L[h] = <<>> /\ L[POOL] # <<>>
    <3>1. ~ IsListEmpty(next, POOL)
      BY <1>4, <1>6, Zenon DEF PoolSuffices
    <3> QED  BY <1>2, <1>3, <1>4, <1>6, <3>1, FirstOf, Addresses, Zenon DEF FillInv
  <2>3. PICK M, v : Made(next', M, v, L, w, h, b)
    BY <1>3, <1>4, <2>1, <2>2, MakeFirst, Zenon
  <2> HIDE DEF b, sz, h, j, e
  <2>4. /\ b \in Blocks /\ w[b] = POOL /\ b \in Mem
        /\ \A c \in Blocks : v[c] = IF c = b THEN h ELSE w[c]
    BY <2>3, Zenon DEF Made, Mem
  <2>5. addr' \in [Mem -> Nat] /\ addr'[b] = e /\ \A c \in Blocks \ {b} : addr'[c] = addr[c]
    BY <1>3, <1>4, <2>1, <2>4, Zenon DEF Mem
  <2>6. \A c \in Blocks : /\ addr[c] \in Nat /\ SizeAt(w, c) \in Nat /\ w[c] # h
                          /\ w[c] # POOL => addr[c] + SizeAt(w, c) <= e
    <3> TAKE c \in Blocks
    <3>1. addr[c] \in Nat /\ w[c] \in Heads /\ w[c] # NULL
      BY <1>3 DEF Mem, Links
    <3>2. SizeAt(w, c) \in Nat
      BY <3>1, BlockSizes, Zenon DEF SizeAt
    <3>3. w[c] # h
      <4>1. \E q \in 1 .. Len(L[w[c]]) : L[w[c]][q] = c
        BY <1>3, <3>1, Zenon DEF Links
      <4> QED  BY <2>2, <4>1
    <3>4. w[c] # POOL => addr[c] + SizeAt(w, c) <= e
      BY <1>2, <1>4, Zenon DEF FillInv, e
    <3> QED  BY <3>1, <3>2, <3>3, <3>4, Zenon
  <2>7. \A c \in Blocks : /\ addr'[c] = IF c = b THEN e ELSE addr[c]
                          /\ SizeAt(v, c) = IF c = b THEN sz ELSE SizeAt(w, c)
                          /\ v[c] # POOL <=> c = b \/ w[c] # POOL
    BY <1>4, <2>4, <2>5, Zenon DEF SizeAt, sz, j
  <2>8. Placed(addr', v)
    <3>1. ASSUME NEW x \in Blocks, NEW y \in Blocks, v[x] # POOL, v[y] # POOL, x # y
          PROVE  addr'[x] + SizeAt(v, x) <= addr'[y] \/ addr'[y] + SizeAt(v, y) <= addr'[x]
      <4>1. CASE x = b
        BY <2>6, <2>7, <3>1, <4>1, Zenon
      <4>2. CASE y = b
        BY <2>6, <2>7, <3>1, <4>2, Zenon
      <4>3. CASE x # b /\ y # b
        BY <1>3, <2>7, <3>1, <4>3, Zenon DEF Placed
      <4> QED  BY <4>1, <4>2, <4>3, Zenon
    <3>2. ASSUME NEW c \in Blocks, NEW k \in Types, v[c] = Free(k)
          PROVE  reserved_size <= addr'[c] /\ addr'[c] + GetMemBlockSize(k) <= Area
      <4>1. CASE c = b
        <5>1. k = j
          BY <2>4, <3>2, <4>1, Addresses DEF h, j
        <5> QED  BY <1>4, <1>6, <2>5, <4>1, <5>1, Zenon DEF sz, j
      <4>2. CASE c # b
        BY <1>3, <2>4, <2>7, <3>2, <4>2, Zenon DEF Placed
      <4> QED  BY <4>1, <4>2, Zenon
    <3> QED  BY <3>1, <3>2, Zenon DEF Placed
  <2>9. Sorted(M, addr', NULL)
    BY <1>3, <1>4, <2>3, <2>5, MadeSorted
  <2>10. Calm(addr', v, NULL)
    <3> SUFFICES ASSUME NEW c \in Blocks, NEW d \in Blocks, NEW k \in Types,
                        v[c] = Free(k), v[d] = Free(k), addr'[c] + GetMemBlockSize(k) = addr'[d]
                 PROVE  ((addr'[c] - reserved_size) \div GetMemBlockSize(k)) % 2 # 0
      BY Zenon DEF Calm
    <3>1. GetMemBlockSize(k) \in Nat \ {0} /\ addr'[c] \in Nat
      BY <2>5, BlockSizes, Zenon DEF Mem
    <3>2. c # d
      BY <3>1
    <3>3. c # b /\ d # b
      BY <2>4, <2>6, <3>2, Zenon
    <3>4. addr'[c] = addr[c] /\ addr'[d] = addr[d] /\ w[c] = Free(k) /\ w[d] = Free(k)
      BY <2>4, <2>7, <3>3, Zenon
    <3>5. c # NULL /\ d # NULL
      BY Addresses, Zenon
    <3> QED  BY <1>3, <3>4, <3>5, Zenon DEF Calm
  <2>11. Shape(next', addr', M, v, NULL)
    <3>1. \A c \in Blocks : v[c] # NULL
      BY <1>3, <1>4, <2>4, Addresses
    <3>2. Links(next', M, v)
      BY <2>3, Zenon DEF Made
    <3>3. Gridded(addr', v)
      <4>1. GridMove(addr, w, addr', v, {b}, j)
        BY <1>4, <2>4, <2>7, Zenon DEF GridMove, h, j
      <4> QED  BY <1>3, <1>4, <4>1, GridKept, Zenon
    <3> QED  BY <2>5, <2>8, <2>9, <2>10, <3>1, <3>2, <3>3, Zenon DEF Shape
  <2>12. Covered(addr', v, e + sz)
    <3> SUFFICES ASSUME NEW x \in 0 .. Area - 1, x < e + sz
                 PROVE  \E c \in Blocks : v[c] # POOL /\ addr'[c] <= x /\ x < addr'[c] + SizeAt(v, c)
      BY Zenon DEF Covered
    <3>1. CASE x < e
      <4>1. PICK c \in Blocks : w[c] # POOL /\ addr[c] <= x /\ x < addr[c] + SizeAt(w, c)
        BY <1>2, <3>1, Zenon DEF Covered
      <4>2. c # b
        BY <2>4, <4>1, Zenon
      <4> QED  BY <2>7, <4>1, <4>2, Zenon
    <3>2. CASE ~ (x < e)
      <4>1. v[b] # POOL /\ addr'[b] <= x /\ x < addr'[b] + SizeAt(v, b)
        BY <1>4, <2>4, <2>7, <3>2
      <4> QED  BY <2>4, <4>1, Zenon
    <3> QED  BY <3>1, <3>2, Zenon
  <2>13. InUse(addr', v, held)
    <3>1. \A c \in Blocks : \A k : w[c] = Alloc(k) => c # b /\ v[c] = Alloc(k) /\ addr'[c] = addr[c]
      <4>1. \A k : POOL # Alloc(k)
        BY Zenon DEF POOL, Alloc
      <4> QED  BY <2>4, <2>7, <4>1, Zenon
    <3>2. \A c \in Blocks : \A k : v[c] = Alloc(k) => w[c] = Alloc(k) /\ addr'[c] = addr[c]
      BY <2>4, <2>7, Addresses DEF h
    <3> QED  BY <1>2, <3>1, <3>2 DEF InUse
  <2>14. FillInv(addr, M, v)'
    <3>1. fill'.i = e + sz /\ fill'.j = j /\ fill' = [i |-> fill'.i, j |-> fill'.j] /\ e + sz \in Nat
      BY <1>4, <2>1
    <3>2. \A k \in Types : k < j => M[Free(k)] = <<>>
      <4> TAKE k \in Types
      <4>1. k < j => L[Free(k)] = <<>>
        BY <1>2, <1>4, Zenon DEF FillInv, j
      <4>2. k < j => Free(k) \in Heads \ {POOL, h}
        BY <1>4, Addresses, BlockSizes DEF h, j
      <4> QED  BY <2>3, <4>1, <4>2, Zenon DEF Made
    <3>3. \A c \in Blocks : v[c] # POOL => addr'[c] + SizeAt(v, c) <= e + sz
      BY <1>4, <2>6, <2>7
    <3>4. ~ ((e + sz) + sz <= Area) /\ Area - (e + sz) < 2 * sz
      BY <1>4
    <3>5. GetMemBlockSize(j) = sz /\ GetMemBlockSize(j + 1) = 2 * sz
      BY <1>4, SizeDoubles, Zenon DEF sz, j
    <3>6. j \in -1 .. kMemBlockTypeNum - 1
      BY <1>4 DEF Types
    <3>7. reserved_size <= e + sz /\ failed' = 0
      BY <1>4, <1>5
    <3>8. OnGrid(e + sz, j)
      BY <1>4, GridNext, Zenon DEF sz, j
    <3> QED  BY <3>1, <3>2, <3>3, <3>4, <3>5, <3>6, <3>7, <3>8, Zenon DEF FillInv
  <2>15. Refused(v)'
    BY <1>4, <1>5, Zenon DEF Refused
  <2>16. Whole(M, v)'
    BY <1>5, <2>1, <2>11, <2>12, <2>13, <2>14, <2>15, Zenon DEF Whole
  <2> QED  BY <1>5, <2>16, Zenon DEF AllocatorInv
<1>7. CASE ~ (e + sz <= Area)
  <2>1. next' = next /\ addr' = addr /\ fill' = [i |-> e, j |-> j - 1]
    BY <1>4, <1>7, Zenon DEF FillStep
  <2> HIDE DEF sz, j, e
  <2>2. FillInv(addr, L, w)'
    <3>1. fill'.i = e /\ fill'.j = j - 1 /\ fill' = [i |-> fill'.i, j |-> fill'.j]
      BY <2>1, Zenon
    <3>2. Area - e < sz /\ (j - 1) + 1 = j /\ GetMemBlockSize(j) = sz
      BY <1>4, <1>7 DEF sz, j
    <3>3. j - 1 \in -1 .. kMemBlockTypeNum - 1
      BY <1>4 DEF Types
    <3>4. \A k \in Types : k <= j - 1 => L[Free(k)] = <<>>
      <4> TAKE k \in Types
      <4>1. k \in Nat
        BY BlockSizes, Zenon
      <4>2. k < j => L[Free(k)] = <<>>
        BY <1>2, <1>4, Zenon DEF FillInv, j
      <4> QED  BY <1>4, <4>1, <4>2
    <3>5. j - 1 >= 0 => j - 1 \in Types
      BY <1>4 DEF Types
    <3>6. \A c \in Blocks : w[c] # POOL => addr[c] + SizeAt(w, c) <= e
      BY <1>2, <1>4, Zenon DEF FillInv, e
    <3>7. \A k \in Types : k < j - 1 => L[Free(k)] = <<>>
      BY <1>4, <3>4, BlockSizes
    <3>8. j - 1 >= 0 => L[Free(j - 1)] = <<>>
      BY <1>4, <3>4, <3>5
    <3>9. j - 1 >= 0 => OnGrid(e, j - 1)
      <4>1. j - 1 >= 0 => j - 1 \in Nat /\ (j - 1) + 1 = j
        BY <1>4
      <4> QED  BY <1>4, <4>1, GridHalves, Zenon
    <3> QED  BY <1>4, <1>5, <2>1, <3>1, <3>2, <3>3, <3>6, <3>7, <3>8, <3>9, Zenon DEF FillInv, Filling
  <2>3. Refused(w)'
    BY <1>4, <1>5, Zenon DEF Refused
  <2>4. Whole(L, w)'
    BY <1>2, <1>5, <2>1, <2>2, <2>3, Zenon DEF Whole
  <2> QED  BY <1>5, <2>4, Zenon DEF AllocatorInv
<1> QED  BY <1>6, <1>7, Zenon

\* DirectMappingInit up to its loop makes the invariant true.
LEMMA InitHolds ==
  ASSUME Counted(Mem)
  PROVE  Init => AllocatorInv
<1> SUFFICES ASSUME Init PROVE AllocatorInv
  OBVIOUS
<1> DEFINE T == GetMemBlockSizeType(K_END)
           h == Alloc(GetMemBlockSizeType(K_END))
           n == MemBlockPoolInit
           b == ReqMemBlock(MemBlockPoolInit)
<1>1. PICK L, w : /\ Links(n, L, w) /\ L[POOL] # <<>>
                  /\ \A g \in Heads \ {POOL} : L[g] = <<>>
                  /\ \A c \in Blocks : w[c] = POOL
  BY PoolLinks, Zenon
<1>2. T \in Types /\ h \in Heads \ {POOL} /\ h[2] = T /\ reserved_size = GetMemBlockSize(T)
  BY TypeOf, Addresses, Zenon DEF reserved_size
<1>3. /\ next = ListAdd(AfterReqMemBlock(n), h, b)
      /\ fill = [i |-> reserved_size, j |-> kMemBlockTypeNum - 1]
      /\ held = [a \in {} |-> 0] /\ failed = 0
  BY Zenon DEF Init
<1>4. PICK M, v : Made(next, M, v, L, w, h, b)
  BY <1>1, <1>2, <1>3, MakeFirst, Zenon
<1> HIDE DEF T, h, b, n
<1>5. /\ Links(next, M, v) /\ b \in Blocks /\ Len(M[h]) = 1
      /\ (\A f \in Heads \ {POOL, h} : M[f] = <<>>)
      /\ \A c \in Blocks : v[c] = IF c = b THEN h ELSE POOL
  BY <1>1, <1>4, Zenon DEF Made
<1>6. addr \in [Mem -> Nat] /\ \A c \in Blocks : addr[c] = 0
  <2>1. DOMAIN MemBlockPoolInit = Mem
    BY Zenon DEF MemBlockPoolInit, Mem
  <2>2. PICK u \in Unset : addr = [c \in Mem |-> IF c \in Heads THEN u ELSE 0]
    BY <2>1, Zenon DEF Init
  <2>3. u \in Nat
    BY AllocatorAssumption, Zenon
  <2> QED  BY <2>2, <2>3, Addresses, Zenon DEF Mem
<1>7. Sorted(M, addr, NULL)
  <2>1. Sorted(L, addr, NULL)
    BY <1>1 DEF Sorted
  <2> QED  BY <1>2, <1>4, <2>1, MadeSorted, Zenon
<1>8. \A c \in Blocks : /\ v[c] # NULL /\ (v[c] # POOL <=> c = b)
                        /\ \A k : v[c] # Free(k)
  <2>1. \A k : Free(k) # POOL /\ Free(k) # h
    BY Addresses, Zenon DEF Free, POOL, h
  <2> QED  BY <1>2, <1>5, <2>1, Addresses, Zenon
<1>9. SizeAt(v, b) = reserved_size /\ addr[b] = 0 /\ v[b] = h
  BY <1>2, <1>5, <1>6, Zenon DEF SizeAt
<1>10. Placed(addr, v) /\ Gridded(addr, v) /\ Calm(addr, v, NULL)
  BY <1>6, <1>8, Zenon DEF Placed, Gridded, Calm
<1>11. Shape(next, addr, M, v, NULL)
  BY <1>5, <1>6, <1>7, <1>8, <1>10, Zenon DEF Shape
<1>12. reserved_size \in Nat \ {0} /\ Area \in Nat /\ kMemBlockTypeNum \in Nat \ {0}
  BY BlockSizes, Zenon
<1>13. Covered(addr, v, reserved_size)
  <2> SUFFICES ASSUME NEW x \in 0 .. Area - 1, x < reserved_size
               PROVE  v[b] # POOL /\ addr[b] <= x /\ x < addr[b] + SizeAt(v, b)
    BY <1>5, Zenon DEF Covered
  <2> QED  BY <1>5, <1>8, <1>9, <1>12
<1>14. InUse(addr, v, held)
  <2>1. DOMAIN held = {}
    BY <1>3, Zenon
  <2>2. \A c \in Blocks, k \in Types : v[c] = Alloc(k) => addr[c] = 0 /\ k = T
    <3> TAKE c \in Blocks, k \in Types
    <3>1. Alloc(k) # POOL
      BY Addresses, Zenon
    <3>2. v[c] = Alloc(k) => Alloc(k) = h
      BY <1>5, <3>1, Zenon
    <3> QED  BY <1>6, <3>2, Addresses, Zenon DEF h, T
  <2> QED  BY <1>5, <1>9, <2>1, <2>2, Zenon DEF InUse, h, T
<1>15. FillInv(addr, M, v)
  <2>1. fill.i = reserved_size /\ fill.j = kMemBlockTypeNum - 1 /\ fill = [i |-> fill.i, j |-> fill.j]
    BY <1>3, Zenon
  <2>2. \A k \in Types : M[Free(k)] = <<>>
    BY <1>5, Addresses DEF h
  <2>3. \A c \in Blocks : v[c] # POOL => addr[c] + SizeAt(v, c) <= reserved_size
    BY <1>8, <1>9, <1>12
  <2>4. /\ kMemBlockTypeNum - 1 \in Types /\ (kMemBlockTypeNum - 1) + 1 = kMemBlockTypeNum
        /\ kMemBlockTypeNum - 1 \in -1 .. kMemBlockTypeNum - 1
    BY <1>12 DEF Types
  <2>5. Area - reserved_size < GetMemBlockSize(kMemBlockTypeNum)
    BY AllocatorAssumption, Zenon
  <2>6. failed = 0
    BY <1>3, Zenon
  <2>7. OnGrid(reserved_size, kMemBlockTypeNum - 1)
    BY <2>4, BlockSizes, GridNext, Zenon
  <2> QED  BY <1>12, <2>1, <2>2, <2>3, <2>4, <2>5, <2>6, <2>7 DEF FillInv
<1>16. Refused(v)
  BY <1>3, Zenon DEF Refused
<1>17. fill.i = reserved_size
  BY <1>3, Zenon
<1>18. Whole(M, v)
  BY <1>11, <1>13, <1>14, <1>15, <1>16, <1>17, Zenon DEF Whole
<1> QED  BY <1>18, Zenon DEF AllocatorInv

-----------------------------------------------------------------------------
(* What follows from the invariant.                                        *)

\* Every call keeps the invariant.
LEMMA StepKeeps ==
  ASSUME Release = "lone"
  PROVE  AllocatorInv /\ PoolSuffices /\ [Next]_vars => AllocatorInv'
<1> SUFFICES ASSUME AllocatorInv, PoolSuffices, [Next]_vars PROVE AllocatorInv'
  OBVIOUS
<1>1. CASE FillStep
  BY <1>1, FillKeeps, Zenon
<1>2. CASE Request
  BY <1>2, RequestStep, Zenon DEF Request
<1>3. CASE Give
  BY <1>3, GiveStep, Zenon DEF Give
<1>4. CASE UNCHANGED vars
  BY <1>4, Zenon DEF vars, AllocatorInv, Whole, FillInv, Filling, Refused
<1> QED  BY <1>1, <1>2, <1>3, <1>4, Zenon DEF Next

\* Each MemBlock is in the list of its head alone.
LEMMA ConservedHolds == AllocatorInv => BlocksConserved
<1> SUFFICES ASSUME AllocatorInv PROVE BlocksConserved
  OBVIOUS
<1>1. PICK L, w : Whole(L, w)
  BY Zenon DEF AllocatorInv
<1>2. Links(next, L, w) /\ \A b \in Blocks : w[b] # NULL
  BY <1>1, Zenon DEF Whole, Shape
<1>3. \A h \in Heads : NodesOf(next, h) = L[h]
  BY <1>2, ListOf, Zenon
<1>4. ASSUME NEW h \in Heads
      PROVE  next[IF L[h] = <<>> THEN h ELSE L[h][Len(L[h])]] = h
  <2>1. Len(L[h]) \in Nat /\ (L[h] = <<>> <=> Len(L[h]) = 0)
    BY <1>2, NodeFacts
  <2>2. next[NodeAt(h, L[h], Len(L[h]))] = NodeAt(h, L[h], Len(L[h]) + 1)
    BY <1>2, <2>1 DEF Links, Chain
  <2>3. NodeAt(h, L[h], Len(L[h]) + 1) = h
    BY Zenon DEF NodeAt
  <2>4. NodeAt(h, L[h], Len(L[h])) = IF L[h] = <<>> THEN h ELSE L[h][Len(L[h])]
    BY <2>1 DEF NodeAt
  <2> QED  BY <2>2, <2>3, <2>4, Zenon
<1>5. ASSUME NEW b \in Blocks
      PROVE  \E h \in Heads : b \in Members(L[h]) /\ \A g \in Heads \ {h} : b \notin Members(L[g])
  <2>1. w[b] \in Heads
    BY <1>2 DEF Links
  <2>2. PICK q \in 1 .. Len(L[w[b]]) : L[w[b]][q] = b
    BY <1>2, Zenon DEF Links
  <2>3. b \in Members(L[w[b]])
    BY <2>2, Zenon DEF Members
  <2>4. ASSUME NEW g \in Heads, b \in Members(L[g]) PROVE g = w[b]
    <3>1. PICK p \in 1 .. Len(L[g]) : L[g][p] = b
      BY <2>4, Zenon DEF Members
    <3> QED  BY <1>2, <3>1, Zenon DEF Links
  <2> QED  BY <2>1, <2>3, <2>4, Zenon
<1> QED  BY <1>3, <1>4, <1>5 DEF BlocksConserved

\* The lists are sorted.
LEMMA SortedHolds == AllocatorInv => ListsSorted
<1> SUFFICES ASSUME AllocatorInv PROVE ListsSorted
  OBVIOUS
<1>1. PICK L, w : Whole(L, w)
  BY Zenon DEF AllocatorInv
<1>2. Links(next, L, w) /\ Sorted(L, addr, NULL)
  BY <1>1, Zenon DEF Whole, Shape
<1>3. ASSUME NEW h \in Heads \ {POOL}, NEW i \in 1 .. Len(NodesOf(next, h)),
             NEW j \in 1 .. Len(NodesOf(next, h)), i < j
      PROVE  addr[NodesOf(next, h)[i]] < addr[NodesOf(next, h)[j]]
  <2>1. NodesOf(next, h) = L[h] /\ L[h] \in Seq(Blocks)
    BY <1>2, ListOf, NodeFacts
  <2>2. L[h][i] # NULL
    BY <2>1, Addresses
  <2> QED  BY <1>2, <1>3, <2>1, <2>2, Zenon DEF Sorted
<1>4. \A k \in Types : {Free(k), Alloc(k)} \subseteq Heads \ {POOL}
  BY Addresses, Zenon
<1> QED  BY <1>3, <1>4, Zenon DEF ListsSorted

\* The allocated blocks are those held, and the reserved one.
LEMMA HeldHolds == AllocatorInv => HeldIsAllocated
<1> SUFFICES ASSUME AllocatorInv PROVE HeldIsAllocated
  OBVIOUS
<1>1. PICK L, w : Whole(L, w)
  BY Zenon DEF AllocatorInv
<1>2. Links(next, L, w) /\ InUse(addr, w, held)
  BY <1>1, Zenon DEF Whole, Shape
<1>3. ASSUME NEW x \in AllocBlocks
      PROVE  \/ x = <<0, GetMemBlockSizeType(K_END)>>
             \/ \E a \in DOMAIN held : x = <<a, GetMemBlockSizeType(held[a])>>
  <2>1. PICK b \in Blocks, k \in Types : w[b] = Alloc(k) /\ x = <<addr[b], k>>
    BY <1>2, BlockSets
  <2> QED  BY <1>2, <2>1, Zenon DEF InUse
<1>4. <<0, GetMemBlockSizeType(K_END)>> \in AllocBlocks
  <2>1. GetMemBlockSizeType(K_END) \in Types
    BY TypeOf, Zenon
  <2> QED  BY <1>2, <2>1, BlockSets DEF InUse
<1>5. \A a \in DOMAIN held : <<a, GetMemBlockSizeType(held[a])>> \in AllocBlocks
  <2> TAKE a \in DOMAIN held
  <2>1. held[a] \in Sizes /\ \E b \in Blocks : w[b] = Alloc(GetMemBlockSizeType(held[a])) /\ addr[b] = a
    BY <1>2, Zenon DEF InUse
  <2>2. GetMemBlockSizeType(held[a]) \in Types
    BY <2>1, TypeOf, Zenon
  <2> QED  BY <1>2, <2>1, <2>2, BlockSets
<1> QED  BY <1>3, <1>4, <1>5, Zenon DEF HeldIsAllocated

\* The blocks are on the grids of their types.
LEMMA AlignedHolds == AllocatorInv => BlocksAligned
<1> SUFFICES ASSUME AllocatorInv, NEW x \in FreeBlocks \cup AllocBlocks,
                    x # <<0, GetMemBlockSizeType(K_END)>>
             PROVE  \E m \in 0 .. Area : x[1] = reserved_size + m * GetMemBlockSize(x[2])
  BY Zenon DEF BlocksAligned
<1>1. PICK L, w : Whole(L, w)
  BY Zenon DEF AllocatorInv
<1>2. /\ Links(next, L, w) /\ addr \in [Mem -> Nat] /\ Placed(addr, w) /\ Gridded(addr, w)
      /\ InUse(addr, w, held)
  BY <1>1, Zenon DEF Whole, Shape
<1>3. PICK b \in Blocks, k \in Types : (w[b] = Free(k) \/ w[b] = Alloc(k)) /\ x = <<addr[b], k>>
  BY <1>2, BlockSets
<1>4. addr[b] + GetMemBlockSize(k) <= Area /\ (w[b] = Free(k) \/ addr[b] # 0)
  <2>1. CASE w[b] = Free(k)
    BY <1>2, <2>1, Zenon DEF Placed
  <2>2. CASE w[b] = Alloc(k)
    <3>1. addr[b] \in DOMAIN held /\ k = GetMemBlockSizeType(held[addr[b]])
      BY <1>2, <1>3, <2>2, Zenon DEF InUse
    <3>2. reserved_size <= addr[b] /\ addr[b] + GetMemBlockSize(k) <= Area
      BY <1>2, <3>1, Zenon DEF InUse
    <3> QED  BY <3>2, BlockSizes
  <2> QED  BY <1>3, <2>1, <2>2, Zenon
<1>5. PICK m \in Nat : addr[b] = reserved_size + m * GetMemBlockSize(k)
  BY <1>2, <1>3, <1>4, Zenon DEF Gridded, OnGrid
<1> DEFINE s == GetMemBlockSize(k)
           r == reserved_size
<1>6. s \in Nat \ {0} /\ r \in Nat /\ Area \in Nat /\ r + m * s + s <= Area
  BY <1>4, <1>5, BlockSizes, Zenon
<1>7. m * s \in Nat /\ m <= m * s
  <2> HIDE DEF s
  <2>1. s - 1 \in Nat /\ m * s = m + m * (s - 1)
    BY <1>6
  <2>2. m * (s - 1) \in Nat
    BY <2>1
  <2> QED  BY <2>1, <2>2
<1>8. m \in 0 .. Area
  <2> HIDE DEF s, r
  <2> QED  BY <1>6, <1>7
<1> QED  BY <1>3, <1>5, <1>8, Zenon

\* A refused request fits no free block.
LEMMA RefusesHolds == AllocatorInv => RefusesOnlyWhenFull
<1> SUFFICES ASSUME AllocatorInv, failed # 0, NEW x \in FreeBlocks
             PROVE  GetMemBlockSize(x[2]) < failed
  BY Zenon DEF RefusesOnlyWhenFull
<1>1. PICK L, w : Whole(L, w)
  BY Zenon DEF AllocatorInv
<1>2. Links(next, L, w) /\ Refused(w)
  BY <1>1, Zenon DEF Whole, Shape
<1>3. PICK b \in Blocks, k \in Types : w[b] = Free(k) /\ x = <<addr[b], k>>
  BY <1>2, BlockSets
<1> QED  BY <1>2, <1>3, Zenon DEF Refused

\* Every call is a step of BlockPool, or changes nothing that it shows.
LEMMA StepRefines ==
  ASSUME Release = "lone"
  PROVE  AllocatorInv /\ PoolSuffices /\ [Next]_vars => [Abstract!Next]_held
<1> SUFFICES ASSUME AllocatorInv, PoolSuffices, [Next]_vars PROVE Abstract!Next \/ UNCHANGED held
  OBVIOUS
<1>1. CASE FillStep
  BY <1>1, FillKeeps, Zenon
<1>2. CASE Request
  <2>1. PICK n \in Sizes : ReqBytes(n)
    BY <1>2, Zenon DEF Request
  <2> DEFINE k == GetMemBlockSizeType(n)
  <2>2. SUFFICES ASSUME NEW a, Fits(held, a, k), held' = Taken(held, a, n) PROVE Abstract!Next
    BY <1>2, <2>1, RequestStep, Zenon DEF Request
  <2>3. n \in Nat \ {0} /\ n <= GetMemBlockSize(k) /\ GetMemBlockSize(k) \in Nat
    BY TypeOf, BlockSizes, Zenon
  <2> HIDE DEF k
  <2>4. /\ a \in Nat /\ reserved_size <= a /\ a + GetMemBlockSize(k) <= Area
        /\ Area \in Nat /\ reserved_size \in Nat
    BY <2>2, BlockSizes, Zenon DEF Fits
  <2>5. a \in reserved_size .. Area - 1 /\ a + n <= Area
    BY <2>3, <2>4
  <2>6. ASSUME NEW c \in DOMAIN held PROVE ~ Abstract!Overlap(a, n, c, held[c])
    <3>1. held[c] \in Sizes /\ c \in Nat
      BY Zenon DEF AllocatorInv, Whole, InUse
    <3> DEFINE m == GetMemBlockSize(GetMemBlockSizeType(held[c]))
    <3>2. held[c] \in Nat /\ held[c] <= m /\ m \in Nat
      BY <3>1, TypeOf, BlockSizes, Zenon
    <3>3. a + GetMemBlockSize(k) <= c \/ c + m <= a
      BY <2>2, Zenon DEF Fits
    <3> HIDE DEF m
    <3> QED  BY <2>3, <2>4, <3>1, <3>2, <3>3 DEF Abstract!Overlap
  <2>7. Abstract!Req(a, n)
    BY <2>2, <2>5, <2>6, Zenon DEF Abstract!Req, Taken
  <2> QED  BY <2>5, <2>7, Zenon DEF Abstract!Next
<1>3. CASE Give
  <2>1. PICK a \in DOMAIN held : MayRelease(a) /\ RelBytes(a)
    BY <1>3, Zenon DEF Give
  <2>2. held' = Given(held, a)
    BY <2>1, GiveStep, Zenon
  <2> QED  BY <2>1, <2>2, Zenon DEF Abstract!Next, Abstract!Rel, Given
<1>4. CASE UNCHANGED vars
  BY <1>4, Zenon DEF vars
<1> QED  BY <1>1, <1>2, <1>3, <1>4, Zenon DEF Next

-----------------------------------------------------------------------------
(* How many addresses, bytes and MemBlocks there are.                      *)

\* There are finitely many addresses.
LEMMA MemFinite == IsFiniteSet(Mem)
<1> DEFINE tags == {"block", "free", "alloc", "pool"}
           nums == 0 .. PoolSize + kMemBlockTypeNum
           all == tags \X nums
<1>1. IsFiniteSet(tags)
  <2>1. IsFiniteSet({"block"})
    BY FS_Singleton, Zenon
  <2>2. IsFiniteSet({"block"} \cup {"free"})
    BY <2>1, FS_AddElement, Zenon
  <2>3. IsFiniteSet(({"block"} \cup {"free"}) \cup {"alloc"})
    BY <2>2, FS_AddElement, Zenon
  <2>4. IsFiniteSet((({"block"} \cup {"free"}) \cup {"alloc"}) \cup {"pool"})
    BY <2>3, FS_AddElement, Zenon
  <2>5. (({"block"} \cup {"free"}) \cup {"alloc"}) \cup {"pool"} = tags
    OBVIOUS
  <2> QED  BY <2>4, <2>5, Zenon
<1>2. IsFiniteSet(nums)
  BY AllocatorAssumption, FS_Interval
<1>3. IsFiniteSet(all)
  <2> HIDE DEF tags, nums
  <2> QED  BY <1>1, <1>2, FS_Product, Zenon
<1>4. Mem \subseteq all \cup {NULL}
  <2>1. \A i \in 0 .. PoolSize : Block(i) \in all
    BY AllocatorAssumption DEF Block
  <2>2. \A k \in Types : Free(k) \in all /\ Alloc(k) \in all
    BY AllocatorAssumption DEF Types, Free, Alloc
  <2>3. POOL \in all /\ ZERO \in all
    BY AllocatorAssumption DEF POOL, ZERO
  <2> HIDE DEF all
  <2>4. Blocks \subseteq all
    BY <2>1, AllocatorAssumption DEF Blocks
  <2>5. Heads \subseteq all
    BY <2>2, <2>3, Zenon DEF Heads
  <2> QED  BY <2>3, <2>4, <2>5, Zenon DEF Mem
<1>5. IsFiniteSet(all \cup {NULL})
  BY <1>3, FS_AddElement, Zenon
<1> QED  BY <1>4, <1>5, FS_Subset, Zenon

\* Nor is a list of distinct addresses longer than they are many.
LEMMA MemCounted == Counted(Mem)
<1>1. Cardinality(Mem) \in Nat
  BY MemFinite, FS_CardinalityType, Zenon
<1>2. ASSUME NEW s \in Seq(Mem), Distinct(s) PROVE Len(s) <= Cardinality(Mem)
  <2>1. s \in Injection(1 .. Len(s), Mem)
    <3>1. s \in [1 .. Len(s) -> Mem]
      OBVIOUS
    <3>2. IsInjective(s)
      BY <1>2 DEF IsInjective, Distinct
    <3> QED  BY <3>1, <3>2, Zenon DEF Injection
  <2>2. Cardinality(1 .. Len(s)) = Len(s)
    <3>1. 1 \in Int /\ Len(s) \in Int /\ Len(s) >= 0
      OBVIOUS
    <3>2. Cardinality(1 .. Len(s)) = IF 1 > Len(s) THEN 0 ELSE Len(s) - 1 + 1
      BY <3>1, FS_Interval, Zenon
    <3> QED  BY <3>1, <3>2
  <2>3. Cardinality(1 .. Len(s)) <= Cardinality(Mem)
    BY <2>1, MemFinite, FS_Injection, Zenon
  <2> QED  BY <2>2, <2>3, Zenon
<1> QED  BY <1>1, <1>2, Zenon DEF Counted

\* DirectMappingInit makes the invariant true.
LEMMA StartHolds == Init => AllocatorInv
BY MemCounted, InitHolds, Zenon

\* Each byte is in one block.
LEMMA TilingHolds == AllocatorInv => Tiling
<1> SUFFICES ASSUME AllocatorInv, ~ Filling, NEW x \in 0 .. Area - 1
             PROVE  Cardinality({b \in FreeBlocks \cup AllocBlocks :
                                   b[1] <= x /\ x < b[1] + GetMemBlockSize(b[2])}) = 1
  BY Zenon DEF Tiling
<1> DEFINE S == {b \in FreeBlocks \cup AllocBlocks :
                   b[1] <= x /\ x < b[1] + GetMemBlockSize(b[2])}
<1>1. PICK L, w : Whole(L, w)
  BY Zenon DEF AllocatorInv
<1>2. /\ Links(next, L, w) /\ (\A b \in Blocks : w[b] # NULL) /\ addr \in [Mem -> Nat]
      /\ Placed(addr, w) /\ Covered(addr, w, fill.i) /\ FillInv(addr, L, w)
  BY <1>1, Zenon DEF Whole, Shape
<1>3. x < fill.i
  <2>1. fill.i \in Nat /\ Area \in Nat /\ fill.j \in -1 .. kMemBlockTypeNum - 1 /\ kMemBlockTypeNum \in Nat
    BY <1>2, BlockSizes, Zenon DEF FillInv
  <2>2. CASE fill.j >= 0
    BY <2>1, <2>2 DEF Filling
  <2>3. CASE ~ (fill.j >= 0)
    <3>1. fill.j + 1 = 0
      BY <2>1, <2>3
    <3>2. Area - fill.i < 1
      BY <1>2, <3>1, SizeDoubles, Zenon DEF FillInv
    <3> QED  BY <2>1, <3>2
  <2> QED  BY <2>2, <2>3, Zenon
<1>4. PICK c \in Blocks : w[c] # POOL /\ addr[c] <= x /\ x < addr[c] + SizeAt(w, c)
  BY <1>2, <1>3, Zenon DEF Covered
<1>5. w \in [Blocks -> Heads]
  BY <1>2 DEF Links
<1>6. \A b \in Blocks : /\ addr[b] \in Nat /\ SizeAt(w, b) \in Nat \ {0}
                        /\ w[b] # POOL /\ addr[b] <= x /\ x < addr[b] + SizeAt(w, b) => b = c
  <2> TAKE b \in Blocks
  <2>1. /\ addr[b] \in Nat /\ SizeAt(w, b) \in Nat \ {0}
        /\ addr[c] \in Nat /\ SizeAt(w, c) \in Nat \ {0}
    BY <1>2, <1>5, BlockSizes, Zenon DEF SizeAt, Mem
  <2>2. w[b] # POOL /\ b # c => addr[b] + SizeAt(w, b) <= addr[c] \/ addr[c] + SizeAt(w, c) <= addr[b]
    BY <1>2, <1>4, Zenon DEF Placed
  <2> QED  BY <1>4, <2>1, <2>2
<1>7. PICK k \in Types : w[c] = Free(k) \/ w[c] = Alloc(k)
  BY <1>4, <1>5, Addresses, Zenon
<1>8. <<addr[c], k>> \in S
  <2>1. SizeAt(w, c) = GetMemBlockSize(k)
    BY <1>7, Addresses, Zenon DEF SizeAt
  <2>2. <<addr[c], k>> \in FreeBlocks \cup AllocBlocks
    BY <1>2, <1>7, BlockSets, Zenon
  <2> QED  BY <1>4, <2>1, <2>2, Zenon
<1>9. ASSUME NEW d \in S PROVE d = <<addr[c], k>>
  <2>1. PICK b \in Blocks, j \in Types : (w[b] = Free(j) \/ w[b] = Alloc(j)) /\ d = <<addr[b], j>>
    BY <1>2, BlockSets
  <2>2. w[b] # POOL /\ SizeAt(w, b) = GetMemBlockSize(j)
    BY <2>1, Addresses, Zenon DEF SizeAt
  <2>3. addr[b] <= x /\ x < addr[b] + GetMemBlockSize(j)
    BY <2>1, Zenon
  <2>4. b = c
    BY <1>6, <2>2, <2>3, Zenon
  <2> QED  BY <1>7, <2>1, <2>4, Addresses, Zenon
<1>10. S = {<<addr[c], k>>}
  BY <1>8, <1>9, Zenon
<1> HIDE DEF S
<1>11. Cardinality(S) = 1
  BY <1>10, FS_Singleton, Zenon
<1> QED  BY <1>11, Zenon DEF S

\* As long as the pool suffices, every byte of the area is in exactly one
\* block, whatever is requested and released.
THEOREM AllocatorTiles ==
  ASSUME Release = "lone"
  PROVE  Spec /\ []PoolSuffices => []Tiling
<1>1. AllocatorInv /\ PoolSuffices /\ [Next]_vars => AllocatorInv'
  BY StepKeeps, Zenon
<1> QED  BY StartHolds, <1>1, TilingHolds, PTL DEF Spec

\* As long as the pool suffices, every list is sorted by address whenever
\* ReqBytes or RelBytes returns.
THEOREM AllocatorSorted ==
  ASSUME Release = "lone"
  PROVE  Spec /\ []PoolSuffices => []ListsSorted
<1>1. AllocatorInv /\ PoolSuffices /\ [Next]_vars => AllocatorInv'
  BY StepKeeps, Zenon
<1> QED  BY StartHolds, <1>1, SortedHolds, PTL DEF Spec

\* As long as the pool suffices, no MemBlock is lost or is in two lists, and
\* every list leads back to its head.
THEOREM AllocatorConserves ==
  ASSUME Release = "lone"
  PROVE  Spec /\ []PoolSuffices => []BlocksConserved
<1>1. AllocatorInv /\ PoolSuffices /\ [Next]_vars => AllocatorInv'
  BY StepKeeps, Zenon
<1> QED  BY StartHolds, <1>1, ConservedHolds, PTL DEF Spec

\* As long as the pool suffices, the allocated lists hold just the areas in
\* use and the reserved one.
THEOREM AllocatorHeld ==
  ASSUME Release = "lone"
  PROVE  Spec /\ []PoolSuffices => []HeldIsAllocated
<1>1. AllocatorInv /\ PoolSuffices /\ [Next]_vars => AllocatorInv'
  BY StepKeeps, Zenon
<1> QED  BY StartHolds, <1>1, HeldHolds, PTL DEF Spec

\* As long as the pool suffices, every block lies a whole number of its sizes
\* above the reserved memory.
THEOREM AllocatorAligned ==
  ASSUME Release = "lone"
  PROVE  Spec /\ []PoolSuffices => []BlocksAligned
<1>1. AllocatorInv /\ PoolSuffices /\ [Next]_vars => AllocatorInv'
  BY StepKeeps, Zenon
<1> QED  BY StartHolds, <1>1, AlignedHolds, PTL DEF Spec

\* As long as the pool suffices, ReqBytes returns 0 only when no free block is
\* large enough.
THEOREM AllocatorRefuses ==
  ASSUME Release = "lone"
  PROVE  Spec /\ []PoolSuffices => []RefusesOnlyWhenFull
<1>1. AllocatorInv /\ PoolSuffices /\ [Next]_vars => AllocatorInv'
  BY StepKeeps, Zenon
<1> QED  BY StartHolds, <1>1, RefusesHolds, PTL DEF Spec

\* As long as the pool suffices, the allocator implements BlockPool: an area
\* it grants is in the area, not reserved, and overlaps none in use.
THEOREM AllocatorRefines ==
  ASSUME Release = "lone"
  PROVE  Spec /\ []PoolSuffices => ImplementsBlockPool
<1>1. AllocatorInv /\ PoolSuffices /\ [Next]_vars => AllocatorInv'
  BY StepKeeps, Zenon
<1>2. AllocatorInv /\ PoolSuffices /\ [Next]_vars => [Abstract!Next]_held
  BY StepRefines, Zenon
<1>3. Init => Abstract!Init
  BY Zenon DEF Init, Abstract!Init
<1> QED  BY StartHolds, <1>1, <1>2, <1>3, PTL DEF Spec, ImplementsBlockPool, Abstract!Spec

-----------------------------------------------------------------------------
(* How blocks of different types lie: the argument for the pool.           *)

\* Two blocks of one type are the same or do not overlap.
LEMMA GridCells ==
  ASSUME NEW k \in Nat, NEW a, NEW b, OnGrid(a, k), OnGrid(b, k)
  PROVE  a = b \/ a + GetMemBlockSize(k) <= b \/ b + GetMemBlockSize(k) <= a
<1> DEFINE s == GetMemBlockSize(k)
           r == reserved_size
<1>1. s \in Nat \ {0} /\ r \in Nat
  BY SizeDoubles, BlockSizes, Zenon
<1>2. PICK m \in Nat : a = r + m * s
  BY Zenon DEF OnGrid
<1>3. PICK n \in Nat : b = r + n * s
  BY Zenon DEF OnGrid
<1> HIDE DEF s, r
<1>4. ASSUME NEW u \in Nat, NEW v \in Nat, u < v PROVE u * s + s <= v * s
  <2>1. v - u - 1 \in Nat /\ v = u + 1 + (v - u - 1)
    BY <1>4
  <2>2. ASSUME NEW d \in Nat PROVE u * s + s <= (u + 1 + d) * s
    <3>1. d * s \in Nat /\ u * s \in Nat
      BY <1>1
    <3>2. (u + 1 + d) * s = u * s + s + d * s
      BY <1>1
    <3> QED  BY <1>1, <3>1, <3>2
  <2> QED  BY <2>1, <2>2, Zenon
<1>5. m * s \in Nat /\ n * s \in Nat
  BY <1>1
<1>6. ASSUME m < n PROVE a + s <= b
  <2>1. m * s + s <= n * s
    BY <1>4, <1>6, Zenon
  <2> QED  BY <1>1, <1>2, <1>3, <1>5, <2>1
<1>7. ASSUME n < m PROVE b + s <= a
  <2>1. n * s + s <= m * s
    BY <1>4, <1>7, Zenon
  <2> QED  BY <1>1, <1>2, <1>3, <1>5, <2>1
<1>8. m < n \/ n < m \/ m = n
  OBVIOUS
<1>9. a = b \/ a + s <= b \/ b + s <= a
  BY <1>2, <1>3, <1>6, <1>7, <1>8, Zenon
<1> QED  BY <1>9, Zenon DEF s

\* A multiple of a size is an address above the reserved memory.
LEMMA GridAbove ==
  ASSUME NEW k \in Nat, NEW a, OnGrid(a, k)
  PROVE  a \in Nat /\ reserved_size <= a
<1> DEFINE s == GetMemBlockSize(k)
           r == reserved_size
<1>1. s \in Nat \ {0} /\ r \in Nat
  BY SizeDoubles, BlockSizes, Zenon
<1>2. PICK m \in Nat : a = r + m * s
  BY Zenon DEF OnGrid
<1> HIDE DEF s, r
<1>3. m * s \in Nat
  BY <1>1
<1>4. a \in Nat /\ r <= a
  BY <1>1, <1>2, <1>3
<1> QED  BY <1>4, Zenon DEF r

\* A block is apart from a block of a larger type or within it.
LEMMA Nested ==
  ASSUME NEW j \in Nat, NEW a, OnGrid(a, j), NEW k \in Nat, j <= k, NEW b, OnGrid(b, k)
  PROVE  \/ a + GetMemBlockSize(j) <= b \/ b + GetMemBlockSize(k) <= a
         \/ b <= a /\ a + GetMemBlockSize(j) <= b + GetMemBlockSize(k)
<1> DEFINE Lies(i, c) ==
             \/ a + GetMemBlockSize(j) <= c \/ c + GetMemBlockSize(i) <= a
             \/ c <= a /\ a + GetMemBlockSize(j) <= c + GetMemBlockSize(i)
           S == {i \in Nat : j <= i => \A c : OnGrid(c, i) => Lies(i, c)}
<1>1. ASSUME NEW c, OnGrid(c, j) PROVE Lies(j, c)
  <2>1. a = c \/ a + GetMemBlockSize(j) <= c \/ c + GetMemBlockSize(j) <= a
    BY <1>1, GridCells, Zenon
  <2>2. a \in Nat /\ c \in Nat /\ GetMemBlockSize(j) \in Nat
    BY <1>1, GridAbove, SizeDoubles, Zenon
  <2> QED  BY <2>1, <2>2
<1>2. ASSUME NEW i \in Nat, j <= i, \A c : OnGrid(c, i) => Lies(i, c), NEW c, OnGrid(c, i + 1)
      PROVE  Lies(i + 1, c)
  <2> DEFINE t == GetMemBlockSize(i)
             s == GetMemBlockSize(j)
  <2>1. OnGrid(c, i) /\ OnGrid(c + t, i)
    BY <1>2, GridHalves, Zenon
  <2>2. Lies(i, c) /\ Lies(i, c + t)
    BY <1>2, <2>1, Zenon
  <2>3. /\ a \in Nat /\ c \in Nat /\ t \in Nat \ {0} /\ s \in Nat \ {0}
        /\ GetMemBlockSize(i + 1) = 2 * t
    BY <2>1, GridAbove, SizeDoubles, Zenon
  <2> HIDE DEF t, s
  <2>4. a + s <= c \/ c + 2 * t <= a \/ (c <= a /\ a + s <= c + 2 * t)
    <3>1. a + s <= c \/ c + t <= a \/ (c <= a /\ a + s <= c + t)
      BY <2>2, Zenon DEF t, s
    <3>2. a + s <= c + t \/ (c + t) + t <= a \/ (c + t <= a /\ a + s <= (c + t) + t)
      BY <2>2, Zenon DEF t, s
    <3> QED  BY <2>3, <3>1, <3>2
  <2> QED  BY <2>3, <2>4, Zenon DEF t, s
<1> HIDE DEF Lies
<1>3. 0 \in S
  <2>1. j <= 0 => j = 0
    OBVIOUS
  <2> QED  BY <1>1, <2>1, Zenon
<1>4. \A i \in Nat : i \in S => i + 1 \in S
  <2>0. \A i \in Nat : i + 1 \in Nat
    OBVIOUS
  <2> SUFFICES ASSUME NEW i \in Nat, i \in S, j <= i + 1, NEW c, OnGrid(c, i + 1)
               PROVE  Lies(i + 1, c)
    BY <2>0, Zenon
  <2>1. i + 1 \in Nat /\ (j = i + 1 \/ j <= i)
    OBVIOUS
  <2>2. CASE j <= i
    BY <1>2, <2>1, <2>2, Zenon
  <2> QED  BY <1>1, <2>1, <2>2, Zenon
<1>5. k \in S
  <2> HIDE DEF S
  <2> QED  BY <1>3, <1>4, Induction, Zenon
<1>6. Lies(k, b)
  BY <1>5, Zenon
<1> QED  BY <1>6, Zenon DEF Lies

\* A block is one of the halves of a block of the next type.
LEMMA Parent ==
  ASSUME NEW k \in Nat, NEW a, OnGrid(a, k)
  PROVE  \E p : OnGrid(p, k + 1) /\ a \in {p, p + GetMemBlockSize(k)}
<1> DEFINE s == GetMemBlockSize(k)
           r == reserved_size
<1>1. s \in Nat \ {0} /\ r \in Nat /\ GetMemBlockSize(k + 1) = 2 * s
  BY SizeDoubles, BlockSizes, Zenon
<1>2. PICK m \in Nat : a = r + m * s
  BY Zenon DEF OnGrid
<1> DEFINE n == m \div 2
<1>3. n \in Nat /\ (m = 2 * n \/ m = 2 * n + 1)
  OBVIOUS
<1> HIDE DEF s, r, n
<1>4. n * (2 * s) \in Nat /\ (2 * n) * s = n * (2 * s) /\ (2 * n + 1) * s = n * (2 * s) + s
  BY <1>1, <1>3
<1> DEFINE p == r + n * (2 * s)
<1>5. a = p \/ a = p + s
  BY <1>1, <1>2, <1>3, <1>4
<1>6. OnGrid(p, k + 1)
  BY <1>1, <1>3, Zenon DEF OnGrid, r
<1> QED  BY <1>5, <1>6, Zenon DEF s

\* The lower half of a block is an even number of halves from the reserved
\* memory: what MergeBlock tests.
LEMMA LowerHalf ==
  ASSUME NEW k \in Nat, NEW p, OnGrid(p, k + 1)
  PROVE  ((p - reserved_size) \div GetMemBlockSize(k)) % 2 = 0
<1> DEFINE s == GetMemBlockSize(k)
           r == reserved_size
<1>1. s \in Nat \ {0} /\ r \in Nat /\ GetMemBlockSize(k + 1) = 2 * s
  BY SizeDoubles, BlockSizes, Zenon
<1>2. PICK m \in Nat : p = r + m * (2 * s)
  BY <1>1, Zenon DEF OnGrid
<1> HIDE DEF s, r
<1>3. p - r = (2 * m) * s
  BY <1>1, <1>2
<1>4. ASSUME NEW n \in Nat PROVE (n * s) \div s = n
  BY <1>1
<1>5. 2 * m \in Nat /\ (2 * m) % 2 = 0
  OBVIOUS
<1>6. (p - r) \div s = 2 * m
  BY <1>3, <1>4, <1>5, Zenon
<1> QED  BY <1>5, <1>6, Zenon DEF s, r

\* A function that is one-to-one and onto is a bijection.
LEMMA Bijective ==
  ASSUME NEW S, NEW T, NEW f \in [S -> T],
         \A x, y \in S : f[x] = f[y] => x = y, \A t \in T : \E x \in S : f[x] = t
  PROVE  ExistsBijection(S, T)
<1>1. f \in Injection(S, T)
  BY Zenon DEF Injection, IsInjective
<1>2. f \in Surjection(S, T)
  BY Zenon DEF Surjection
<1> QED  BY <1>1, <1>2, Zenon DEF ExistsBijection, Bijection

\* The MemBlocks that are not in the pool are those that its list lacks.
LEMMA PoolCount ==
  ASSUME NEW L, NEW w, Links(next, L, w), \A b \in Blocks : w[b] # NULL
  PROVE  /\ IsFiniteSet({b \in Blocks : w[b] # POOL}) /\ Len(L[POOL]) \in Nat
         /\ Cardinality({b \in Blocks : w[b] # POOL}) = PoolSize - Len(L[POOL])
<1> DEFINE U == {b \in Blocks : w[b] # POOL}
           P == {b \in Blocks : w[b] = POOL}
           s == L[POOL]
<1>1. PoolSize \in Nat
  BY BlockSizes, Zenon
<1>2. IsFiniteSet(Blocks) /\ Cardinality(Blocks) = PoolSize
  <2> DEFINE f == [i \in 1 .. PoolSize |-> Block(i)]
  <2>1. \A i, j \in 1 .. PoolSize : Block(i) = Block(j) => i = j
    BY Zenon DEF Block
  <2>2. /\ f \in [1 .. PoolSize -> Blocks]
        /\ \A i, j \in 1 .. PoolSize : f[i] = f[j] => i = j
        /\ \A b \in Blocks : \E i \in 1 .. PoolSize : f[i] = b
    <3>1. \A i \in 1 .. PoolSize : f[i] = Block(i) /\ Block(i) \in Blocks
      BY Zenon DEF Blocks
    <3>2. \A b \in Blocks : \E i \in 1 .. PoolSize : b = Block(i)
      BY Zenon DEF Blocks
    <3>3. f \in [1 .. PoolSize -> Blocks]
      BY <3>1, Zenon
    <3> HIDE DEF f
    <3> QED  BY <2>1, <3>1, <3>2, <3>3
  <2> HIDE DEF f
  <2> DEFINE N == 1 .. PoolSize
  <2>3. f \in [N -> Blocks] /\ (\A i, j \in N : f[i] = f[j] => i = j) /\ \A b \in Blocks : \E i \in N : f[i] = b
    BY <2>2, Zenon
  <2> HIDE DEF N
  <2>4. ExistsBijection(N, Blocks)
    BY <2>3, Bijective
  <2> QED  BY <1>1, <2>4, FS_NatBijection, FS_CountingElements, Zenon DEF N
<1>3. w \in [Blocks -> Heads]
  BY DEF Links
<1>4. s \in Seq(Blocks) /\ Len(s) \in Nat /\ Distinct(s) /\ \A i \in 1 .. Len(s) : s[i] \in P
  <2>1. POOL \in Heads
    BY Addresses, Zenon
  <2>2. s \in Seq(Blocks) /\ Len(s) \in Nat
    BY <1>3, <2>1, NodeFacts, Zenon
  <2>3. Distinct(s) /\ \A i \in 1 .. Len(s) : w[s[i]] = POOL
    BY <1>3, <2>1, Zenon DEF Links
  <2>4. \A i \in 1 .. Len(s) : s[i] \in Blocks
    BY <2>2
  <2> QED  BY <2>2, <2>3, <2>4, Zenon
<1>5. IsFiniteSet(P) /\ Cardinality(P) = Len(s)
  <2>1. \A b \in P : \E i \in 1 .. Len(s) : s[i] = b
    <3> TAKE b \in P
    <3>1. w[b] = POOL /\ w[b] # NULL
      BY Addresses, Zenon
    <3> QED  BY <1>3, <3>1, Zenon DEF Links
  <2>2. s \in [1 .. Len(s) -> P] /\ \A i, j \in 1 .. Len(s) : s[i] = s[j] => i = j
    BY <1>4 DEF Distinct
  <2> HIDE DEF s, P
  <2>3. ExistsBijection(1 .. Len(s), P)
    BY <2>1, <2>2, Bijective
  <2> QED  BY <1>4, <2>3, FS_NatBijection, FS_CountingElements, Zenon
<1>6. IsFiniteSet(U) /\ Cardinality(U) = PoolSize - Len(s)
  <2>1. IsFiniteSet(U) /\ U \cup P = Blocks /\ U \cap P = {}
    <3>1. U \in SUBSET Blocks
      OBVIOUS
    <3> QED  BY <1>2, <3>1, FS_Subset, Zenon
  <2>2. Cardinality(U \cup P) = Cardinality(U) + Cardinality(P) - Cardinality(U \cap P)
    <3> HIDE DEF U, P
    <3> QED  BY <1>5, <2>1, FS_Union, Zenon
  <2>3. Cardinality(U) \in Nat
    <3> HIDE DEF U
    <3> QED  BY <2>1, FS_CardinalityType, Zenon
  <2>4. Cardinality({}) = 0
    BY FS_EmptySet, Zenon
  <2> HIDE DEF U, P, s
  <2>5. PoolSize = Cardinality(U) + Len(s) - 0
    BY <1>2, <1>5, <2>1, <2>2, <2>4, Zenon
  <2> QED  BY <1>1, <1>4, <2>1, <2>3, <2>5
<1> QED  BY <1>4, <1>6, Zenon

\* A block of type k and address x lie in the same block of the next type.
Near(b, k, x) ==
    \E p : /\ OnGrid(p, k + 1) /\ addr[b] \in {p, p + GetMemBlockSize(k)}
           /\ p <= x /\ x < p + GetMemBlockSize(k + 1)

\* The end of what DirectMappingInit has made blocks of.
Filled == IF Filling THEN fill.i ELSE Area

LEMMA FilledEnd ==
  ASSUME NEW L, NEW w, Whole(L, w)
  PROVE  /\ Filled \in Nat /\ Filled <= Area /\ Filled <= fill.i
         /\ \A b \in Blocks, k \in Types :
              w[b] = Free(k) => addr[b] + GetMemBlockSize(k) <= Filled
<1>1. /\ fill.i \in Nat /\ Area \in Nat /\ kMemBlockTypeNum \in Nat
      /\ fill.j \in -1 .. kMemBlockTypeNum - 1 /\ Area - fill.i < GetMemBlockSize(fill.j + 1)
  BY BlockSizes, Zenon DEF Whole, FillInv
<1>2. CASE Filling
  <2>1. Filled = fill.i /\ fill.i < Area
    BY <1>2, Zenon DEF Filled, Filling
  <2>2. ASSUME NEW b \in Blocks, NEW k \in Types, w[b] = Free(k)
        PROVE  addr[b] + GetMemBlockSize(k) <= fill.i
    <3>1. Free(k) # POOL /\ SizeAt(w, b) = GetMemBlockSize(k)
      BY <2>2, Addresses, Zenon DEF SizeAt
    <3>2. addr[b] + SizeAt(w, b) <= fill.i
      BY <1>2, <2>2, <3>1, Zenon DEF Whole, FillInv
    <3> QED  BY <3>1, <3>2, Zenon
  <2>3. Filled \in Nat /\ Filled <= Area /\ Filled <= fill.i
    BY <1>1, <2>1
  <2> QED  BY <2>1, <2>2, <2>3, Zenon
<1>3. CASE ~ Filling
  <2>1. Area <= fill.i
    <3>1. CASE fill.j >= 0
      BY <1>1, <1>3, <3>1 DEF Filling
    <3>2. CASE ~ (fill.j >= 0)
      <4>1. fill.j + 1 = 0
        BY <1>1, <3>2
      <4>2. Area - fill.i < 1
        BY <1>1, <4>1, SizeDoubles, Zenon
      <4> QED  BY <1>1, <4>2
    <3> QED  BY <3>1, <3>2, Zenon
  <2>2. Filled = Area
    BY <1>3, Zenon DEF Filled
  <2>3. \A b \in Blocks, k \in Types : w[b] = Free(k) => addr[b] + GetMemBlockSize(k) <= Area
    BY Zenon DEF Whole, Shape, Placed
  <2>4. Filled \in Nat /\ Filled <= Area /\ Filled <= fill.i
    BY <1>1, <2>1, <2>2
  <2> QED  BY <2>2, <2>3, <2>4, Zenon
<1> QED  BY <1>2, <1>3, Zenon

\* If a free block is half of a block in the area then an area in use starts in
\* that block: of the smallest blocks in it two would else be free buddies.
LEMMA HalfInUse ==
  ASSUME NEW L, NEW w, Whole(L, w), NEW b \in Blocks, NEW k \in Types, w[b] = Free(k),
         NEW p, OnGrid(p, k + 1), addr[b] \in {p, p + GetMemBlockSize(k)},
         p + GetMemBlockSize(k + 1) <= Filled
  PROVE  \E x \in DOMAIN held : p <= x /\ x < p + GetMemBlockSize(k + 1)
<1> SUFFICES ASSUME \A x \in DOMAIN held : ~ (p <= x /\ x < p + GetMemBlockSize(k + 1))
             PROVE  FALSE
  BY Zenon
<1> DEFINE end == p + GetMemBlockSize(k + 1)
           In(c, j) == w[c] = Free(j) /\ p <= addr[c] /\ addr[c] + GetMemBlockSize(j) <= end
<1>1. /\ Placed(addr, w) /\ Gridded(addr, w) /\ Calm(addr, w, NULL)
      /\ Covered(addr, w, fill.i) /\ InUse(addr, w, held) /\ w \in [Blocks -> Heads]
      /\ addr \in [Mem -> Nat]
  <2>1. Links(next, L, w) /\ \A c \in Blocks : w[c] # NULL
    BY Zenon DEF Whole, Shape
  <2>2. w \in [Blocks -> Heads]
    BY <2>1 DEF Links
  <2> QED  BY <2>2, Zenon DEF Whole, Shape
<1>2. \A c \in Blocks : addr[c] \in Nat /\ SizeAt(w, c) \in Nat \ {0}
  BY <1>1, BlockSizes, Zenon DEF SizeAt, Mem
<1>3. k \in Nat /\ k + 1 \in Nat
  BY BlockSizes
<1>4. \A i \in Nat : GetMemBlockSize(i) \in Nat \ {0} /\ GetMemBlockSize(i + 1) = 2 * GetMemBlockSize(i)
  BY SizeDoubles, Zenon
<1>5. p \in Nat /\ reserved_size <= p /\ reserved_size \in Nat /\ Area \in Nat
  BY <1>3, GridAbove, BlockSizes, Zenon
<1>6. p <= addr[b] /\ addr[b] + GetMemBlockSize(k) <= end /\ end \in Nat
  BY <1>2, <1>3, <1>4, <1>5
<1>7. /\ Filled \in Nat /\ Filled <= Area /\ Filled <= fill.i /\ fill.i \in Nat
  BY FilledEnd, Zenon DEF Whole, FillInv
<1>8. SizeAt(w, b) = GetMemBlockSize(k) /\ w[b] # POOL
  BY Addresses, Zenon DEF SizeAt
<1>9. ASSUME NEW c \in Blocks, w[c] # POOL, NEW y \in Nat, p <= y, y < end,
             addr[c] <= y, y < addr[c] + SizeAt(w, c)
      PROVE  \E j \in Types : j <= k /\ In(c, j)
  <2>1. PICK j \in Types : w[c] = Free(j) \/ w[c] = Alloc(j)
    BY <1>1, <1>9, Addresses, Zenon
  <2>2. SizeAt(w, c) = GetMemBlockSize(j) /\ j \in Nat
    BY <2>1, Addresses, BlockSizes, Zenon DEF SizeAt
  <2>3. w[c] = Alloc(j) => addr[c] \in DOMAIN held
    <3> SUFFICES ASSUME w[c] = Alloc(j), addr[c] = 0, j = GetMemBlockSizeType(K_END) PROVE FALSE
      BY <1>1, Zenon DEF InUse
    <3>1. SizeAt(w, c) = reserved_size
      BY <2>2, Zenon DEF reserved_size
    <3> QED  BY <1>5, <1>9, <3>1
  <2>4. OnGrid(addr[c], j)
    <3>1. CASE w[c] = Free(j)
      BY <1>1, <3>1, Zenon DEF Gridded
    <3>2. CASE w[c] = Alloc(j)
      <4>1. reserved_size <= addr[c] /\ reserved_size \in Nat \ {0}
        BY <1>1, <2>3, <3>2, BlockSizes, Zenon DEF InUse
      <4>2. addr[c] # 0
        BY <4>1
      <4> QED  BY <1>1, <3>2, <4>2, Zenon DEF Gridded
    <3> QED  BY <2>1, <3>1, <3>2, Zenon
  <2>5. j <= k
    <3> SUFFICES ASSUME k + 1 <= j PROVE FALSE
      BY <1>3, <2>2
    <3>1. \/ end <= addr[c] \/ addr[c] + GetMemBlockSize(j) <= p
          \/ addr[c] <= p /\ end <= addr[c] + GetMemBlockSize(j)
      BY <1>3, <2>2, <2>4, Nested, Zenon
    <3>2. GetMemBlockSize(j) \in Nat /\ addr[c] \in Nat /\ addr[b] \in Nat /\ GetMemBlockSize(k) \in Nat \ {0}
      BY <1>2, <1>3, <1>4, <2>2, Zenon
    <3>3. addr[c] <= p /\ end <= addr[c] + GetMemBlockSize(j)
      BY <1>5, <1>6, <1>9, <2>2, <3>1, <3>2
    <3>4. b # c
      <4>0. Free(k) # Alloc(j) /\ (Free(k) = Free(j) => k = j)
        BY Addresses, Zenon
      <4>1. w[b] = w[c] => j = k
        BY <2>1, <4>0, Zenon
      <4>2. j # k
        BY <1>3, <2>2
      <4> QED  BY <4>1, <4>2, Zenon
    <3>5. addr[b] + GetMemBlockSize(k) <= addr[c] \/ addr[c] + GetMemBlockSize(j) <= addr[b]
      BY <1>1, <1>8, <1>9, <2>2, <3>4, Zenon DEF Placed
    <3> QED  BY <1>5, <1>6, <3>2, <3>3, <3>5
  <2>6. p <= addr[c] /\ addr[c] + GetMemBlockSize(j) <= end
    <3>0. j <= k + 1
      BY <1>3, <2>2, <2>5
    <3>1. \/ addr[c] + GetMemBlockSize(j) <= p \/ end <= addr[c]
          \/ p <= addr[c] /\ addr[c] + GetMemBlockSize(j) <= end
      BY <1>3, <2>2, <2>4, <3>0, Nested, Zenon
    <3> QED  BY <1>2, <1>5, <1>6, <1>9, <2>2, <3>1
  <2>7. w[c] # Alloc(j)
    <3>1. addr[c] < end
      <4>1. GetMemBlockSize(j) \in Nat \ {0} /\ addr[c] \in Nat
        BY <1>2, <2>2, Zenon
      <4> HIDE DEF end
      <4> QED  BY <1>6, <2>6, <4>1
    <3> QED  BY <2>3, <2>6, <3>1, Zenon
  <2> QED  BY <2>1, <2>5, <2>6, <2>7, Zenon
<1> DEFINE J == {j \in Nat : j \in Types /\ j <= k /\ \E c \in Blocks : In(c, j)}
<1>10. k \in J
  BY <1>3, <1>6
<1>11. PICK j \in J : \A i \in J : j <= i
  <2> HIDE DEF J
  <2>1. J \subseteq Nat
    BY Zenon DEF J
  <2> QED  BY <1>10, <2>1, Least, Zenon
<1>12. PICK c \in Blocks : In(c, j)
  BY <1>11, Zenon
<1>13. j \in Nat /\ j \in Types /\ j <= k /\ j + 1 \in Nat /\ j + 1 <= k + 1
  BY <1>3, <1>11
<1> DEFINE t == GetMemBlockSize(j)
<1>14. t \in Nat \ {0} /\ GetMemBlockSize(j + 1) = 2 * t /\ SizeAt(w, c) = t /\ addr[c] \in Nat
  BY <1>2, <1>4, <1>12, <1>13, Addresses, Zenon DEF SizeAt
<1>15. OnGrid(addr[c], j)
  BY <1>1, <1>12, <1>13, Zenon DEF Gridded
<1>16. PICK q : OnGrid(q, j + 1) /\ addr[c] \in {q, q + t}
  BY <1>13, <1>15, Parent, Zenon
<1>17. q \in Nat /\ OnGrid(q, j) /\ OnGrid(q + t, j)
  BY <1>13, <1>16, GridAbove, GridHalves, Zenon
<1>18. p <= q /\ q + 2 * t <= end
  <2>1. q + 2 * t <= p \/ end <= q \/ (p <= q /\ q + 2 * t <= end)
    BY <1>3, <1>13, <1>14, <1>16, Nested, Zenon
  <2>2. p <= addr[c] /\ addr[c] + t <= end
    BY <1>12, Zenon
  <2> HIDE DEF t, end
  <2> QED  BY <1>5, <1>6, <1>14, <1>16, <1>17, <2>1, <2>2
<1> DEFINE y == IF addr[c] = q THEN q + t ELSE q
<1>19. y \in Nat /\ p <= y /\ y + t <= end /\ y \in {q, q + t} /\ y # addr[c]
  <2> HIDE DEF t, end
  <2> QED  BY <1>5, <1>6, <1>14, <1>16, <1>17, <1>18
<1>20. y < end /\ y \in 0 .. Area - 1 /\ y < fill.i
  <2> HIDE DEF t, y
  <2> QED  BY <1>5, <1>6, <1>7, <1>14, <1>19
<1>21. PICK d \in Blocks : w[d] # POOL /\ addr[d] <= y /\ y < addr[d] + SizeAt(w, d)
  BY <1>1, <1>20, Zenon DEF Covered
<1> HIDE DEF y
<1>22. PICK i \in Types : i <= k /\ In(d, i)
  BY <1>9, <1>19, <1>20, <1>21, Zenon
<1>23. i \in Nat /\ i \in J
  BY <1>22, BlockSizes, Zenon
<1>24. SizeAt(w, d) = GetMemBlockSize(i) /\ OnGrid(addr[d], i) /\ addr[d] \in Nat /\ GetMemBlockSize(i) \in Nat \ {0}
  BY <1>1, <1>2, <1>4, <1>22, <1>23, Addresses, Zenon DEF SizeAt, Gridded
<1>25. d # c
  <2> HIDE DEF t
  <2> QED  BY <1>14, <1>16, <1>17, <1>19, <1>21
<1>26. i = j
  <2> SUFFICES ASSUME j + 1 <= i PROVE FALSE
    <3>1. j <= i
      BY <1>11, <1>23, Zenon
    <3> QED  BY <1>13, <1>23, <3>1
  <2>1. \/ q + 2 * t <= addr[d] \/ addr[d] + GetMemBlockSize(i) <= q
        \/ addr[d] <= q /\ q + 2 * t <= addr[d] + GetMemBlockSize(i)
    BY <1>13, <1>14, <1>16, <1>23, <1>24, Nested, Zenon
  <2>2. addr[c] + t <= addr[d] \/ addr[d] + GetMemBlockSize(i) <= addr[c]
    <3>1. w[c] # POOL
      BY <1>12, <1>13, Addresses, Zenon
    <3> QED  BY <1>1, <1>14, <1>21, <1>24, <1>25, <3>1, Zenon DEF Placed
  <2>3. addr[d] <= y /\ y < addr[d] + GetMemBlockSize(i)
    BY <1>21, <1>24, Zenon
  <2> HIDE DEF t
  <2> QED  BY <1>14, <1>16, <1>17, <1>19, <1>24, <2>1, <2>2, <2>3
<1>27. addr[d] = y
  <2>1. addr[d] = y \/ addr[d] + t <= y \/ y + t <= addr[d]
    BY <1>13, <1>17, <1>19, <1>24, <1>26, GridCells, Zenon
  <2>2. addr[d] <= y /\ y < addr[d] + t
    BY <1>21, <1>24, <1>26, Zenon
  <2> HIDE DEF t
  <2> QED  BY <1>14, <1>19, <1>24, <2>1, <2>2
<1>28. w[c] = Free(j) /\ w[d] = Free(j) /\ c \in Blocks \ {NULL} /\ d \in Blocks \ {NULL}
  BY <1>12, <1>22, <1>26, Addresses, Zenon
<1>29. ((q - reserved_size) \div t) % 2 = 0
  BY <1>13, <1>16, LowerHalf, Zenon
<1>30. (addr[c] = q /\ addr[d] = q + t) \/ (addr[d] = q /\ addr[c] = q + t)
  BY <1>16, <1>19, <1>27, Zenon
<1> QED  BY <1>1, <1>13, <1>28, <1>29, <1>30, Zenon DEF Calm

\* Every free block has an area in use, or the end of the blocks, beside it.
LEMMA FreeIsNear ==
  ASSUME NEW L, NEW w, Whole(L, w), NEW b \in Blocks, NEW k \in Types, w[b] = Free(k)
  PROVE  \E x \in DOMAIN held \cup {Filled} : Near(b, k, x)
<1>1. OnGrid(addr[b], k) /\ k \in Nat /\ k + 1 \in Nat
  <2>1. OnGrid(addr[b], k) /\ k \in Nat
    BY BlockSizes, Zenon DEF Whole, Shape, Gridded
  <2> QED  BY <2>1
<1>2. PICK p : OnGrid(p, k + 1) /\ addr[b] \in {p, p + GetMemBlockSize(k)}
  BY <1>1, Parent, Zenon
<1>3. CASE p + GetMemBlockSize(k + 1) <= Filled
  <2>1. PICK x \in DOMAIN held : p <= x /\ x < p + GetMemBlockSize(k + 1)
    BY <1>2, <1>3, HalfInUse, Zenon
  <2> QED  BY <1>2, <2>1, Zenon DEF Near
<1>4. CASE ~ (p + GetMemBlockSize(k + 1) <= Filled)
  <2>1. p \in Nat /\ GetMemBlockSize(k) \in Nat \ {0} /\ GetMemBlockSize(k + 1) \in Nat
    BY <1>1, <1>2, GridAbove, SizeDoubles, Zenon
  <2>2. Filled \in Nat /\ addr[b] + GetMemBlockSize(k) <= Filled
    BY FilledEnd, Zenon
  <2>3. p <= Filled /\ Filled < p + GetMemBlockSize(k + 1)
    BY <1>2, <1>4, <2>1, <2>2
  <2> QED  BY <1>2, <2>3, Zenon DEF Near
<1> QED  BY <1>3, <1>4, Zenon

\* No two free blocks of a type are beside the same address: they would be
\* buddies.
LEMMA NearOnce ==
  ASSUME NEW L, NEW w, Whole(L, w), NEW k \in Types, NEW x \in Nat,
         NEW b \in Blocks, w[b] = Free(k), Near(b, k, x),
         NEW c \in Blocks, w[c] = Free(k), Near(c, k, x)
  PROVE  b = c
<1> SUFFICES ASSUME b # c PROVE FALSE
  OBVIOUS
<1> DEFINE s == GetMemBlockSize(k)
           t == GetMemBlockSize(k + 1)
<1>1. k \in Nat /\ k + 1 \in Nat
  BY BlockSizes
<1>2. PICK p : OnGrid(p, k + 1) /\ addr[b] \in {p, p + s} /\ p <= x /\ x < p + t
  BY Zenon DEF Near
<1>3. PICK q : OnGrid(q, k + 1) /\ addr[c] \in {q, q + s} /\ q <= x /\ x < q + t
  BY Zenon DEF Near
<1>4. p \in Nat /\ q \in Nat /\ s \in Nat \ {0} /\ t \in Nat
  BY <1>1, <1>2, <1>3, GridAbove, SizeDoubles, Zenon
<1>5. p = q
  <2>1. p = q \/ p + t <= q \/ q + t <= p
    BY <1>1, <1>2, <1>3, GridCells, Zenon
  <2> HIDE DEF t
  <2> QED  BY <1>2, <1>3, <1>4, <2>1
<1>6. addr[b] + s <= addr[c] \/ addr[c] + s <= addr[b]
  <2>1. SizeAt(w, b) = s /\ SizeAt(w, c) = s /\ w[b] # POOL /\ w[c] # POOL
    BY Addresses, Zenon DEF SizeAt
  <2>2. Placed(addr, w)
    BY Zenon DEF Whole, Shape
  <2> QED  BY <2>1, <2>2, Zenon DEF Placed
<1>7. (addr[b] = p /\ addr[c] = p + s) \/ (addr[c] = p /\ addr[b] = p + s)
  <2> HIDE DEF s
  <2>1. addr[b] # addr[c]
    BY <1>2, <1>3, <1>4, <1>5, <1>6
  <2> QED  BY <1>2, <1>3, <1>5, <2>1, Zenon
<1>8. ((p - reserved_size) \div s) % 2 = 0
  BY <1>1, <1>2, LowerHalf, Zenon
<1>9. b \in Blocks \ {NULL} /\ c \in Blocks \ {NULL} /\ Calm(addr, w, NULL)
  BY Addresses, Zenon DEF Whole, Shape
<1> QED  BY <1>7, <1>8, <1>9, Zenon DEF Calm

\* What users hold is no more than MaxHeld areas, and none at boot.
HeldInv ==
    /\ IsFiniteSet(DOMAIN held) /\ Cardinality(DOMAIN held) <= MaxHeld
    /\ Filling => DOMAIN held = {}

\* With h areas in use at most (h + 1) * (kMemBlockTypeNum + 1) MemBlocks are
\* out of the pool: one for each area in use and the reserved memory, and one
\* of each type beside each area in use and beside the end of the blocks.
LEMMA OutOfPool ==
  ASSUME NEW L, NEW w, Whole(L, w), HeldInv
  PROVE  PoolSize - Len(L[POOL]) <= (Cardinality(DOMAIN held) + 1) * (kMemBlockTypeNum + 1)
<1> DEFINE U == {b \in Blocks : w[b] # POOL}
           V == DOMAIN held \cup {Filled}
           N == kMemBlockTypeNum
           K == 0 .. N
           Spot(b) == CHOOSE x \in V : Near(b, w[b][2], x)
           key(b) == IF w[b] = Free(w[b][2]) THEN <<Spot(b), w[b][2]>>
                     ELSE <<IF addr[b] = 0 THEN Filled ELSE addr[b], N>>
           f == [b \in U |-> key(b)]
<1>1. /\ Links(next, L, w) /\ (\A b \in Blocks : w[b] # NULL) /\ addr \in [Mem -> Nat]
      /\ Placed(addr, w) /\ InUse(addr, w, held)
  BY Zenon DEF Whole, Shape
<1>2. IsFiniteSet(U) /\ Cardinality(U) = PoolSize - Len(L[POOL])
  BY <1>1, PoolCount, Zenon
<1>3. N \in Nat \ {0} /\ Area \in Nat /\ Filled \in Nat
  BY BlockSizes, FilledEnd, Zenon
<1>4. ASSUME NEW b \in U
      PROVE  \E k \in Types : /\ w[b][2] = k /\ k \in K /\ k # N
                              /\ w[b] = Free(k) \/ w[b] = Alloc(k)
  <2>1. w \in [Blocks -> Heads]
    BY <1>1 DEF Links
  <2>2. PICK k \in Types : w[b] = Free(k) \/ w[b] = Alloc(k)
    BY <2>1, Addresses, Zenon
  <2>3. w[b][2] = k
    BY <2>2, Addresses, Zenon
  <2>4. k \in K /\ k # N
    BY <1>3 DEF Types
  <2> QED  BY <2>2, <2>3, <2>4, Zenon
<1>5. Filled \notin DOMAIN held /\ \A x \in DOMAIN held : x \in Nat
  <2>1. CASE Filling
    BY <2>1, Zenon DEF HeldInv
  <2>2. CASE ~ Filling
    <3>1. Filled = Area
      BY <2>2, Zenon DEF Filled
    <3>2. ASSUME NEW x \in DOMAIN held PROVE x \in Nat /\ x # Area
      <4> DEFINE s == GetMemBlockSize(GetMemBlockSizeType(held[x]))
      <4>1. held[x] \in Sizes /\ x \in Nat /\ x + s <= Area
        BY <1>1, Zenon DEF InUse
      <4>2. s \in Nat \ {0}
        BY <4>1, TypeOf, BlockSizes, Zenon
      <4> HIDE DEF s
      <4> QED  BY <1>3, <4>1, <4>2
    <3> QED  BY <3>1, <3>2, Zenon
  <2> QED  BY <2>1, <2>2, Zenon
<1>6. ASSUME NEW b \in U, NEW k \in Types, w[b] = Free(k)
      PROVE  key(b) = <<Spot(b), k>> /\ Spot(b) \in V /\ Near(b, k, Spot(b))
  <2>1. w[b][2] = k
    BY <1>6, Addresses, Zenon
  <2>2. \E x \in V : Near(b, k, x)
    BY <1>6, FreeIsNear, Zenon
  <2> QED  BY <1>6, <2>1, <2>2, Zenon
<1>7. ASSUME NEW b \in U, NEW k \in Types, w[b] = Alloc(k)
      PROVE  key(b) = <<IF addr[b] = 0 THEN Filled ELSE addr[b], N>>
  <2>1. w[b] # Free(w[b][2])
    BY <1>7, Addresses, Zenon
  <2> QED  BY <2>1, Zenon
<1>8. ASSUME NEW b \in U, NEW k \in Types, w[b] = Alloc(k), addr[b] # 0
      PROVE  addr[b] \in DOMAIN held
  BY <1>1, <1>8, Zenon DEF InUse
<1> HIDE DEF Spot, key
<1>9. ASSUME NEW b \in U PROVE key(b) \in V \X K
  <2>1. PICK k \in Types : k \in K /\ (w[b] = Free(k) \/ w[b] = Alloc(k))
    BY <1>4, Zenon
  <2>2. CASE w[b] = Free(k)
    BY <1>6, <2>1, <2>2
  <2>3. CASE w[b] = Alloc(k)
    <3>1. N \in K
      BY <1>3
    <3>2. (IF addr[b] = 0 THEN Filled ELSE addr[b]) \in V
      BY <1>8, <2>3, Zenon
    <3> QED  BY <1>7, <2>3, <3>1, <3>2
  <2> QED  BY <2>1, <2>2, <2>3, Zenon
<1>10. ASSUME NEW b \in U, NEW c \in U, addr[b] = addr[c] PROVE b = c
  <2>1. b # c => addr[b] + SizeAt(w, b) <= addr[c] \/ addr[c] + SizeAt(w, c) <= addr[b]
    BY <1>1, Zenon DEF Placed
  <2>2. w \in [Blocks -> Heads]
    BY <1>1 DEF Links
  <2>3. /\ addr[b] \in Nat /\ SizeAt(w, b) \in Nat \ {0}
        /\ addr[c] \in Nat /\ SizeAt(w, c) \in Nat \ {0}
    BY <1>1, <2>2, BlockSizes, Zenon DEF SizeAt, Mem
  <2> QED  BY <1>10, <2>1, <2>3
<1>11. ASSUME NEW b \in U, NEW c \in U, key(b) = key(c) PROVE b = c
  <2>1. PICK i \in Types : i # N /\ (w[b] = Free(i) \/ w[b] = Alloc(i))
    BY <1>4, Zenon
  <2>2. PICK j \in Types : j # N /\ (w[c] = Free(j) \/ w[c] = Alloc(j))
    BY <1>4, Zenon
  <2>3. CASE w[b] = Free(i) /\ w[c] = Free(j)
    <3>1. i = j /\ Spot(b) = Spot(c) /\ Near(b, i, Spot(b)) /\ Near(c, j, Spot(c)) /\ Spot(b) \in V
      BY <1>6, <1>11, <2>3
    <3>2. Spot(b) \in Nat
      BY <1>3, <1>5, <3>1, Zenon
    <3>3. b \in Blocks /\ c \in Blocks
      BY Zenon
    <3> DEFINE x == Spot(b)
    <3>4. /\ x \in Nat /\ i \in Types /\ w[b] = Free(i) /\ Near(b, i, x)
          /\ w[c] = Free(i) /\ Near(c, i, x)
      BY <2>3, <3>1, <3>2, Zenon
    <3> HIDE DEF x, U
    <3> QED  BY <3>3, <3>4, NearOnce, Zenon
  <2>4. CASE w[b] = Free(i) /\ w[c] = Alloc(j)
    BY <1>6, <1>7, <1>11, <2>1, <2>4
  <2>5. CASE w[b] = Alloc(i) /\ w[c] = Free(j)
    BY <1>6, <1>7, <1>11, <2>2, <2>5
  <2>6. CASE w[b] = Alloc(i) /\ w[c] = Alloc(j)
    <3>1. (IF addr[b] = 0 THEN Filled ELSE addr[b]) = (IF addr[c] = 0 THEN Filled ELSE addr[c])
      BY <1>7, <1>11, <2>6
    <3>2. addr[b] = addr[c]
      BY <1>5, <1>8, <2>6, <3>1, Zenon
    <3> QED  BY <1>10, <3>2, Zenon
  <2> QED  BY <2>1, <2>2, <2>3, <2>4, <2>5, <2>6, Zenon
<1>12. f \in Injection(U, V \X K)
  <2>1. f \in [U -> V \X K] /\ \A b, c \in U : f[b] = f[c] => b = c
    BY <1>9, <1>11, Zenon
  <2> HIDE DEF f, U, V, K
  <2> QED  BY <2>1, Zenon DEF Injection, IsInjective
<1> DEFINE h == Cardinality(DOMAIN held)
<1>13. /\ IsFiniteSet(V) /\ h \in Nat /\ Cardinality(V) = h + 1
  BY <1>5, FS_AddElement, FS_CardinalityType, Zenon DEF HeldInv
<1>14. IsFiniteSet(K) /\ Cardinality(K) = N + 1
  <2>1. 0 \in Int /\ N \in Int /\ ~ (0 > N) /\ N - 0 + 1 = N + 1
    BY <1>3
  <2> QED  BY <2>1, FS_Interval, Zenon
<1> HIDE DEF f, U, V, K
<1>15. IsFiniteSet(V \X K) /\ Cardinality(V \X K) = (h + 1) * (N + 1)
  <2>1. IsFiniteSet(V \X K) /\ Cardinality(V \X K) = Cardinality(V) * Cardinality(K)
    BY <1>13, <1>14, FS_Product, Zenon
  <2> QED  BY <1>13, <1>14, <2>1, Zenon
<1>16. Cardinality(U) <= Cardinality(V \X K)
  BY <1>12, <1>15, FS_Injection, Zenon
<1> QED  BY <1>2, <1>15, <1>16, Zenon

\* The users' calls keep to the bound.
LEMMA HeldKeeps ==
  ASSUME Release = "lone"
  PROVE  AllocatorInv /\ HeldInv /\ PoolSuffices /\ [Next]_vars => HeldInv'
<1> SUFFICES ASSUME AllocatorInv, HeldInv, PoolSuffices, [Next]_vars PROVE HeldInv'
  OBVIOUS
<1>1. MaxHeld \in Nat /\ Cardinality(DOMAIN held) \in Nat
  BY AllocatorAssumption, FS_CardinalityType, Zenon DEF HeldInv
<1>2. CASE FillStep
  <2>1. Filling /\ UNCHANGED held
    BY <1>2, FillKeeps, Zenon DEF FillStep
  <2> QED  BY <2>1, Zenon DEF HeldInv
<1>3. CASE Request
  <2>1. PICK n \in Sizes : ReqBytes(n) /\ MayRequest
    BY <1>3, Zenon DEF Request
  <2>2. ~ Filling'
    BY <2>1, Zenon DEF ReqBytes, Filling
  <2>3. CASE UNCHANGED held
    BY <2>2, <2>3, Zenon DEF HeldInv
  <2>4. CASE \E a : held' = Taken(held, a, n)
    <3>1. PICK a : held' = Taken(held, a, n)
      BY <2>4, Zenon
    <3>2. DOMAIN held' = DOMAIN held \cup {a}
      BY <3>1, Zenon DEF Taken
    <3>3. /\ IsFiniteSet(DOMAIN held')
          /\ \/ Cardinality(DOMAIN held') = Cardinality(DOMAIN held)
             \/ Cardinality(DOMAIN held') = Cardinality(DOMAIN held) + 1
      <4>1. /\ IsFiniteSet(DOMAIN held \cup {a})
            /\ Cardinality(DOMAIN held \cup {a}) =
                 IF a \in DOMAIN held THEN Cardinality(DOMAIN held) ELSE Cardinality(DOMAIN held) + 1
        BY FS_AddElement, Zenon DEF HeldInv
      <4> QED  BY <3>2, <4>1, Zenon
    <3>4. Cardinality(DOMAIN held) < MaxHeld
      BY <2>1, Zenon DEF MayRequest
    <3>5. Cardinality(DOMAIN held') <= MaxHeld
      BY <1>1, <3>3, <3>4
    <3> QED  BY <2>2, <3>3, <3>5, Zenon DEF HeldInv
  <2> QED  BY <2>1, <2>3, <2>4, RequestStep, Zenon
<1>4. CASE Give
  <2>1. PICK a \in DOMAIN held : MayRelease(a) /\ RelBytes(a)
    BY <1>4, Zenon DEF Give
  <2>2. ~ Filling'
    BY <2>1, Zenon DEF RelBytes, Filling
  <2>3. held' = Given(held, a)
    BY <2>1, GiveStep, Zenon
  <2>4. DOMAIN held' = DOMAIN held \ {a}
    BY <2>3, Zenon DEF Given
  <2>5. IsFiniteSet(DOMAIN held') /\ Cardinality(DOMAIN held') = Cardinality(DOMAIN held) - 1
    BY <2>4, FS_RemoveElement, Zenon DEF HeldInv
  <2>6. Cardinality(DOMAIN held) <= MaxHeld
    BY Zenon DEF HeldInv
  <2>7. Cardinality(DOMAIN held') <= MaxHeld
    BY <1>1, <2>5, <2>6
  <2> QED  BY <2>2, <2>5, <2>7, Zenon DEF HeldInv
<1>5. CASE UNCHANGED vars
  BY <1>5, Zenon DEF HeldInv, vars, Filling
<1> QED  BY <1>2, <1>3, <1>4, <1>5, Zenon DEF Next

\* The pool with MemBlocks for one more area than may be in use has one for
\* each block that the next step makes.
LEMMA PoolHolds ==
  ASSUME PoolSize >= (MaxHeld + 1) * (kMemBlockTypeNum + 1)
  PROVE  AllocatorInv /\ HeldInv => PoolSuffices
<1> SUFFICES ASSUME AllocatorInv, HeldInv PROVE PoolSuffices
  OBVIOUS
<1> DEFINE N == kMemBlockTypeNum
           h == Cardinality(DOMAIN held)
<1>1. PICK L, w : Whole(L, w)
  BY Zenon DEF AllocatorInv
<1>2. Links(next, L, w)
  BY <1>1, Zenon DEF Whole, Shape
<1>3. NodesOf(next, POOL) = L[POOL] /\ POOL \in Heads /\ Len(L[POOL]) \in Nat
  <2>1. POOL \in Heads
    BY Addresses, Zenon
  <2> QED  BY <1>2, <2>1, ListOf, NodeFacts
<1>4. h \in Nat /\ N \in Nat \ {0} /\ MaxHeld \in Nat \ {0} /\ PoolSize \in Nat
  BY AllocatorAssumption, FS_CardinalityType, Zenon DEF HeldInv
<1>5. PoolSize - Len(L[POOL]) <= (h + 1) * (N + 1)
  BY <1>1, OutOfPool, Zenon
<1> HIDE DEF h
<1>6. ASSUME h < MaxHeld PROVE Len(L[POOL]) >= N + 1
  <2>1. MaxHeld - h \in Nat \ {0} /\ MaxHeld + 1 = (h + 1) + (MaxHeld - h)
    BY <1>4, <1>6
  <2>2. ASSUME NEW d \in Nat \ {0} PROVE ((h + 1) + d) * (N + 1) >= (h + 1) * (N + 1) + (N + 1)
    <3>1. ((h + 1) + d) * (N + 1) = (h + 1) * (N + 1) + (N + 1) + (d - 1) * (N + 1)
      BY <1>4
    <3>2. (d - 1) * (N + 1) \in Nat /\ (h + 1) * (N + 1) \in Nat
      BY <1>4
    <3> QED  BY <1>4, <3>1, <3>2
  <2>3. (MaxHeld + 1) * (N + 1) >= (h + 1) * (N + 1) + (N + 1)
    BY <2>1, <2>2, Zenon
  <2>4. (MaxHeld + 1) * (N + 1) \in Nat /\ (h + 1) * (N + 1) \in Nat
    BY <1>4
  <2> DEFINE A == (MaxHeld + 1) * (N + 1)
             B == (h + 1) * (N + 1)
  <2>5. PoolSize >= A /\ PoolSize - Len(L[POOL]) <= B /\ A >= B + (N + 1) /\ A \in Nat /\ B \in Nat
    BY <1>5, <2>3, <2>4, Zenon
  <2> HIDE DEF A, B, N
  <2> QED  BY <1>3, <1>4, <2>5
<1>7. ASSUME Filling PROVE ~ IsListEmpty(next, POOL)
  <2>1. h = 0
    BY <1>7, FS_EmptySet, Zenon DEF HeldInv, h
  <2>2. h < MaxHeld
    BY <1>4, <2>1
  <2>3. Len(L[POOL]) >= N + 1
    BY <1>6, <2>2, Zenon
  <2>4. L[POOL] # <<>>
    BY <1>4, <2>3
  <2> QED  BY <1>2, <1>3, <2>4, FirstOf, Zenon
<1>8. ASSUME MayRequest, NEW n \in Sizes, NEW k, k = GetMemBlockSizeType(n), Larger(k) # {}
      PROVE  Len(NodesOf(next, POOL)) >= Min(Larger(k)) - k
  <2> DEFINE top == Min(Larger(k))
  <2>1. k \in Types /\ k \in Nat
    BY <1>8, TypeOf, BlockSizes, Zenon
  <2>2. top \in Larger(k)
    <3>1. Larger(k) \subseteq Nat
      BY <1>4, <2>1 DEF Larger
    <3> QED  BY <1>8, <3>1, MinOf, Zenon
  <2> HIDE DEF top
  <2>3. top \in Nat /\ top <= N
    BY <1>4, <2>1, <2>2 DEF Larger, Types
  <2>4. Len(L[POOL]) >= N + 1
    BY <1>6, <1>8, Zenon DEF MayRequest, h
  <2>5. Len(L[POOL]) >= top - k
    BY <1>3, <1>4, <2>1, <2>3, <2>4
  <2> QED  BY <1>3, <2>5, Zenon DEF top
<1> QED  BY <1>7, <1>8, Zenon DEF PoolSuffices

\* However large the area, a pool of (MaxHeld + 1) * (kMemBlockTypeNum + 1)
\* MemBlocks never runs out in DirectMappingInit or in a division of DivBlock
\* while no more than MaxHeld areas are in use at once, so that the theorems
\* above hold of it without a further condition.  For the pool of the code,
\* 131019 MemBlocks and 26 types, that is 4851 areas.
THEOREM AllocatorPool ==
  ASSUME Release = "lone", PoolSize >= (MaxHeld + 1) * (kMemBlockTypeNum + 1)
  PROVE  Spec => []PoolSuffices
<1>1. Init => AllocatorInv /\ HeldInv
  <2>1. Init => DOMAIN held = {}
    BY DEF Init
  <2>2. Cardinality({}) = 0 /\ IsFiniteSet({})
    BY FS_EmptySet, Zenon
  <2>3. 0 <= MaxHeld
    BY AllocatorAssumption
  <2> QED  BY <2>1, <2>2, <2>3, StartHolds, Zenon DEF HeldInv
<1>2. AllocatorInv /\ HeldInv /\ [Next]_vars => (AllocatorInv /\ HeldInv)'
  BY StepKeeps, HeldKeeps, PoolHolds, Zenon
<1>3. AllocatorInv /\ HeldInv => PoolSuffices
  BY PoolHolds, Zenon
<1> QED  BY <1>1, <1>2, <1>3, PTL DEF Spec

=============================================================================
