---------------------------- MODULE GrantProofs -----------------------------
(***************************************************************************)
(* What ReqBytes does to the blocks of the buddy allocator: dividing a     *)
(* block as often as it takes, and granting its front part.                *)
(***************************************************************************)
EXTENDS BlockProofs

-----------------------------------------------------------------------------
(* DivBlock.                                                               *)

\* A Split takes the lists L to M: the front block b1 of type j and a MemBlock
\* b2 of the pool become the list of type j - 1, b2 in front.
Halved(m, j, L, w, M, v) ==
    LET b1 == L[Free(j)][1]
        b2 == L[POOL][1]
    IN  /\ Links(Split(m, j).next, M, v)
        /\ Split(m, j).addr = [m.addr EXCEPT ![b2] = m.addr[b1] + GetMemBlockSize(j - 1)]
        /\ v = [w EXCEPT ![b1] = Free(j - 1), ![b2] = Free(j - 1)]
        /\ M[POOL] = Del(L[POOL], 0) /\ M[Free(j)] = Del(L[Free(j)], 0)
        /\ Len(M[Free(j - 1)]) = 2 /\ M[Free(j - 1)][1] = b2 /\ M[Free(j - 1)][2] = b1
        /\ \A h \in Heads \ {POOL, Free(j), Free(j - 1)} : M[h] = L[h]

\* The links of a Split.
LEMMA SplitLinks ==
  ASSUME NEW m, NEW L, NEW w, Links(m.next, L, w), NEW j \in Types \ {0},
         L[Free(j)] # <<>>, L[Free(j - 1)] = <<>>, L[POOL] # <<>>
  PROVE  \E M, v : Halved(m, j, L, w, M, v)
<1> DEFINE n == m.next
           hi == Free(j)
           lo == Free(j - 1)
           b1 == L[Free(j)][1]
           b2 == L[POOL][1]
           n1 == ListRemove(n, hi)
           L1 == [L EXCEPT ![hi] = Del(L[hi], 0)]
           w1 == [w EXCEPT ![b1] = NULL]
           n2 == AfterReqMemBlock(n1)
           L2 == [L1 EXCEPT ![POOL] = Del(L1[POOL], 0)]
           w2 == [w1 EXCEPT ![b2] = NULL]
           n3 == ListAdd(n2, lo, b1)
           L3 == [L2 EXCEPT ![lo] = Ins(L2[lo], 0, b1)]
           w3 == [w2 EXCEPT ![b1] = lo]
           n4 == ListAdd(n3, lo, b2)
           M == [L3 EXCEPT ![lo] = Ins(L3[lo], 0, b2)]
           v == [w3 EXCEPT ![b2] = lo]
<1>1. /\ j - 1 \in Types /\ hi \in Heads /\ lo \in Heads /\ POOL \in Heads
      /\ hi # lo /\ hi # POOL /\ lo # POOL
  <2>1. j \in Types /\ j - 1 \in Types /\ j # j - 1
    BY BlockSizes DEF Types
  <2> QED  BY <2>1, Addresses, Zenon
<1>2. L \in [Heads -> Seq(Blocks)] /\ w \in [Blocks -> Heads \cup {NULL}]
  BY Zenon DEF Links
<1>3. n[hi] = b1 /\ b1 \in Blocks /\ w[b1] = hi
  BY <1>1, FirstOf, Zenon
<1>4. b2 \in Blocks /\ w[b2] = POOL
  BY LinksReq, Zenon
<1>5. b1 # b2
  BY <1>1, <1>3, <1>4, Zenon
<1>6. Links(n1, L1, w1)
  BY <1>1, LinksPop, Zenon
<1>7. L1[POOL] = L[POOL] /\ L1[hi] = Del(L[hi], 0) /\ \A h \in Heads \ {hi} : L1[h] = L[h]
  BY <1>1, <1>2, Zenon
<1>8. DOMAIN L1 = Heads /\ w1 \in [Blocks -> Heads \cup {NULL}]
  BY <1>2, Zenon
<1> HIDE DEF n1, L1, w1
<1>9. ReqMemBlock(n1) = b2 /\ Links(n2, L2, w2)
  BY <1>6, <1>7, LinksReq
<1>10. /\ L2[POOL] = Del(L[POOL], 0) /\ L2[hi] = Del(L[hi], 0) /\ L2[lo] = <<>>
       /\ \A h \in Heads \ {hi, POOL} : L2[h] = L[h]
  BY <1>1, <1>7, <1>8, Zenon
<1>11. w2[b1] = NULL /\ DOMAIN L2 = Heads /\ w2 \in [Blocks -> Heads \cup {NULL}]
  BY <1>2, <1>3, <1>5, <1>8, Zenon DEF w1
<1> HIDE DEF n2, L2
<1>12. Links(n3, L3, w3)
  BY <1>1, <1>3, <1>9, <1>11, LinksPush, Zenon
<1>13. /\ L3[POOL] = Del(L[POOL], 0) /\ L3[hi] = Del(L[hi], 0) /\ L3[lo] = Ins(<<>>, 0, b1)
       /\ \A h \in Heads \ {hi, POOL, lo} : L3[h] = L[h]
  BY <1>1, <1>10, <1>11, Zenon
<1>14. w3[b2] = NULL /\ DOMAIN L3 = Heads
  BY <1>4, <1>5, <1>8, <1>11, Zenon
<1> HIDE DEF n3, L3
<1>15. Links(n4, M, v)
  BY <1>1, <1>4, <1>12, <1>14, LinksPush, Zenon
<1>16. /\ M[POOL] = Del(L[POOL], 0) /\ M[hi] = Del(L[hi], 0)
       /\ M[lo] = Ins(Ins(<<>>, 0, b1), 0, b2)
       /\ \A h \in Heads \ {hi, POOL, lo} : M[h] = L[h]
  BY <1>1, <1>13, <1>14, Zenon
<1>17. /\ Len(Ins(Ins(<<>>, 0, b1), 0, b2)) = 2
       /\ Ins(Ins(<<>>, 0, b1), 0, b2)[1] = b2 /\ Ins(Ins(<<>>, 0, b1), 0, b2)[2] = b1
  <2> DEFINE one == Ins(<<>>, 0, b1)
  <2>1. <<>> \in Seq(Blocks) /\ Len(<<>>) = 0 /\ 0 \in 0 .. 0
    OBVIOUS
  <2>2. one \in Seq(Blocks) /\ Len(one) = 1
    <3>1. 0 \in 0 .. Len(<<>>)
      BY <2>1, Zenon
    <3>2. one \in Seq(Blocks) /\ Len(one) = Len(<<>>) + 1
      BY <1>3, <2>1, <3>1, InsDel, Zenon
    <3> QED  BY <2>1, <3>2
  <2>3. one[1] = b1
    BY <2>1 DEF Ins
  <2> HIDE DEF one
  <2>4. Len(Ins(one, 0, b2)) = 2
    <3>1. 0 \in 0 .. Len(one)
      BY <2>2
    <3>2. Len(Ins(one, 0, b2)) = Len(one) + 1
      BY <1>4, <2>2, <3>1, InsDel, Zenon
    <3> QED  BY <2>2, <3>2
  <2>5. Ins(one, 0, b2)[1] = b2 /\ Ins(one, 0, b2)[2] = b1
    BY <2>2, <2>3 DEF Ins
  <2> QED  BY <2>4, <2>5, Zenon DEF one
<1>18. v = [w EXCEPT ![b1] = lo, ![b2] = lo]
  BY <1>2, <1>3, <1>4, <1>5, Zenon DEF w1
<1>19. /\ Split(m, j).next = n4
       /\ Split(m, j).addr = [m.addr EXCEPT ![b2] = m.addr[b1] + GetMemBlockSize(j - 1)]
  BY <1>3, <1>9, Zenon DEF Split, n1, n2, n3
<1>20. Links(Split(m, j).next, M, v)
  BY <1>15, <1>19, Zenon
<1> HIDE DEF n4, M, v
<1>21. Halved(m, j, L, w, M, v)
  BY <1>16, <1>17, <1>18, <1>19, <1>20, Zenon DEF Halved
<1> QED  BY <1>21, Zenon

\* The front block of type k may be taken: all is well but for its place.
Ready(m, L, w, k, e, hd) ==
    /\ L[Free(k)] # <<>>
    /\ Shape(m.next, m.addr, L, w, L[Free(k)][1])
    /\ Covered(m.addr, w, e) /\ InUse(m.addr, w, hd)

\* One MemBlock less in the pool, and the lists of types below j - 1 as before.
Uses(L, M, j) ==
    /\ Len(M[POOL]) = Len(L[POOL]) - 1
    /\ \A i \in Types : i < j - 1 => M[Free(i)] = L[Free(i)]

\* Two halves of a block take its place, and the higher one may be taken.
LEMMA SplitReady ==
  ASSUME NEW m, NEW L, NEW w, NEW j \in Types \ {0}, NEW e, NEW hd,
         Ready(m, L, w, j, e, hd), L[Free(j - 1)] = <<>>, L[POOL] # <<>>
  PROVE  \E M, v : Ready(Split(m, j), M, v, j - 1, e, hd) /\ Uses(L, M, j)
<1> DEFINE n == m.next
           ad == m.addr
           hi == Free(j)
           lo == Free(j - 1)
           b1 == L[Free(j)][1]
           b2 == L[POOL][1]
           sz == GetMemBlockSize(j - 1)
           ad2 == Split(m, j).addr
<1>1. /\ Links(n, L, w) /\ (\A b \in Blocks : w[b] # NULL) /\ ad \in [Mem -> Nat]
      /\ Placed(ad, w) /\ Gridded(ad, w) /\ Sorted(L, ad, b1) /\ Calm(ad, w, b1) /\ L[hi] # <<>>
  BY Zenon DEF Ready, Shape
<1>2. PICK M, v : Halved(m, j, L, w, M, v)
  BY <1>1, SplitLinks, Zenon
<1>3. /\ j \in Types /\ j - 1 \in Types /\ hi \in Heads /\ lo \in Heads /\ POOL \in Heads
      /\ hi # lo /\ hi # POOL /\ lo # POOL /\ hi[2] = j /\ lo[2] = j - 1
  <2>1. j \in Types /\ j - 1 \in Types /\ j # j - 1
    BY BlockSizes DEF Types
  <2> QED  BY <2>1, Addresses, Zenon
<1>4. L \in [Heads -> Seq(Blocks)] /\ w \in [Blocks -> Heads \cup {NULL}]
  BY <1>1, Zenon DEF Links
<1>5. b1 \in Blocks /\ w[b1] = hi
  BY <1>1, <1>3, FirstOf, Zenon
<1>6. b2 \in Blocks /\ w[b2] = POOL
  BY <1>1, LinksReq, Zenon
<1>7. b1 # b2 /\ b1 \in Mem /\ b2 \in Mem
  BY <1>3, <1>5, <1>6, Zenon DEF Mem
<1>8. /\ sz \in Nat \ {0} /\ GetMemBlockSize(j) = sz + sz
  <2>1. j - 1 \in Nat /\ (j - 1) + 1 = j
    BY <1>3, BlockSizes
  <2>2. sz \in Nat \ {0} /\ GetMemBlockSize((j - 1) + 1) = 2 * sz
    BY <2>1, SizeDoubles, Zenon
  <2> QED  BY <2>1, <2>2
<1> HIDE DEF b1, b2, sz, ad2
<1>9. /\ ad2 \in [Mem -> Nat] /\ ad2[b2] = ad[b1] + sz
      /\ \A x \in Mem \ {b2} : ad2[x] = ad[x]
  <2>1. ad2 = [ad EXCEPT ![b2] = ad[b1] + sz]
    BY <1>2, Zenon DEF Halved, b1, b2, sz, ad2
  <2>2. ad[b1] \in Nat
    BY <1>1, <1>7, Zenon
  <2> QED  BY <1>1, <1>7, <1>8, <2>1, <2>2
<1>10. \A b \in Blocks : v[b] = IF b \in {b1, b2} THEN lo ELSE w[b]
  <2>1. v = [w EXCEPT ![b1] = lo, ![b2] = lo]
    BY <1>2, Zenon DEF Halved, b1, b2
  <2> QED  BY <1>4, <1>5, <1>6, <2>1, Zenon
<1>11. /\ Links(Split(m, j).next, M, v)
       /\ M[POOL] = Del(L[POOL], 0) /\ M[hi] = Del(L[hi], 0)
       /\ Len(M[lo]) = 2 /\ M[lo][1] = b2 /\ M[lo][2] = b1
       /\ \A h \in Heads \ {POOL, hi, lo} : M[h] = L[h]
  BY <1>2, Zenon DEF Halved, b1, b2
<1>12. \A b \in Blocks : w[b] # lo
  <2> SUFFICES ASSUME NEW b \in Blocks, w[b] = lo PROVE FALSE
    OBVIOUS
  <2>1. \E i \in 1 .. Len(L[w[b]]) : L[w[b]][i] = b
    BY <1>1, Zenon DEF Links
  <2>2. Len(L[lo]) = 0
    OBVIOUS
  <2> QED  BY <2>1, <2>2
<1>13. \A b \in Blocks : /\ b \in Mem /\ ad[b] \in Nat /\ ad2[b] \in Nat /\ w[b] \in Heads
                        /\ v[b] \in Heads
                        /\ SizeAt(w, b) \in Nat \ {0} /\ SizeAt(v, b) \in Nat \ {0}
  <2> TAKE b \in Blocks
  <2>1. b \in Mem /\ ad[b] \in Nat /\ ad2[b] \in Nat
    BY <1>1, <1>9, Zenon DEF Mem
  <2>2. w[b] \in Heads /\ v[b] \in Heads
    BY <1>1, <1>3, <1>4, <1>10, Zenon
  <2> QED  BY <2>1, <2>2, BlockSizes, Zenon DEF SizeAt
<1>14. /\ SizeAt(w, b1) = sz + sz /\ SizeAt(v, b1) = sz /\ SizeAt(v, b2) = sz
       /\ \A b \in Blocks \ {b1, b2} : SizeAt(v, b) = SizeAt(w, b) /\ v[b] = w[b] /\ ad2[b] = ad[b]
       /\ ad2[b1] = ad[b1]
  BY <1>3, <1>5, <1>6, <1>7, <1>8, <1>9, <1>10, <1>13, Zenon DEF SizeAt, sz
<1>15. Placed(ad2, v)
  <2>1. ASSUME NEW b \in Blocks, NEW c \in Blocks, v[b] # POOL, v[c] # POOL, b # c
        PROVE  ad2[b] + SizeAt(v, b) <= ad2[c] \/ ad2[c] + SizeAt(v, c) <= ad2[b]
    <3>1. \A x \in Blocks \ {b1, b2} : v[x] # POOL =>
            /\ ad2[b1] + (sz + sz) <= ad2[x] \/ ad2[x] + SizeAt(v, x) <= ad2[b1]
            /\ ad2[b2] = ad2[b1] + sz
      BY <1>1, <1>3, <1>5, <1>9, <1>14, Zenon DEF Placed
    <3>2. CASE b \notin {b1, b2} /\ c \notin {b1, b2}
      <4>1. ad[b] + SizeAt(w, b) <= ad[c] \/ ad[c] + SizeAt(w, c) <= ad[b]
        BY <1>1, <1>14, <2>1, <3>2, Zenon DEF Placed
      <4> QED  BY <1>14, <3>2, <4>1, Zenon
    <3>a. ASSUME NEW x \in Blocks \ {b1, b2}, v[x] # POOL
          PROVE  /\ ad2[b1] + SizeAt(v, b1) <= ad2[x] \/ ad2[x] + SizeAt(v, x) <= ad2[b1]
                 /\ ad2[b2] + SizeAt(v, b2) <= ad2[x] \/ ad2[x] + SizeAt(v, x) <= ad2[b2]
      <4> DEFINE d1 == ad2[b1]
                 d2 == ad2[b2]
                 dx == ad2[x]
                 zx == SizeAt(v, x)
      <4>1. d1 \in Nat /\ d2 \in Nat /\ dx \in Nat /\ zx \in Nat
        BY <1>5, <1>6, <1>13, Zenon
      <4>2. (d1 + (sz + sz) <= dx \/ dx + zx <= d1) /\ d2 = d1 + sz
        BY <3>1, <3>a, Zenon
      <4> HIDE DEF d1, d2, dx, zx
      <4>3. (d1 + sz <= dx \/ dx + zx <= d1) /\ (d2 + sz <= dx \/ dx + zx <= d2)
        BY <1>8, <4>1, <4>2
      <4> QED  BY <1>14, <4>3, Zenon DEF d1, d2, dx, zx
    <3>3. CASE b \in {b1, b2} /\ c \notin {b1, b2}
      BY <2>1, <3>3, <3>a, Zenon
    <3>4. CASE b \notin {b1, b2} /\ c \in {b1, b2}
      BY <2>1, <3>4, <3>a, Zenon
    <3>5. CASE b \in {b1, b2} /\ c \in {b1, b2}
      BY <1>9, <1>14, <2>1, <3>5, <1>13
    <3> QED  BY <3>2, <3>3, <3>4, <3>5, Zenon
  <2>2. ASSUME NEW b \in Blocks, NEW k \in Types, v[b] = Free(k)
        PROVE  reserved_size <= ad2[b] /\ ad2[b] + GetMemBlockSize(k) <= Area
    <3>1. reserved_size <= ad[b1] /\ ad[b1] + (sz + sz) <= Area
      BY <1>1, <1>3, <1>5, <1>8, Zenon DEF Placed
    <3>2. CASE b \in {b1, b2}
      <4>1. k = j - 1 /\ GetMemBlockSize(k) = sz
        BY <1>10, <2>2, <3>2, Addresses, Zenon DEF sz
      <4>2. ad[b1] \in Nat /\ (ad2[b] = ad[b1] \/ ad2[b] = ad[b1] + sz)
        BY <1>5, <1>9, <1>13, <1>14, <3>2, Zenon
      <4>3. sz \in Nat /\ reserved_size \in Nat /\ Area \in Nat
        BY <1>8, BlockSizes, Zenon
      <4> QED  BY <3>1, <4>1, <4>2, <4>3
    <3>3. CASE b \notin {b1, b2}
      BY <1>1, <1>14, <2>2, <3>3, Zenon DEF Placed
    <3> QED  BY <3>2, <3>3, Zenon
  <2> QED  BY <2>1, <2>2, Zenon DEF Placed
<1>16. Sorted(M, ad2, b2)
  <2> SUFFICES ASSUME NEW h \in Heads \ {POOL}, NEW x \in 1 .. Len(M[h]), NEW y \in 1 .. Len(M[h]),
                      x < y, M[h][x] # b2
               PROVE  ad2[M[h][x]] < ad2[M[h][y]]
    BY Zenon DEF Sorted
  <2>1. CASE h = lo
    BY <1>11, <2>1
  <2>2. \A f \in Heads \ {POOL} : \A q \in 1 .. Len(L[f]) : L[f][q] \in Blocks /\ L[f][q] # b2
    <3> TAKE f \in Heads \ {POOL}
    <3> TAKE q \in 1 .. Len(L[f])
    <3>1. L[f][q] \in Blocks
      BY <1>4
    <3>2. w[L[f][q]] = f
      BY <1>1, Zenon DEF Links
    <3> QED  BY <1>6, <3>1, <3>2, Zenon
  <2>3. \A f \in Heads \ {POOL} : \A p, q \in 1 .. Len(L[f]) :
           p < q /\ L[f][p] # b1 => ad2[L[f][p]] < ad2[L[f][q]]
    BY <1>1, <1>9, <1>13, <2>2, Zenon DEF Sorted
  <2>4. CASE h = hi
    <3> DEFINE s == L[hi]
    <3>1. s \in Seq(Blocks) /\ Len(s) \in Nat \ {0} /\ 0 \in 0 .. Len(s) /\ 0 < Len(s)
      BY <1>1, <1>3, FirstOf, NodeFacts
    <3> HIDE DEF s
    <3>2. Len(Del(s, 0)) = Len(s) - 1
      BY <3>1, InsDel, Zenon
    <3>3. M[h] = Del(s, 0)
      BY <1>11, <2>4, Zenon DEF s
    <3>4. x \in 1 .. Len(s) - 1 /\ y \in 1 .. Len(s) - 1
      BY <3>2, <3>3, Zenon
    <3>5. M[h][x] = s[x + 1] /\ M[h][y] = s[y + 1]
      BY <3>1, <3>3, <3>4 DEF Del
    <3>6. x + 1 \in 1 .. Len(s) /\ y + 1 \in 1 .. Len(s) /\ x + 1 < y + 1 /\ x + 1 # 1 /\ 1 \in 1 .. Len(s)
      BY <3>1, <3>4
    <3>7. Distinct(s) /\ s[1] = b1
      BY <1>1, <1>3, Zenon DEF Links, s, b1
    <3>8. s[x + 1] # b1
      BY <3>6, <3>7, Zenon DEF Distinct
    <3> QED  BY <1>3, <2>3, <3>5, <3>6, <3>8, Zenon DEF s
  <2>5. CASE h \notin {hi, lo}
    <3>1. M[h] = L[h]
      BY <1>11, <2>5, Zenon
    <3>2. L[h][x] # b1
      <4>1. w[L[h][x]] = h
        BY <1>1, <3>1, Zenon DEF Links
      <4> QED  BY <1>5, <2>5, <4>1, Zenon
    <3> QED  BY <2>3, <3>1, <3>2, Zenon
  <2> QED  BY <2>1, <2>4, <2>5, Zenon
<1>17. Calm(ad2, v, b2)
  <2> SUFFICES ASSUME NEW b \in Blocks \ {b2}, NEW c \in Blocks \ {b2}, NEW k \in Types,
                      v[b] = Free(k), v[c] = Free(k), ad2[b] + GetMemBlockSize(k) = ad2[c]
               PROVE  ((ad2[b] - reserved_size) \div GetMemBlockSize(k)) % 2 # 0
    BY Zenon DEF Calm
  <2>1. CASE b # b1 /\ c # b1
    <3>1. w[b] = Free(k) /\ w[c] = Free(k) /\ ad[b] + GetMemBlockSize(k) = ad[c] /\ ad2[b] = ad[b]
      BY <1>14, <2>1, Zenon
    <3> QED  BY <1>1, <2>1, <3>1, Zenon DEF Calm
  <2>2. CASE b = b1 \/ c = b1
    <3>1. Free(k) = lo
      BY <1>10, <2>2, Zenon
    <3>2. b = b1 /\ c = b1
      BY <1>10, <1>12, <2>2, <3>1, Zenon
    <3>3. GetMemBlockSize(k) \in Nat \ {0} /\ ad2[b1] \in Nat
      BY <1>5, <1>13, BlockSizes, Zenon
    <3> QED  BY <3>2, <3>3
  <2> QED  BY <2>1, <2>2, Zenon
<1>18. Covered(ad2, v, e)
  <2> SUFFICES ASSUME NEW x \in 0 .. Area - 1, x < e
               PROVE  \E b \in Blocks : v[b] # POOL /\ ad2[b] <= x /\ x < ad2[b] + SizeAt(v, b)
    BY Zenon DEF Covered
  <2>0. x \in Nat
    BY BlockSizes
  <2>1. PICK b \in Blocks : w[b] # POOL /\ ad[b] <= x /\ x < ad[b] + SizeAt(w, b)
    BY Zenon DEF Ready, Covered
  <2>2. CASE b # b1
    BY <1>6, <1>14, <2>1, <2>2, Zenon
  <2>3. CASE b = b1 /\ x < ad[b1] + sz
    BY <1>3, <1>5, <1>10, <1>14, <2>1, <2>3, Zenon
  <2>4. CASE b = b1 /\ ~ (x < ad[b1] + sz)
    <3>1. v[b2] # POOL
      BY <1>3, <1>6, <1>10, Zenon
    <3>2. ad2[b2] <= x /\ x < ad2[b2] + SizeAt(v, b2)
      BY <1>5, <1>8, <1>9, <1>13, <1>14, <2>0, <2>1, <2>4
    <3> QED  BY <1>6, <3>1, <3>2, Zenon
  <2> QED  BY <2>2, <2>3, <2>4, Zenon
<1>19. InUse(ad2, v, hd)
  <2>1. \A b \in Blocks : \A k : v[b] = Alloc(k) <=> w[b] = Alloc(k)
    BY <1>5, <1>6, <1>10, <1>3, Addresses DEF POOL, Alloc, Free
  <2>2. \A b \in Blocks : \A k : w[b] = Alloc(k) => ad2[b] = ad[b]
    BY <1>6, <1>9, <1>13 DEF POOL, Alloc
  <2>3. InUse(ad, w, hd)
    BY Zenon DEF Ready
  <2>4. ASSUME NEW a \in DOMAIN hd
        PROVE  /\ hd[a] \in Sizes /\ a \in Nat
               /\ reserved_size <= a /\ a + GetMemBlockSize(GetMemBlockSizeType(hd[a])) <= Area
               /\ \E b \in Blocks : v[b] = Alloc(GetMemBlockSizeType(hd[a])) /\ ad2[b] = a
    BY <2>1, <2>2, <2>3 DEF InUse
  <2>5. \E b \in Blocks : v[b] = Alloc(GetMemBlockSizeType(K_END)) /\ ad2[b] = 0
    BY <2>1, <2>2, <2>3 DEF InUse
  <2>6. ASSUME NEW b \in Blocks, NEW k \in Types, v[b] = Alloc(k)
        PROVE  \/ ad2[b] = 0 /\ k = GetMemBlockSizeType(K_END)
               \/ ad2[b] \in DOMAIN hd /\ k = GetMemBlockSizeType(hd[ad2[b]])
    BY <2>1, <2>2, <2>3, <2>6 DEF InUse
  <2> QED  BY <2>4, <2>5, <2>6, Zenon DEF InUse
<1>20. Ready(Split(m, j), M, v, j - 1, e, hd)
  <2>1. M[lo] # <<>>
    BY <1>11
  <2>2. \A b \in Blocks : v[b] # NULL
    BY <1>13, Addresses, Zenon
  <2>3. Gridded(ad2, v)
    <3>1. OnGrid(ad[b1], j)
      BY <1>1, <1>3, <1>5, Zenon DEF Gridded
    <3>2. j - 1 \in Nat /\ (j - 1) + 1 = j /\ j - 1 \in Types
      BY <1>3, BlockSizes
    <3>3. OnGrid(ad[b1], j - 1) /\ OnGrid(ad[b1] + sz, j - 1)
      BY <3>1, <3>2, GridHalves, Zenon DEF sz
    <3>4. GridMove(ad, w, ad2, v, {b1, b2}, j - 1)
      BY <1>9, <1>10, <1>14, <3>3, Zenon DEF GridMove
    <3> QED  BY <1>1, <3>2, <3>4, GridKept, Zenon
  <2>4. Shape(Split(m, j).next, ad2, M, v, b2)
    BY <1>9, <1>11, <1>15, <1>16, <1>17, <2>2, <2>3, Zenon DEF Shape
  <2> QED  BY <1>11, <1>18, <1>19, <2>1, <2>4, Zenon DEF Ready, ad2
<1>21. Len(M[POOL]) = Len(L[POOL]) - 1
  <2>1. L[POOL] \in Seq(Blocks) /\ Len(L[POOL]) \in Nat \ {0} /\ 0 \in 0 .. Len(L[POOL]) /\ 0 < Len(L[POOL])
    BY <1>1, <1>3, FirstOf, NodeFacts
  <2> QED  BY <1>11, <2>1, InsDel, Zenon
<1>22. ASSUME NEW i \in Types, i < j - 1 PROVE M[Free(i)] = L[Free(i)]
  <2>1. i # j /\ i # j - 1
    BY <1>3, <1>22, BlockSizes
  <2>2. Free(i) \in Heads \ {POOL, hi, lo}
    BY <2>1, Addresses, Zenon
  <2> QED  BY <1>11, <2>2, Zenon
<1>23. Uses(L, M, j)
  BY <1>21, <1>22, Zenon DEF Uses
<1> QED  BY <1>20, <1>23, Zenon

\* A Split leaves a memory.
LEMMA SplitType ==
  ASSUME NEW m \in Memories, NEW j \in Types \ {0}
  PROVE  Split(m, j) \in Memories
<1> DEFINE b1 == m.next[Free(j)]
           n1 == ListRemove(m.next, Free(j))
           b2 == ReqMemBlock(n1)
           n2 == ListAdd(AfterReqMemBlock(n1), Free(j - 1), b1)
           n3 == ListAdd(n2, Free(j - 1), b2)
           ad == [m.addr EXCEPT ![b2] = m.addr[b1] + GetMemBlockSize(j - 1)]
<1>1. j - 1 \in Types /\ Free(j) \in Mem /\ Free(j - 1) \in Mem
  <2>1. j \in Types /\ j - 1 \in Types
    BY BlockSizes DEF Types
  <2> QED  BY <2>1, Addresses, Zenon DEF Mem
<1>2. m.next \in [Mem -> Mem] /\ m.addr \in [Mem -> Nat]
  BY Zenon DEF Memories
<1>3. b1 \in Mem /\ n1 \in [Mem -> Mem]
  BY <1>1, <1>2, ListType, Zenon
<1> HIDE DEF b1, n1
<1>4. b2 \in Mem /\ AfterReqMemBlock(n1) \in [Mem -> Mem]
  BY <1>1, <1>3, ListType, Zenon
<1> HIDE DEF b2
<1>5. n2 \in [Mem -> Mem]
  BY <1>1, <1>3, <1>4, ListType, Zenon
<1> HIDE DEF n2
<1>6. n3 \in [Mem -> Mem]
  BY <1>1, <1>4, <1>5, ListType, Zenon
<1>7. ad \in [Mem -> Nat]
  <2>1. GetMemBlockSize(j - 1) \in Nat /\ m.addr[b1] \in Nat
    BY <1>1, <1>2, <1>3, BlockSizes, Zenon
  <2> QED  BY <1>2, <1>4, <2>1
<1>8. Split(m, j) = [next |-> n3, addr |-> ad]
  BY Zenon DEF Split, n2, b2, n1, b1
<1> HIDE DEF n3, ad
<1> QED  BY <1>6, <1>7, <1>8 DEF Memories

\* Between two divisions of a request for type k, the last one into type j.
Dividing(m, k, j, e, hd) ==
    \E M, v : /\ Ready(m, M, v, j, e, hd) /\ Len(M[POOL]) >= j - k
             /\ \A i \in Types : k <= i /\ i < j => M[Free(i)] = <<>>

\* One more division.
LEMMA DivideOnce ==
  ASSUME NEW m, NEW k \in Types, NEW j \in Types, k < j, NEW e, NEW hd,
         Dividing(m, k, j, e, hd)
  PROVE  Dividing(Split(m, j), k, j - 1, e, hd)
<1>1. PICK M, v : /\ Ready(m, M, v, j, e, hd) /\ Len(M[POOL]) >= j - k
                  /\ \A i \in Types : k <= i /\ i < j => M[Free(i)] = <<>>
  BY Zenon DEF Dividing
<1>2. j \in Types \ {0} /\ j - 1 \in Types /\ k <= j - 1 /\ j - 1 < j /\ j \in Nat /\ k \in Nat
  BY BlockSizes DEF Types
<1>3. M[Free(j - 1)] = <<>>
  BY <1>1, <1>2, Zenon
<1>4. M[POOL] # <<>>
  <2>1. Len(M[POOL]) >= 1 \/ Len(M[POOL]) \notin Nat
    BY <1>1, <1>2
  <2>2. POOL \in Heads /\ Links(m.next, M, v)
    BY <1>1, Addresses, Zenon DEF Ready, Shape
  <2>3. Len(M[POOL]) \in Nat /\ M[POOL] \in Seq(Blocks)
    BY <2>2, NodeFacts, Zenon
  <2> QED  BY <2>1, <2>3
<1>5. PICK N, u : Ready(Split(m, j), N, u, j - 1, e, hd) /\ Uses(M, N, j)
  BY <1>1, <1>2, <1>3, <1>4, SplitReady, Zenon
<1>6. Len(N[POOL]) >= (j - 1) - k
  <2>1. POOL \in Heads /\ Links(m.next, M, v)
    BY <1>1, Addresses, Zenon DEF Ready, Shape
  <2>2. Len(M[POOL]) \in Nat
    BY <2>1, NodeFacts, Zenon
  <2> QED  BY <1>1, <1>2, <1>5, <2>2 DEF Uses
<1>7. \A i \in Types : k <= i /\ i < j - 1 => N[Free(i)] = <<>>
  <2> TAKE i \in Types
  <2>1. i < j - 1 => i < j
    BY <1>2, BlockSizes
  <2> QED  BY <1>1, <1>5, <2>1, Zenon DEF Uses
<1> QED  BY <1>5, <1>6, <1>7, Zenon DEF Dividing

\* DivBlock leaves a block of the type it is called for.
LEMMA DivReady ==
  ASSUME NEW L, NEW w, NEW e, NEW hd, NEW k \in Types,
         Shape(next, addr, L, w, NULL), Covered(addr, w, e), InUse(addr, w, hd),
         L[Free(k)] = <<>>, Larger(k) # {}, Len(L[POOL]) >= Min(Larger(k)) - k
  PROVE  \E M, v : Ready(DivBlock(k), M, v, k, e, hd)
<1> DEFINE top == Min(Larger(k))
           m0 == [next |-> next, addr |-> addr]
           D == k + 1 .. top
           rank == [j \in D |-> top - j]
           stop == {top}
           base == [j \in D |-> Split(m0, top)]
           down == [j \in D |-> IF j = top THEN top ELSE j + 1]
           step == [d \in D \X Memories |-> Split(d[2], d[1])]
           Body(f) == [j \in D |-> Split(IF j = top THEN m0 ELSE f[j + 1], j)]
           div == CHOOSE f : f = Body(f)
<1>0. Links(next, L, w) /\ addr \in [Mem -> Nat] /\ next \in [Mem -> Mem] /\ k \in Nat
  BY BlockSizes, Zenon DEF Shape, Links
<1>1. /\ top \in Types /\ top \in Nat /\ k < top /\ L[Free(top)] # <<>>
      /\ \A i \in Types : k <= i /\ i < top => L[Free(i)] = <<>>
  <2>1. Larger(k) \subseteq Nat /\ Larger(k) \subseteq Types
    BY BlockSizes DEF Larger, Types
  <2>2. top \in Larger(k) /\ \A x \in Larger(k) : top <= x
    BY <2>1, MinOf, Zenon
  <2> HIDE DEF top
  <2>3. top \in Types /\ top \in Nat /\ k < top
    BY <1>0, <2>1, <2>2 DEF Larger
  <2>4. \A i \in Types : IsListEmpty(next, Free(i)) <=> L[Free(i)] = <<>>
    BY <1>0, Addresses, FirstOf
  <2>5. L[Free(top)] # <<>>
    BY <2>2, <2>3, <2>4, Zenon DEF Larger
  <2>6. ASSUME NEW i \in Types, k <= i, i < top PROVE L[Free(i)] = <<>>
    <3>1. i \notin Larger(k) /\ i \in Nat
      BY <2>2, <2>3, <2>6, BlockSizes
    <3>2. CASE i = k
      BY <3>2, Zenon
    <3>3. CASE i # k
      <4>1. i \in k + 1 .. kMemBlockTypeNum - 1
        BY <1>0, <2>6, <3>3 DEF Types
      <4> QED  BY <2>4, <3>1, <4>1, Zenon DEF Larger
    <3> QED  BY <3>2, <3>3, Zenon
  <2> QED  BY <2>3, <2>5, <2>6, Zenon
<1> HIDE DEF top
<1>2. m0 \in Memories
  BY <1>0, Zenon DEF Memories
<1>3. \A j \in D : j \in Types \ {0} /\ k < j /\ j \in Nat
  BY <1>0, <1>1, BlockSizes DEF Types
<1> HIDE DEF m0
<1>4. Descends(D, Memories, rank, stop, base, down, step)
  <2>1. rank \in [D -> Nat] /\ down \in [D -> D]
    BY <1>0, <1>1
  <2>2. top \in D /\ base \in [D -> Memories]
    BY <1>0, <1>1, <1>2, <1>3, SplitType
  <2>3. step \in [D \X Memories -> Memories]
    BY <1>3, SplitType, Zenon
  <2>4. \A d \in D \ stop : rank[down[d]] < rank[d]
    BY <1>0, <1>1
  <2> QED  BY <2>1, <2>2, <2>3, <2>4, Zenon DEF Descends
<1> HIDE DEF rank, stop, base, down, step
<1>5. PICK f \in [D -> Memories] : Solves(f, D, stop, base, down, step)
  BY <1>4, RecursionExists, Zenon
<1> USE DEF stop, base, down, step
<1>6. f = Body(f)
  <2>1. ASSUME NEW j \in D PROVE f[j] = Split(IF j = top THEN m0 ELSE f[j + 1], j)
    <3>1. f[j] = IF j \in stop THEN base[j] ELSE step[<<j, f[down[j]]>>]
      BY <1>5, Zenon DEF Solves
    <3>2. CASE j = top
      BY <3>1, <3>2, Zenon
    <3>3. CASE j # top
      <4>1. j + 1 \in D /\ down[j] = j + 1
        BY <1>0, <1>1, <3>3
      <4>2. <<j, f[j + 1]>> \in D \X Memories /\ <<j, f[j + 1]>>[1] = j /\ <<j, f[j + 1]>>[2] = f[j + 1]
        BY <4>1, Zenon
      <4> HIDE DEF D, Memories
      <4>3. step[<<j, f[j + 1]>>] = Split(f[j + 1], j)
        BY <4>2, Zenon
      <4> QED  BY <3>1, <3>3, <4>1, <4>3, Zenon
    <3> QED  BY <3>2, <3>3, Zenon
  <2> QED  BY <2>1, Zenon
<1>7. div = Body(div)
  BY <1>6, Zenon
<1>8. DivBlock(k) = div[k + 1]
  BY Zenon DEF DivBlock, m0, top
<1> HIDE DEF div
<1> DEFINE S == {t \in Nat : t < top - k => Dividing(div[top - t], k, (top - t) - 1, e, hd)}
<1>9. Dividing(m0, k, top, e, hd)
  <2>1. m0.next = next /\ m0.addr = addr
    BY Zenon DEF m0
  <2>2. Ready(m0, L, w, top, e, hd)
    BY <1>1, <2>1, ShapeBut, Zenon DEF Ready
  <2>3. Len(L[POOL]) >= top - k
    BY Zenon DEF top
  <2> QED  BY <1>1, <2>2, <2>3, Zenon DEF Dividing
<1>10. Nat \subseteq S
  <2>1. 0 \in S
    <3>1. top - 0 = top /\ top \in D
      BY <1>0, <1>1
    <3>2. div[top] = Split(m0, top)
      BY <1>7, <3>1, Zenon
    <3>3. Dividing(Split(m0, top), k, top - 1, e, hd)
      BY <1>1, <1>9, DivideOnce, Zenon
    <3> QED  BY <3>1, <3>2, <3>3, Zenon
  <2>2. ASSUME NEW t \in Nat, t \in S PROVE t + 1 \in S
    <3> SUFFICES ASSUME t + 1 < top - k
                 PROVE  Dividing(div[top - (t + 1)], k, (top - (t + 1)) - 1, e, hd)
      OBVIOUS
    <3> DEFINE j == top - (t + 1)
    <3>1. j \in D /\ j # top /\ j + 1 = top - t /\ (top - t) - 1 = j /\ t < top - k
      BY <1>0, <1>1
    <3>2. Dividing(div[j + 1], k, j, e, hd)
      BY <2>2, <3>1, Zenon
    <3> HIDE DEF j
    <3>3. div[j] = Split(div[j + 1], j)
      BY <1>7, <3>1, Zenon
    <3>4. Dividing(Split(div[j + 1], j), k, j - 1, e, hd)
      BY <1>3, <3>1, <3>2, DivideOnce, Zenon
    <3> QED  BY <3>3, <3>4, Zenon DEF j
  <2> HIDE DEF S
  <2> QED  BY <2>1, <2>2, Induction, Zenon
<1>11. Dividing(div[k + 1], k, k, e, hd)
  <2> DEFINE t == top - (k + 1)
  <2>1. t \in Nat /\ t < top - k /\ top - t = k + 1 /\ (top - t) - 1 = k
    BY <1>0, <1>1
  <2> HIDE DEF t
  <2>2. Dividing(div[top - t], k, (top - t) - 1, e, hd)
    BY <1>10, <2>1, Zenon
  <2> QED  BY <2>1, <2>2, Zenon
<1> QED  BY <1>8, <1>11, Zenon DEF Dividing

-----------------------------------------------------------------------------
(* ReqBytes.                                                               *)

\* The areas held after a request of size at a.
Taken(hd, a, size) == [c \in DOMAIN hd \cup {a} |-> IF c = a THEN size ELSE hd[c]]

\* A block of type k at a is in the area, not reserved, and overlaps nothing
\* that is held.
Fits(hd, a, k) ==
    /\ a \in Nat /\ reserved_size <= a /\ a + GetMemBlockSize(k) <= Area
    /\ \A c \in DOMAIN hd :
         a + GetMemBlockSize(k) <= c \/ c + GetMemBlockSize(GetMemBlockSizeType(hd[c])) <= a

\* ReqBytes makes the front block of type k an allocated one.
LEMMA GrantShape ==
  ASSUME NEW m, NEW L, NEW w, NEW k \in Types, NEW e, NEW hd, Ready(m, L, w, k, e, hd),
         NEW size \in Sizes, k = GetMemBlockSizeType(size),
         NEW b, b = m.next[Free(k)], NEW a, a = m.addr[b]
  PROVE  /\ Settled(Insert(ListRemove(m.next, Free(k)), m.addr, Alloc(k), b, a),
                    m.addr, e, Taken(hd, a, size))
         /\ Fits(hd, a, k)
<1> DEFINE n == m.next
           ad == m.addr
           g == Free(k)
           h == Alloc(k)
           v == [w EXCEPT ![b] = h]
           n2 == Insert(ListRemove(n, g), ad, h, b, a)
           hd2 == Taken(hd, a, size)
<1>1. /\ Links(n, L, w) /\ (\A c \in Blocks : w[c] # NULL) /\ ad \in [Mem -> Nat]
      /\ Placed(ad, w) /\ Gridded(ad, w) /\ L[g] # <<>> /\ Covered(ad, w, e) /\ InUse(ad, w, hd)
  BY Zenon DEF Ready, Shape
<1>2. /\ g \in Heads \ {POOL} /\ h \in Heads \ {POOL} /\ g # h /\ g[2] = k /\ h[2] = k
      /\ NULL \notin Heads
  BY Addresses, Zenon
<1>3. /\ b = L[g][1] /\ b \in Blocks /\ w[b] = g /\ NodeAt(g, L[g], 0) = g
      /\ 0 \in 0 .. Len(L[g]) - 1 /\ b = L[g][0 + 1]
  BY <1>1, <1>2, FirstOf
<1>4. w \in [Blocks -> Heads]
  BY <1>1 DEF Links
<1>5. Sorted(L, ad, b) /\ Calm(ad, w, b)
  BY <1>3, Zenon DEF Ready, Shape
<1>6. b \in Mem /\ a \in Nat /\ SizeAt(w, b) = GetMemBlockSize(k) /\ GetMemBlockSize(k) \in Nat \ {0}
  BY <1>1, <1>2, <1>3, BlockSizes, Zenon DEF Mem, SizeAt
<1>7. /\ \A x, y \in Blocks :
           v[x] # POOL /\ v[y] # POOL /\ x # y =>
             ad[x] + SizeAt(v, x) <= ad[y] \/ ad[y] + SizeAt(v, y) <= ad[x]
      /\ Covered(ad, v, e)
      /\ \A c \in Blocks : w[c] # POOL /\ c # b =>
           /\ ad[c] # ad[b]
           /\ ad[c] + SizeAt(w, c) <= ad[b] \/ ad[b] + SizeAt(w, b) <= ad[c]
  <2>1. w[b] # POOL /\ w[b][2] = h[2]
    BY <1>2, <1>3, Zenon
  <2>2. Relabelled(ad, w, v, b, e)
    <3> HIDE DEF h
    <3> QED  BY <1>1, <1>2, <1>3, <1>4, <2>1, Relabel, Zenon
  <2> HIDE DEF v
  <2> QED  BY <2>2, Zenon DEF Relabelled
<1>8. \A c \in Blocks : v[c] = IF c = b THEN h ELSE w[c]
  BY <1>4, Zenon
<1>9. PICK M : Links(n2, M, v) /\ Sorted(M, ad, NULL)
  <2>1. \A c \in Blocks : w[c] = h => ad[c] # ad[b]
    BY <1>2, <1>3, <1>7, Zenon
  <2>2. Moved(Insert(ListRemove(n, NodeAt(g, L[g], 0)), ad, h, b, ad[b]), L, ad, v, g, h)
    <3> HIDE DEF g, h
    <3> QED  BY <1>1, <1>2, <1>3, <1>5, <2>1, Transfer, Zenon
  <2> HIDE DEF v
  <2> QED  BY <1>3, <2>2, Zenon DEF Moved
<1> HIDE DEF v
<1>10. Placed(ad, v)
  <2>1. \A c \in Blocks, j \in Types : v[c] = Free(j) => w[c] = Free(j)
    BY <1>8, Addresses, Zenon
  <2> QED  BY <1>1, <1>7, <2>1, Zenon DEF Placed
<1>11. Calm(ad, v, NULL)
  <2>1. \A c \in Blocks, j \in Types : v[c] = Free(j) => w[c] = Free(j) /\ c # b
    BY <1>8, Addresses, Zenon
  <2> QED  BY <1>5, <2>1 DEF Calm
<1>12. Shape(n2, ad, M, v, NULL)
  <2>1. \A c \in Blocks : v[c] # NULL
    BY <1>1, <1>2, <1>8, Zenon
  <2>2. OnGrid(ad[b], k)
    BY <1>1, <1>3, Zenon DEF Gridded
  <2>3. Gridded(ad, v)
    <3>1. GridMove(ad, w, ad, v, {b}, k)
      BY <1>8, <2>2, Zenon DEF GridMove
    <3> QED  BY <1>1, <3>1, GridKept, Zenon
  <2> QED  BY <1>1, <1>9, <1>10, <1>11, <2>1, <2>3, Zenon DEF Shape
<1>13. reserved_size <= a /\ a + GetMemBlockSize(k) <= Area
  BY <1>1, <1>3, Zenon DEF Placed
<1>14. ASSUME NEW c \in DOMAIN hd
       PROVE  a + GetMemBlockSize(k) <= c \/ c + GetMemBlockSize(GetMemBlockSizeType(hd[c])) <= a
  <2>1. PICK d \in Blocks : w[d] = Alloc(GetMemBlockSizeType(hd[c])) /\ ad[d] = c
    BY <1>1, Zenon DEF InUse
  <2>2. hd[c] \in Sizes
    BY <1>1, Zenon DEF InUse
  <2>3. GetMemBlockSizeType(hd[c]) \in Types
    BY <2>2, TypeOf, Zenon
  <2>4. w[d] # POOL /\ w[d] # g /\ SizeAt(w, d) = GetMemBlockSize(GetMemBlockSizeType(hd[c]))
    BY <2>1, <2>3, Addresses, Zenon DEF SizeAt
  <2> QED  BY <1>3, <1>6, <1>7, <2>1, <2>4, Zenon
<1>15. a \notin DOMAIN hd
  <2> SUFFICES ASSUME a \in DOMAIN hd PROVE FALSE
    OBVIOUS
  <2>1. hd[a] \in Sizes
    BY <1>1, Zenon DEF InUse
  <2>2. GetMemBlockSizeType(hd[a]) \in Types
    BY <2>1, TypeOf, Zenon
  <2>3. GetMemBlockSize(GetMemBlockSizeType(hd[a])) \in Nat \ {0}
    BY <2>2, BlockSizes, Zenon
  <2> QED  BY <1>6, <1>14, <2>3
<1>16. /\ DOMAIN hd2 = DOMAIN hd \cup {a} /\ hd2[a] = size
       /\ \A c \in DOMAIN hd : hd2[c] = hd[c]
  BY <1>15, Zenon DEF Taken
<1>17. InUse(ad, v, hd2)
  <2> HIDE DEF hd2
  <2>1. ASSUME NEW c \in DOMAIN hd2
        PROVE  /\ hd2[c] \in Sizes /\ c \in Nat
               /\ reserved_size <= c /\ c + GetMemBlockSize(GetMemBlockSizeType(hd2[c])) <= Area
               /\ \E d \in Blocks : v[d] = Alloc(GetMemBlockSizeType(hd2[c])) /\ ad[d] = c
    <3>1. CASE c = a
      BY <1>3, <1>6, <1>8, <1>13, <1>16, <3>1, Zenon
    <3>2. CASE c \in DOMAIN hd
      <4>1. hd2[c] = hd[c]
        BY <1>16, <3>2, Zenon
      <4>2. PICK d \in Blocks : w[d] = Alloc(GetMemBlockSizeType(hd[c])) /\ ad[d] = c
        BY <1>1, <3>2, Zenon DEF InUse
      <4>3. d # b
        BY <1>3, <4>2, Addresses
      <4> QED  BY <1>1, <1>8, <3>2, <4>1, <4>2, <4>3, Zenon DEF InUse
    <3> QED  BY <1>16, <3>1, <3>2, Zenon
  <2>2. \E d \in Blocks : v[d] = Alloc(GetMemBlockSizeType(K_END)) /\ ad[d] = 0
    <3>1. PICK d \in Blocks : w[d] = Alloc(GetMemBlockSizeType(K_END)) /\ ad[d] = 0
      BY <1>1, Zenon DEF InUse
    <3>2. d # b
      BY <1>3, <3>1, Addresses
    <3> QED  BY <1>8, <3>1, <3>2, Zenon
  <2>3. ASSUME NEW d \in Blocks, NEW j \in Types, v[d] = Alloc(j)
        PROVE  \/ ad[d] = 0 /\ j = GetMemBlockSizeType(K_END)
               \/ ad[d] \in DOMAIN hd2 /\ j = GetMemBlockSizeType(hd2[ad[d]])
    <3>1. CASE d = b
      <4>1. j = k /\ ad[d] = a
        BY <1>8, <2>3, <3>1, Addresses
      <4> QED  BY <1>16, <4>1, Zenon
    <3>2. CASE d # b
      <4>1. w[d] = Alloc(j)
        BY <1>8, <2>3, <3>2, Zenon
      <4>2. \/ ad[d] = 0 /\ j = GetMemBlockSizeType(K_END)
            \/ ad[d] \in DOMAIN hd /\ j = GetMemBlockSizeType(hd[ad[d]])
        BY <1>1, <4>1, Zenon DEF InUse
      <4> QED  BY <1>16, <4>2, Zenon
    <3> QED  BY <3>1, <3>2, Zenon
  <2> QED  BY <2>1, <2>2, <2>3, Zenon DEF InUse
<1>18. Settled(n2, ad, e, hd2)
  <2> HIDE DEF n2, hd2
  <2> QED  BY <1>7, <1>12, <1>17, Zenon DEF Settled
<1>19. Fits(hd, a, k)
  BY <1>6, <1>13, <1>14, Zenon DEF Fits
<1> QED  BY <1>18, <1>19, Zenon

\* A step of ReqBytes: refused, or granted an area that overlaps none.
LEMMA RequestStep ==
  ASSUME AllocatorInv, PoolSuffices, MayRequest, NEW size \in Sizes, ReqBytes(size)
  PROVE  /\ AllocatorInv'
         /\ \/ UNCHANGED held
            \/ \E a : Fits(held, a, GetMemBlockSizeType(size)) /\ held' = Taken(held, a, size)
<1> DEFINE k == GetMemBlockSizeType(size)
           divided == IsListEmpty(next, Free(k))
           m == IF divided THEN DivBlock(k) ELSE [next |-> next, addr |-> addr]
           b == m.next[Free(k)]
           a == m.addr[b]
<1>1. PICK L, w : Whole(L, w)
  BY Zenon DEF AllocatorInv
<1>2. /\ Shape(next, addr, L, w, NULL) /\ Links(next, L, w)
      /\ Covered(addr, w, fill.i) /\ InUse(addr, w, held)
  BY <1>1, Zenon DEF Whole, Shape
<1>3. k \in Types /\ k \in Nat /\ (\A j \in Nat : j < k => GetMemBlockSize(j) < size) /\ size \in Nat \ {0}
  BY TypeOf, BlockSizes, Zenon
<1>4. divided <=> L[Free(k)] = <<>>
  BY <1>2, <1>3, FirstOf, Addresses
<1>5. ~ Filling /\ fill' = fill
  BY Zenon DEF ReqBytes
<1>6. CASE divided /\ Larger(k) = {}
  <2>1. failed' = size /\ next' = next /\ addr' = addr /\ held' = held
    BY <1>6, Zenon DEF ReqBytes
  <2>2. ASSUME NEW c \in Blocks, NEW j \in Types, w[c] = Free(j)
        PROVE  GetMemBlockSize(j) < size
    <3>1. w[c] # NULL /\ Free(j) \in Heads
      BY <2>2, Addresses, Zenon
    <3>2. \E q \in 1 .. Len(L[Free(j)]) : L[Free(j)][q] = c
      BY <1>2, <2>2, <3>1, Zenon DEF Links
    <3>3. L[Free(j)] # <<>>
      BY <3>2
    <3>4. j # k
      BY <1>4, <1>6, <3>3, Zenon
    <3>5. ~ IsListEmpty(next, Free(j))
      BY <1>2, <3>1, <3>3, FirstOf, Zenon
    <3>6. ~ (j > k)
      BY <1>3, <1>6, <3>5, BlockSizes DEF Larger, Types
    <3>7. j \in Nat
      BY BlockSizes, Zenon
    <3> QED  BY <1>3, <3>4, <3>6, <3>7
  <2>3. Refused(w)'
    BY <2>1, <2>2, Zenon DEF Refused
  <2>4. FillInv(addr, L, w)'
    BY <1>1, <1>5, <2>1, Zenon DEF Whole, FillInv, Filling
  <2>5. Whole(L, w)'
    BY <1>2, <1>5, <2>1, <2>3, <2>4, Zenon DEF Whole
  <2> QED  BY <2>1, <2>5, Zenon DEF AllocatorInv
<1>7. CASE ~ (divided /\ Larger(k) = {})
  <2>1. /\ next' = Insert(ListRemove(m.next, Free(k)), m.addr, Alloc(k), b, a)
        /\ addr' = m.addr /\ held' = Taken(held, a, size) /\ failed' = 0
    BY <1>7, Zenon DEF ReqBytes, Taken
  <2>2. \E M, v : Ready(m, M, v, k, fill.i, held)
    <3>1. CASE divided
      <4>1. Len(NodesOf(next, POOL)) >= Min(Larger(k)) - k
        BY <1>5, <1>7, <3>1, Zenon DEF PoolSuffices
      <4>2. NodesOf(next, POOL) = L[POOL]
        BY <1>2, ListOf, Addresses
      <4>3. \E M, v : Ready(DivBlock(k), M, v, k, fill.i, held)
        BY <1>2, <1>3, <1>4, <1>7, <3>1, <4>1, <4>2, DivReady, Zenon
      <4> QED  BY <3>1, <4>3, Zenon
    <3>2. CASE ~ divided
      <4>1. m.next = next /\ m.addr = addr
        BY <3>2, Zenon
      <4>2. Shape(next, addr, L, w, L[Free(k)][1])
        BY <1>2, ShapeBut, Zenon
      <4>3. Ready(m, L, w, k, fill.i, held)
        <5> HIDE DEF m
        <5> QED  BY <1>2, <1>4, <3>2, <4>1, <4>2, Zenon DEF Ready
      <4> QED  BY <4>3, Zenon
    <3> QED  BY <3>1, <3>2, Zenon
  <2> HIDE DEF m
  <2>3. PICK M, v : Ready(m, M, v, k, fill.i, held)
    BY <2>2, Zenon
  <2>4. /\ Settled(Insert(ListRemove(m.next, Free(k)), m.addr, Alloc(k), b, a),
                   m.addr, fill.i, Taken(held, a, size))
        /\ Fits(held, a, k)
    BY <1>3, <2>3, GrantShape, Zenon
  <2>5. Settled(next', addr', fill.i, held')
    BY <2>1, <2>4, Zenon
  <2>6. AllocatorInv'
    BY <1>1, <1>5, <2>1, <2>5, Onward, Zenon
  <2> HIDE DEF a
  <2> QED  BY <2>1, <2>4, <2>6, Zenon
<1> QED  BY <1>6, <1>7, Zenon

=============================================================================
