---------------------------- MODULE BlockProofs -----------------------------
(***************************************************************************)
(* The lists of the buddy allocator: what taking a MemBlock and inserting  *)
(* it in address order do to them, and what its addresses are.  The        *)
(* invariant that AllocatorProofs shows is stated here.  The proofs rest   *)
(* on what a walk along the links of a list of lib/list.h finds, for any   *)
(* set of addresses and any head, and that on induction over the natural   *)
(* numbers, in terms of sets.                                              *)
(***************************************************************************)
EXTENDS Allocator, WellFoundedInduction, TLAPS

-----------------------------------------------------------------------------
(* Induction on the natural numbers, and what a recursive function is.     *)

\* A set of natural numbers has a least member.
LEMMA Least ==
  ASSUME NEW T, T \subseteq Nat, T # {}
  PROVE  \E x \in T : \A y \in T : x <= y
<1>1. PICK x \in T : \A y \in T : ~ (<<y, x>> \in OpToRel(<, Nat))
  BY NatLessThanWellFounded, WFMin, Zenon
<1>2. ASSUME NEW y \in T PROVE ~ (y < x)
  <2>1. <<y, x>> \in Nat \X Nat
    OBVIOUS
  <2>2. <<y, x>>[1] = y /\ <<y, x>>[2] = x
    OBVIOUS
  <2> QED  BY <1>1, <2>1, <2>2, Zenon DEF OpToRel
<1> QED  BY <1>2

\* A set that has 0, and n + 1 with n, has every natural number.
LEMMA Induction ==
  ASSUME NEW S, 0 \in S, \A n \in Nat : n \in S => n + 1 \in S
  PROVE  Nat \subseteq S
<1> DEFINE T == Nat \ S
<1> SUFFICES ASSUME T # {} PROVE FALSE
  OBVIOUS
<1>1. PICK x \in T : \A y \in T : x <= y
  BY Least, Zenon
<1>2. x # 0 /\ x - 1 \in Nat /\ x - 1 + 1 = x
  BY <1>1
<1>3. x - 1 \in S
  BY <1>1, <1>2
<1> QED  BY <1>1, <1>2, <1>3, Zenon

\* What a definition by recursion demands of g where the rank is at most n:
\* base where it stops, else step of the value one call down.
Follows(g, n, D, rank, stop, base, down, step) ==
    \A d \in D : rank[d] <= n =>
      g[d] = IF d \in stop THEN base[d] ELSE step[<<d, g[down[d]]>>]

\* The calls of a recursion go to smaller ranks.
Descends(D, X, rank, stop, base, down, step) ==
    /\ rank \in [D -> Nat] /\ base \in [D -> X] /\ down \in [D -> D]
    /\ step \in [D \X X -> X]
    /\ \A d \in D \ stop : rank[down[d]] < rank[d]

\* Two functions that follow a recursion agree.
LEMMA RecursionUnique ==
  ASSUME NEW D, NEW X, NEW rank, NEW stop, NEW base, NEW down, NEW step,
         Descends(D, X, rank, stop, base, down, step),
         NEW g, NEW h, NEW m \in Nat, NEW n \in Nat, m <= n,
         Follows(g, m, D, rank, stop, base, down, step),
         Follows(h, n, D, rank, stop, base, down, step)
  PROVE  \A d \in D : rank[d] <= m => g[d] = h[d]
<1> DEFINE T == {rank[d] : d \in {e \in D : rank[e] <= m /\ g[e] # h[e]}}
<1> SUFFICES ASSUME T # {} PROVE FALSE
  OBVIOUS
<1>1. T \subseteq Nat
  BY Zenon DEF Descends
<1>2. PICK x \in T : \A y \in T : x <= y
  BY <1>1, Least, Zenon
<1>3. PICK d \in D : x = rank[d] /\ rank[d] <= m /\ g[d] # h[d]
  BY <1>2, Zenon
<1>4. rank[d] \in Nat /\ rank[d] <= n
  BY <1>3 DEF Descends
<1>5. /\ g[d] = IF d \in stop THEN base[d] ELSE step[<<d, g[down[d]]>>]
      /\ h[d] = IF d \in stop THEN base[d] ELSE step[<<d, h[down[d]]>>]
  BY <1>3, <1>4, Zenon DEF Follows
<1>6. d \notin stop /\ g[down[d]] # h[down[d]]
  BY <1>3, <1>5, Zenon
<1>7. down[d] \in D /\ rank[down[d]] < rank[d] /\ rank[down[d]] \in Nat
  BY <1>6, Zenon DEF Descends
<1>8. rank[down[d]] \in T
  BY <1>3, <1>4, <1>6, <1>7
<1> QED  BY <1>2, <1>3, <1>4, <1>7, <1>8

\* f is the function that a recursion defines.
Solves(f, D, stop, base, down, step) ==
    \A d \in D : f[d] = IF d \in stop THEN base[d] ELSE step[<<d, f[down[d]]>>]

\* A recursion that descends defines a function.
LEMMA RecursionExists ==
  ASSUME NEW D, NEW X, NEW rank, NEW stop, NEW base, NEW down, NEW step,
         Descends(D, X, rank, stop, base, down, step)
  PROVE  \E f \in [D -> X] : Solves(f, D, stop, base, down, step)
<1> DEFINE Good(g, n) == Follows(g, n, D, rank, stop, base, down, step)
           S == {n \in Nat : \E g \in [D -> X] : Good(g, n)}
<1>1. 0 \in S
  BY DEF Descends, Follows
<1>2. ASSUME NEW n \in Nat, n \in S PROVE n + 1 \in S
  <2>1. PICK g \in [D -> X] : Good(g, n)
    BY <1>2, Zenon
  <2> DEFINE h == [d \in D |-> IF d \in stop THEN base[d] ELSE step[<<d, g[down[d]]>>]]
  <2>2. h \in [D -> X]
    BY Zenon DEF Descends
  <2>3. ASSUME NEW d \in D, rank[d] <= n + 1, d \notin stop
        PROVE  h[d] = step[<<d, h[down[d]]>>]
    <3>1. down[d] \in D /\ rank[down[d]] \in Nat /\ rank[d] \in Nat /\ rank[down[d]] < rank[d]
      BY <2>3, Zenon DEF Descends
    <3>2. rank[down[d]] <= n
      BY <2>3, <3>1
    <3>3. h[down[d]] = g[down[d]]
      BY <2>1, <3>1, <3>2, Zenon DEF Follows
    <3>4. h[d] = step[<<d, g[down[d]]>>]
      BY <2>3, Zenon
    <3> QED  BY <3>3, <3>4, Zenon
  <2>4. Good(h, n + 1)
    BY <2>3, Zenon DEF Follows
  <2> HIDE DEF h
  <2> QED  BY <2>2, <2>4
<1>3. Nat \subseteq S
  BY <1>1, <1>2, Induction, Zenon
<1> DEFINE At(n) == CHOOSE g \in [D -> X] : Good(g, n)
           f == [d \in D |-> At(rank[d])[d]]
<1>4. \A n \in Nat : At(n) \in [D -> X] /\ Good(At(n), n)
  BY <1>3, Zenon
<1> HIDE DEF At
<1>5. f \in [D -> X]
  BY <1>4, Zenon DEF Descends
<1>6. ASSUME NEW d \in D
      PROVE  f[d] = IF d \in stop THEN base[d] ELSE step[<<d, f[down[d]]>>]
  <2>1. rank[d] \in Nat /\ down[d] \in D /\ rank[down[d]] \in Nat
    BY Zenon DEF Descends
  <2>2. At(rank[d])[d] = IF d \in stop THEN base[d] ELSE step[<<d, At(rank[d])[down[d]]>>]
    BY <1>4, <2>1 DEF Follows
  <2>3. ASSUME d \notin stop
        PROVE  At(rank[down[d]])[down[d]] = At(rank[d])[down[d]]
    <3>1. rank[down[d]] <= rank[d] /\ rank[down[d]] <= rank[down[d]]
      BY <2>1, <2>3 DEF Descends
    <3> QED  BY <1>4, <2>1, <3>1, RecursionUnique
  <2> QED  BY <2>1, <2>2, <2>3, Zenon
<1>7. Solves(f, D, stop, base, down, step)
  BY <1>6, Zenon DEF Solves
<1> HIDE DEF f
<1> QED  BY <1>5, <1>7, Zenon

-----------------------------------------------------------------------------
(* Walking round a list.                                                   *)

\* The i-th node met on the way round the list s of head h: h itself, the
\* nodes in order, and h again.
NodeAt(h, s, i) == IF i = 0 \/ i = Len(s) + 1 THEN h ELSE s[i]

\* The links from h run through s in order and back to h.
Chain(link, h, s) ==
    \A i \in 0 .. Len(s) : link[NodeAt(h, s, i)] = NodeAt(h, s, i + 1)

\* The values that a loop of m turns computes from a.
Iterates(f, a, turn, m) == f[0] = a /\ \A k \in 1 .. m : f[k] = turn[f[k - 1]]

\* A recursion that repeats one step defines those values.
LEMMA Iteration ==
  ASSUME NEW X, NEW a \in X, NEW turn \in [X -> X], NEW m \in Nat
  PROVE  \E f \in [0 .. m -> X] : Iterates(f, a, turn, m)
<1> DEFINE D == 0 .. m
           rank == [k \in D |-> k]
           stop == {0}
           base == [k \in D |-> a]
           down == [k \in D |-> IF k = 0 THEN 0 ELSE k - 1]
           step == [d \in D \X X |-> turn[d[2]]]
<1>1. Descends(D, X, rank, stop, base, down, step)
  <2>1. rank \in [D -> Nat] /\ base \in [D -> X] /\ down \in [D -> D]
    OBVIOUS
  <2>2. step \in [D \X X -> X]
    OBVIOUS
  <2>3. \A d \in D \ stop : rank[down[d]] < rank[d]
    OBVIOUS
  <2> QED  BY <2>1, <2>2, <2>3, Zenon DEF Descends
<1> HIDE DEF rank, stop, base, down, step
<1>2. PICK f \in [D -> X] : Solves(f, D, stop, base, down, step)
  BY <1>1, RecursionExists, Zenon
<1> USE DEF rank, stop, base, down, step
<1>3. f[0] = a
  <2>1. 0 \in D /\ 0 \in stop /\ base[0] = a
    OBVIOUS
  <2> HIDE DEF base, stop, D
  <2> QED  BY <1>2, <2>1, Zenon DEF Solves
<1>4. ASSUME NEW k \in 1 .. m PROVE f[k] = turn[f[k - 1]]
  <2>1. k \in D /\ k \notin stop /\ down[k] = k - 1 /\ k - 1 \in D
    OBVIOUS
  <2>2. f[k] = step[<<k, f[k - 1]>>]
    BY <1>2, <2>1, Zenon DEF Solves
  <2>3. <<k, f[k - 1]>> \in D \X X
    BY <2>1, Zenon
  <2> QED  BY <2>2, <2>3, Zenon
<1> QED  BY <1>3, <1>4, Zenon DEF Iterates

\* There are finitely many addresses, and a list of distinct ones is no longer
\* than they are many.
Counted(D) ==
    /\ Cardinality(D) \in Nat
    /\ \A s \in Seq(D) : Distinct(s) => Len(s) <= Cardinality(D)

\* The turns of the loop of Walk, and the node it ends at.
LEMMA WalkTurns ==
  ASSUME NEW D, Counted(D), NEW link \in [D -> D], NEW stop \in [D -> BOOLEAN],
         NEW start \in D
  PROVE  \E at \in [0 .. Cardinality(D) -> D] :
           /\ at[0] = start
           /\ \A k \in 1 .. Cardinality(D) :
                at[k] = IF stop[at[k - 1]] THEN at[k - 1] ELSE link[at[k - 1]]
           /\ Walk(link, start, stop) = at[Cardinality(D)]
<1> DEFINE m == Cardinality(D)
           turn == [p \in D |-> IF stop[p] THEN p ELSE link[p]]
           Body(f) == [k \in 0 .. m |->
                         IF k = 0 THEN start
                         ELSE LET p == f[k - 1] IN IF stop[p] THEN p ELSE link[p]]
           d == CHOOSE f : f = Body(f)
<1>1. m \in Nat /\ DOMAIN link = D
  BY Zenon DEF Counted
<1>2. turn \in [D -> D]
  OBVIOUS
<1> HIDE DEF m, turn
<1>3. PICK f \in [0 .. m -> D] : Iterates(f, start, turn, m)
  BY <1>1, <1>2, Iteration, Zenon
<1> USE DEF turn, Iterates
<1>4. f = Body(f)
  <2>1. ASSUME NEW k \in 0 .. m PROVE f[k] = Body(f)[k]
    <3>1. CASE k = 0
      BY <1>3, <3>1, Zenon
    <3>2. CASE k # 0
      <4>1. k \in 1 .. m /\ k - 1 \in 0 .. m
        BY <1>1, <3>2
      <4> QED  BY <1>3, <3>2, <4>1, Zenon
    <3> QED  BY <3>1, <3>2, Zenon
  <2> QED  BY <1>3, <2>1, Zenon
<1>5. d = Body(d)
  BY <1>4, Zenon
<1>6. Walk(link, start, stop) = d[m]
  BY <1>1, Zenon DEF Walk, m
<1> HIDE DEF d
<1>7. d[0] = start /\ \A k \in 1 .. m : d[k] = turn[d[k - 1]] \/ d[k - 1] \notin D
  <2>1. d[0] = start
    BY <1>1, <1>5
  <2>2. ASSUME NEW k \in 1 .. m, d[k - 1] \in D PROVE d[k] = turn[d[k - 1]]
    BY <1>1, <1>5, <2>2
  <2> QED  BY <2>1, <2>2, Zenon
<1> DEFINE S == {k \in Nat : k <= m => d[k] \in D}
<1>8. Nat \subseteq S
  <2>1. 0 \in S
    BY <1>7, Zenon
  <2>2. ASSUME NEW k \in Nat, k \in S PROVE k + 1 \in S
    <3> SUFFICES ASSUME k + 1 <= m PROVE d[k + 1] \in D
      OBVIOUS
    <3>1. k + 1 \in 1 .. m /\ (k + 1) - 1 = k /\ d[k] \in D
      BY <1>1, <2>2
    <3>2. d[k + 1] = turn[d[k]]
      BY <1>7, <3>1, Zenon
    <3> QED  BY <1>2, <3>1, <3>2, Zenon
  <2> HIDE DEF S
  <2> QED  BY <2>1, <2>2, Induction, Zenon
<1>9. d \in [0 .. m -> D]
  <2>1. \A k \in 0 .. m : d[k] \in D
    BY <1>8
  <2>2. d = [k \in 0 .. m |-> d[k]]
    BY <1>5, Zenon
  <2> QED  BY <2>1, <2>2, Zenon
<1>10. \A k \in 1 .. m : d[k] = IF stop[d[k - 1]] THEN d[k - 1] ELSE link[d[k - 1]]
  <2> TAKE k \in 1 .. m
  <2>1. k - 1 \in 0 .. m /\ d[k - 1] \in D
    BY <1>1, <1>9
  <2> QED  BY <1>7, <2>1, Zenon
<1> QED  BY <1>6, <1>7, <1>9, <1>10, Zenon DEF m

\* Node i is the first at which a walk round s stops.
StopsAt(h, s, stop, i) ==
    stop[NodeAt(h, s, i)] /\ \A j \in 0 .. i - 1 : ~ stop[NodeAt(h, s, j)]

\* A walk round a list that stops at its last node at the latest ends at the
\* first node at which it stops.
LEMMA WalkResult ==
  ASSUME NEW D, Counted(D), NEW link \in [D -> D], NEW stop \in [D -> BOOLEAN],
         NEW h \in D, NEW s \in Seq(D), Chain(link, h, s), Len(s) <= Cardinality(D),
         stop[NodeAt(h, s, Len(s))]
  PROVE  \E i \in 0 .. Len(s) :
           Walk(link, h, stop) = NodeAt(h, s, i) /\ StopsAt(h, s, stop, i)
<1> DEFINE m == Cardinality(D)
           T == {i \in 0 .. Len(s) : stop[NodeAt(h, s, i)]}
<1>1. m \in Nat /\ Len(s) \in Nat
  BY DEF Counted
<1>2. PICK i \in T : \A j \in T : i <= j
  <2>1. T \subseteq Nat /\ T # {}
    BY <1>1
  <2> QED  BY <2>1, Least, Zenon
<1>3. PICK at \in [0 .. m -> D] :
           /\ at[0] = h
           /\ \A k \in 1 .. m : at[k] = IF stop[at[k - 1]] THEN at[k - 1] ELSE link[at[k - 1]]
           /\ Walk(link, h, stop) = at[m]
  BY WalkTurns
<1> HIDE DEF m
<1>4. i \in 0 .. Len(s) /\ i \in Nat /\ i <= m /\ stop[NodeAt(h, s, i)]
  BY <1>1, <1>2 DEF m
<1>5. \A j \in 0 .. i - 1 : ~ stop[NodeAt(h, s, j)]
  BY <1>1, <1>2, <1>4
<1> DEFINE S == {k \in Nat : k <= m => at[k] = NodeAt(h, s, IF k <= i THEN k ELSE i)}
<1>6. Nat \subseteq S
  <2>1. 0 \in S
    BY <1>3, <1>4 DEF NodeAt
  <2>2. ASSUME NEW k \in Nat, k \in S PROVE k + 1 \in S
    <3> SUFFICES ASSUME k + 1 <= m
                 PROVE  at[k + 1] = NodeAt(h, s, IF k + 1 <= i THEN k + 1 ELSE i)
      OBVIOUS
    <3>1. k + 1 \in 1 .. m /\ (k + 1) - 1 = k
      BY <1>1
    <3>2. at[k + 1] = IF stop[at[k]] THEN at[k] ELSE link[at[k]]
      BY <1>3, <3>1, Zenon
    <3>3. at[k] = NodeAt(h, s, IF k <= i THEN k ELSE i)
      BY <1>1, <2>2
    <3>4. CASE k < i
      <4>1. at[k] = NodeAt(h, s, k) /\ ~ stop[at[k]] /\ k \in 0 .. Len(s)
        BY <1>1, <1>4, <1>5, <3>3, <3>4
      <4>2. link[at[k]] = NodeAt(h, s, k + 1)
        BY <4>1, Zenon DEF Chain
      <4> QED  BY <1>4, <3>2, <3>4, <4>1, <4>2
    <3>5. CASE ~ (k < i)
      <4>1. at[k] = NodeAt(h, s, i)
        BY <1>4, <3>3, <3>5
      <4> QED  BY <1>4, <3>2, <3>5, <4>1
    <3> QED  BY <3>4, <3>5, Zenon
  <2> HIDE DEF S
  <2> QED  BY <2>1, <2>2, Induction, Zenon
<1>7. at[m] = NodeAt(h, s, i)
  BY <1>1, <1>4, <1>6
<1> QED  BY <1>3, <1>4, <1>5, <1>7, Zenon DEF StopsAt

\* NodesOf collects the list that the links hold.
LEMMA NodesOfChain ==
  ASSUME NEW D, Counted(D), NEW link \in [D -> D], NEW h \in D, NEW s \in Seq(D),
         Chain(link, h, s), Len(s) <= Cardinality(D),
         \A i \in 1 .. Len(s) : s[i] \notin {h, NULL}
  PROVE  NodesOf(link, h) = s
<1> DEFINE m == Cardinality(D)
           last(t) == IF t = <<>> THEN h ELSE t[Len(t)]
           turn == [t \in Seq(D) |->
                      IF link[last(t)] \in {h, NULL} THEN t ELSE Append(t, link[last(t)])]
           Body(f) == [k \in 0 .. m |->
                         IF k = 0 THEN <<>>
                         ELSE LET t == f[k - 1]
                                  p == IF t = <<>> THEN h ELSE t[Len(t)]
                              IN  IF link[p] \in {h, NULL} THEN t ELSE Append(t, link[p])]
           d == CHOOSE f : f = Body(f)
           pre(k) == [i \in 1 .. k |-> s[i]]
<1>1. m \in Nat /\ DOMAIN link = D /\ Len(s) \in Nat /\ Len(s) <= m
  BY DEF Counted
<1>2. turn \in [Seq(D) -> Seq(D)]
  <2>1. ASSUME NEW t \in Seq(D) PROVE last(t) \in D
    OBVIOUS
  <2>2. ASSUME NEW t \in Seq(D) PROVE turn[t] \in Seq(D)
    BY <2>1
  <2> QED  BY <2>2, Zenon
<1>3. <<>> \in Seq(D)
  OBVIOUS
<1> HIDE DEF m, turn
<1>4. PICK f \in [0 .. m -> Seq(D)] : Iterates(f, <<>>, turn, m)
  BY <1>1, <1>2, <1>3, Iteration, Zenon
<1>5. ASSUME NEW k \in 1 .. m, NEW g, g[k - 1] \in Seq(D)
      PROVE  Body(g)[k] = turn[g[k - 1]]
  <2>1. k \in 0 .. m /\ k # 0
    BY <1>1
  <2> QED  BY <1>5, <2>1, Zenon DEF turn
<1>6. f = Body(f)
  <2>1. ASSUME NEW k \in 0 .. m PROVE f[k] = Body(f)[k]
    <3>1. CASE k = 0
      BY <1>4, <3>1, Zenon DEF Iterates
    <3>2. CASE k # 0
      <4>1. k \in 1 .. m /\ k - 1 \in 0 .. m
        BY <1>1, <3>2
      <4>2. f[k - 1] \in Seq(D) /\ f[k] = turn[f[k - 1]]
        BY <1>4, <4>1, Zenon DEF Iterates
      <4> QED  BY <1>5, <4>1, <4>2, Zenon
    <3> QED  BY <3>1, <3>2, Zenon
  <2> QED  BY <1>4, <2>1, Zenon
<1>7. d = Body(d)
  BY <1>6, Zenon
<1>8. NodesOf(link, h) = d[m]
  BY <1>1, Zenon DEF NodesOf, m
<1> HIDE DEF d
<1>9. d[0] = <<>>
  <2>1. 0 \in 0 .. m
    BY <1>1
  <2> QED  BY <1>7, <2>1, Zenon
<1>10. ASSUME NEW k \in 1 .. m, d[k - 1] \in Seq(D) PROVE d[k] = turn[d[k - 1]]
  BY <1>5, <1>7, <1>10, Zenon
<1>11. ASSUME NEW k \in 0 .. Len(s)
       PROVE  /\ pre(k) \in Seq(D) /\ Len(pre(k)) = k /\ last(pre(k)) = NodeAt(h, s, k)
              /\ pre(k) = <<>> <=> k = 0
  <2>1. pre(k) \in Seq(D) /\ Len(pre(k)) = k
    OBVIOUS
  <2>2. pre(k) = <<>> <=> k = 0
    BY <2>1
  <2>3. k # 0 => k \in 1 .. k /\ k # Len(s) + 1
    BY <1>1
  <2> QED  BY <2>1, <2>2, <2>3, Zenon DEF NodeAt
<1>12. pre(Len(s)) = s
  OBVIOUS
<1>13. ASSUME NEW k \in 0 .. Len(s)
       PROVE  turn[pre(k)] = IF k = Len(s) THEN pre(k) ELSE pre(k + 1)
  <2>1. link[last(pre(k))] = NodeAt(h, s, k + 1)
    BY <1>11, Zenon DEF Chain
  <2>2. CASE k = Len(s)
    <3>1. NodeAt(h, s, k + 1) = h
      BY <2>2, Zenon DEF NodeAt
    <3>2. pre(k) \in Seq(D) /\ link[last(pre(k))] = h
      BY <1>11, <2>1, <3>1, Zenon
    <3> HIDE DEF pre
    <3> QED  BY <2>2, <3>2, Zenon DEF turn
  <2>3. CASE k # Len(s)
    <3>1. k + 1 \in 1 .. Len(s) /\ k + 1 # 0 /\ k + 1 # Len(s) + 1
      BY <1>1, <2>3
    <3>2. NodeAt(h, s, k + 1) = s[k + 1] /\ s[k + 1] \notin {h, NULL}
      BY <3>1, Zenon DEF NodeAt
    <3>3. turn[pre(k)] = Append(pre(k), s[k + 1])
      <4>1. pre(k) \in Seq(D) /\ link[last(pre(k))] = s[k + 1]
        BY <1>11, <2>1, <3>2, Zenon
      <4> HIDE DEF pre
      <4> QED  BY <3>2, <4>1, Zenon DEF turn
    <3>4. Append(pre(k), s[k + 1]) = pre(k + 1)
      <4>1. pre(k) \in Seq(D) /\ Len(pre(k)) = k /\ s[k + 1] \in D
        BY <1>11, <3>1
      <4>2. pre(k + 1) \in Seq(D) /\ Len(pre(k + 1)) = k + 1
        BY <1>11, <3>1
      <4>3. Append(pre(k), s[k + 1]) \in Seq(D) /\ Len(Append(pre(k), s[k + 1])) = k + 1
        BY <4>1
      <4>4. ASSUME NEW i \in 1 .. k + 1 PROVE Append(pre(k), s[k + 1])[i] = pre(k + 1)[i]
        BY <4>1
      <4> HIDE DEF pre
      <4> QED  BY <4>2, <4>3, <4>4
    <3> QED  BY <2>3, <3>3, <3>4, Zenon
  <2> QED  BY <2>2, <2>3, Zenon
<1> DEFINE S == {k \in Nat : k <= m => d[k] = pre(IF k <= Len(s) THEN k ELSE Len(s))}
<1>14. Nat \subseteq S
  <2>1. 0 \in S
    <3>1. pre(0) = <<>>
      BY <1>1, <1>11
    <3> HIDE DEF pre
    <3> QED  BY <1>1, <1>9, <3>1
  <2> HIDE DEF pre
  <2>2. ASSUME NEW k \in Nat, k \in S PROVE k + 1 \in S
    <3> SUFFICES ASSUME k + 1 <= m
                 PROVE  d[k + 1] = pre(IF k + 1 <= Len(s) THEN k + 1 ELSE Len(s))
      OBVIOUS
    <3>1. k + 1 \in 1 .. m /\ (k + 1) - 1 = k
      BY <1>1
    <3>2. d[k] = pre(IF k <= Len(s) THEN k ELSE Len(s))
      BY <1>1, <2>2
    <3>3. CASE k < Len(s)
      <4>1. d[k] = pre(k) /\ k \in 0 .. Len(s)
        BY <1>1, <3>2, <3>3
      <4>2. d[k + 1] = turn[pre(k)]
        BY <1>10, <1>11, <3>1, <4>1, Zenon
      <4> QED  BY <1>1, <1>13, <3>3, <4>1, <4>2
    <3>4. CASE ~ (k < Len(s))
      <4>1. d[k] = pre(Len(s)) /\ Len(s) \in 0 .. Len(s)
        BY <1>1, <3>2, <3>4
      <4>2. d[k + 1] = turn[pre(Len(s))]
        BY <1>10, <1>11, <3>1, <4>1, Zenon
      <4>3. turn[pre(Len(s))] = pre(Len(s))
        BY <1>13, <4>1, Zenon
      <4>4. ~ (k + 1 <= Len(s))
        BY <1>1, <3>4
      <4> QED  BY <4>2, <4>3, <4>4, Zenon
    <3> QED  BY <3>3, <3>4, Zenon
  <2> HIDE DEF S
  <2> QED  BY <2>1, <2>2, Induction, Zenon
<1>15. d[m] = pre(Len(s))
  <2> HIDE DEF pre
  <2>1. m \in S
    BY <1>1, <1>14, Zenon
  <2>2. m <= Len(s) => m = Len(s)
    BY <1>1
  <2> QED  BY <1>1, <2>1, <2>2
<1> QED  BY <1>8, <1>12, <1>15, Zenon

-----------------------------------------------------------------------------
(* The inductive invariant.  L is what is in each list, and w the head of  *)
(* the list that each MemBlock is in, or NULL while it is in none.         *)

Mem == Blocks \cup Heads \cup {ZERO, NULL}

\* The links of n hold the lists L.
Links(n, L, w) ==
    /\ Counted(Mem)
    /\ n \in [Mem -> Mem]
    /\ L \in [Heads -> Seq(Blocks)]
    /\ w \in [Blocks -> Heads \cup {NULL}]
    /\ \A h \in Heads :
         /\ Distinct(L[h])
         /\ Chain(n, h, L[h])
         /\ \A i \in 1 .. Len(L[h]) : w[L[h][i]] = h
    /\ \A b \in Blocks : w[b] # NULL => \E i \in 1 .. Len(L[w[b]]) : L[w[b]][i] = b

SizeAt(w, b) == GetMemBlockSize(w[b][2])

\* No two blocks overlap, and a free one is in the area and not reserved.
Placed(ad, w) ==
    /\ \A b, c \in Blocks :
         w[b] # POOL /\ w[c] # POOL /\ b # c =>
           ad[b] + SizeAt(w, b) <= ad[c] \/ ad[c] + SizeAt(w, c) <= ad[b]
    /\ \A b \in Blocks, k \in Types :
         w[b] = Free(k) => reserved_size <= ad[b] /\ ad[b] + GetMemBlockSize(k) <= Area

\* Address a is a whole number of blocks of type k from the reserved memory.
OnGrid(a, k) == \E m \in Nat : a = reserved_size + m * GetMemBlockSize(k)

\* So is that of every block of type k but the reserved one.
Gridded(ad, w) ==
    \A b \in Blocks, k \in Types :
      w[b] = Free(k) \/ (w[b] = Alloc(k) /\ ad[b] # 0) => OnGrid(ad[b], k)

\* Every byte of the area below m is in a block.
Covered(ad, w, m) ==
    \A x \in 0 .. Area - 1 :
      x < m => \E b \in Blocks :
                 w[b] # POOL /\ ad[b] <= x /\ x < ad[b] + SizeAt(w, b)

\* The allocated blocks are the areas held and the reserved one.
InUse(ad, w, hd) ==
    /\ \A a \in DOMAIN hd :
         /\ hd[a] \in Sizes /\ a \in Nat
         /\ reserved_size <= a /\ a + GetMemBlockSize(GetMemBlockSizeType(hd[a])) <= Area
         /\ \E b \in Blocks : w[b] = Alloc(GetMemBlockSizeType(hd[a])) /\ ad[b] = a
    /\ \E b \in Blocks : w[b] = Alloc(GetMemBlockSizeType(K_END)) /\ ad[b] = 0
    /\ \A b \in Blocks, k \in Types :
         w[b] = Alloc(k) =>
           \/ ad[b] = 0 /\ k = GetMemBlockSizeType(K_END)
           \/ ad[b] \in DOMAIN hd /\ k = GetMemBlockSizeType(hd[ad[b]])

\* Every list of blocks is sorted, but for the place of block x.
Sorted(L, ad, x) ==
    \A h \in Heads \ {POOL} : \A i, j \in 1 .. Len(L[h]) :
      i < j /\ L[h][i] # x => ad[L[h][i]] < ad[L[h][j]]

\* No two free blocks are buddies that MergeBlock would join, but for x.
Calm(ad, w, x) ==
    \A b, c \in Blocks \ {x}, k \in Types :
      w[b] = Free(k) /\ w[c] = Free(k) /\ ad[b] + GetMemBlockSize(k) = ad[c] =>
        ((ad[b] - reserved_size) \div GetMemBlockSize(k)) % 2 # 0

\* The lists and blocks between two calls.
Shape(n, ad, L, w, x) ==
    /\ Links(n, L, w) /\ \A b \in Blocks : w[b] # NULL
    /\ ad \in [Mem -> Nat]
    /\ Placed(ad, w) /\ Gridded(ad, w) /\ Sorted(L, ad, x) /\ Calm(ad, w, x)

\* The loop of DirectMappingInit.
FillInv(ad, L, w) ==
    /\ fill.i \in Nat /\ fill.j \in -1 .. kMemBlockTypeNum - 1 /\ fill = [i |-> fill.i, j |-> fill.j]
    /\ reserved_size <= fill.i
    /\ Area - fill.i < GetMemBlockSize(fill.j + 1)
    /\ fill.j >= 0 => OnGrid(fill.i, fill.j)
    /\ Filling =>
         /\ failed = 0
         /\ \A k \in Types : k < fill.j => L[Free(k)] = <<>>
         /\ fill.i + GetMemBlockSize(fill.j) <= Area => L[Free(fill.j)] = <<>>
         /\ \A b \in Blocks : w[b] # POOL => ad[b] + SizeAt(w, b) <= fill.i

\* A refused request is larger than every free block.
Refused(w) ==
    failed # 0 => \A b \in Blocks, k \in Types :
                    w[b] = Free(k) => GetMemBlockSize(k) < failed

Whole(L, w) ==
    /\ Shape(next, addr, L, w, NULL)
    /\ Covered(addr, w, fill.i) /\ InUse(addr, w, held)
    /\ FillInv(addr, L, w) /\ Refused(w)

AllocatorInv == \E L, w : Whole(L, w)

-----------------------------------------------------------------------------
(* Block sizes and types.                                                  *)

\* GetMemBlockSize doubles with each type.
LEMMA SizeDoubles ==
  /\ GetMemBlockSize(0) = 1
  /\ \A k \in Nat : GetMemBlockSize(k) \in Nat \ {0} /\ GetMemBlockSize(k + 1) = 2 * GetMemBlockSize(k)
<1> DEFINE rank == [k \in Nat |-> k]
           stop == {0}
           base == [k \in Nat |-> 1]
           down == [k \in Nat |-> IF k = 0 THEN 0 ELSE k - 1]
           step == [e \in Nat \X Nat |-> 2 * e[2]]
           Body(f) == [i \in Nat |-> IF i = 0 THEN 1 ELSE 2 * f[i - 1]]
           d == CHOOSE f : f = Body(f)
<1>1. Descends(Nat, Nat, rank, stop, base, down, step)
  <2>1. rank \in [Nat -> Nat] /\ base \in [Nat -> Nat] /\ down \in [Nat -> Nat]
    OBVIOUS
  <2>2. step \in [Nat \X Nat -> Nat]
    OBVIOUS
  <2>3. \A e \in Nat \ stop : rank[down[e]] < rank[e]
    OBVIOUS
  <2> QED  BY <2>1, <2>2, <2>3, Zenon DEF Descends
<1> HIDE DEF rank, stop, base, down, step
<1>2. PICK f \in [Nat -> Nat] : Solves(f, Nat, stop, base, down, step)
  BY <1>1, RecursionExists, Zenon
<1> USE DEF rank, stop, base, down, step
<1>3. f = Body(f)
  <2>1. ASSUME NEW k \in Nat PROVE f[k] = Body(f)[k]
    <3>1. f[k] = IF k \in stop THEN base[k] ELSE step[<<k, f[down[k]]>>]
      BY <1>2, Zenon DEF Solves
    <3>2. CASE k = 0
      BY <3>1, <3>2, Zenon
    <3>3. CASE k # 0
      <4>1. k - 1 \in Nat /\ down[k] = k - 1 /\ k \notin stop
        BY <3>3
      <4>2. <<k, f[k - 1]>> \in Nat \X Nat
        BY <4>1, Zenon
      <4> QED  BY <3>1, <3>3, <4>1, <4>2, Zenon
    <3> QED  BY <3>2, <3>3, Zenon
  <2> QED  BY <2>1, Zenon
<1>4. d = Body(d)
  BY <1>3, Zenon
<1>5. \A k : GetMemBlockSize(k) = d[k]
  BY Zenon DEF GetMemBlockSize
<1> HIDE DEF d
<1>6. d[0] = 1 /\ \A k \in Nat : d[k + 1] = 2 * d[k]
  <2>1. d[0] = 1
    BY <1>4, Zenon
  <2>2. ASSUME NEW k \in Nat PROVE d[k + 1] = 2 * d[k]
    <3>1. k + 1 \in Nat /\ k + 1 # 0 /\ (k + 1) - 1 = k
      OBVIOUS
    <3> QED  BY <1>4, <3>1, Zenon
  <2> QED  BY <2>1, <2>2, Zenon
<1> DEFINE S == {k \in Nat : d[k] \in Nat \ {0}}
<1>7. Nat \subseteq S
  <2>1. 0 \in S
    BY <1>6
  <2>2. \A k \in Nat : k \in S => k + 1 \in S
    BY <1>6
  <2> HIDE DEF S
  <2> QED  BY <2>1, <2>2, Induction, Zenon
<1> QED  BY <1>5, <1>6, <1>7, Zenon

\* A larger type has larger blocks.
LEMMA SizeGrows ==
  \A j, k \in Nat : j <= k => GetMemBlockSize(j) <= GetMemBlockSize(k)
<1> SUFFICES ASSUME NEW j \in Nat
             PROVE  \A k \in Nat : j <= k => GetMemBlockSize(j) <= GetMemBlockSize(k)
  OBVIOUS
<1> DEFINE S == {k \in Nat : j <= k => GetMemBlockSize(j) <= GetMemBlockSize(k)}
<1>1. 0 \in S
  BY SizeDoubles
<1>2. \A k \in Nat : k \in S => k + 1 \in S
  <2> SUFFICES ASSUME NEW k \in Nat, k \in S PROVE k + 1 \in S
    OBVIOUS
  <2>1. /\ GetMemBlockSize(j) \in Nat \ {0} /\ GetMemBlockSize(k) \in Nat \ {0}
        /\ GetMemBlockSize(k + 1) = 2 * GetMemBlockSize(k)
    BY SizeDoubles, Zenon
  <2>2. CASE j <= k
    BY <2>1, <2>2
  <2>3. CASE j = k + 1
    BY <2>1, <2>3
  <2> QED  BY <2>2, <2>3
<1>3. Nat \subseteq S
  <2> HIDE DEF S
  <2> QED  BY <1>1, <1>2, Induction, Zenon
<1> QED  BY <1>3, Zenon

\* GetMemBlockSizeType is the least type whose blocks are large enough.
LEMMA TypeOf ==
  ASSUME NEW n \in Sizes \cup {K_END}
  PROVE  /\ n \in Nat \ {0}
         /\ GetMemBlockSizeType(n) \in Types
         /\ n <= GetMemBlockSize(GetMemBlockSizeType(n))
         /\ \A j \in Nat : j < GetMemBlockSizeType(n) => GetMemBlockSize(j) < n
<1> DEFINE max == kMemBlockTypeNum
<1>1. max \in Nat \ {0} /\ max <= 31 /\ n \in Nat \ {0} /\ n <= GetMemBlockSize(max - 1)
  BY AllocatorAssumption, Zenon
<1> DEFINE T == {i \in Nat : n < GetMemBlockSize(i + 1)}
<1>2. max - 1 \in T
  <2>1. /\ GetMemBlockSize((max - 1) + 1) = 2 * GetMemBlockSize(max - 1)
        /\ GetMemBlockSize(max - 1) \in Nat \ {0} /\ max - 1 \in Nat
    BY <1>1, SizeDoubles
  <2> QED  BY <1>1, <2>1
<1>3. PICK x \in T : \A y \in T : x <= y
  BY <1>2, Least, Zenon
<1>4. x \in Nat /\ x <= max - 1 /\ n < GetMemBlockSize(x + 1)
  BY <1>1, <1>2, <1>3, Zenon
<1>5. GetMemBlockSize(x) <= n
  <2>1. CASE x = 0
    BY <1>1, <2>1, SizeDoubles
  <2>2. CASE x # 0
    <3>1. x - 1 \in Nat /\ (x - 1) + 1 = x /\ x - 1 \notin T
      BY <1>3, <1>4, <2>2
    <3>2. GetMemBlockSize(x) \in Nat
      BY <1>4, SizeDoubles, Zenon
    <3> QED  BY <1>1, <3>1, <3>2
  <2> QED  BY <2>1, <2>2, Zenon
<1> DEFINE IsTop(i) == n \div GetMemBlockSize(i) = 1
<1>6. ASSUME NEW i \in Nat
      PROVE  IsTop(i) <=> GetMemBlockSize(i) <= n /\ n < 2 * GetMemBlockSize(i)
  <2> DEFINE g == GetMemBlockSize(i)
  <2>1. g \in Nat \ {0}
    BY SizeDoubles, Zenon
  <2> HIDE DEF g
  <2>2. n \div g = 1 <=> g <= n /\ n < 2 * g
    BY <1>1, <2>1
  <2> QED  BY <2>2, Zenon DEF g
<1>7. x \in 0 .. 31 /\ IsTop(x)
  BY <1>1, <1>4, <1>5, <1>6, SizeDoubles
<1> DEFINE c == CHOOSE i \in 0 .. 31 : n \div GetMemBlockSize(i) = 1
<1>8. c \in 0 .. 31 /\ IsTop(c)
  BY <1>7, Zenon
<1>9. GetMemBlockSizeType(n) = IF n = GetMemBlockSize(c) THEN c ELSE c + 1
  BY Zenon DEF GetMemBlockSizeType
<1> HIDE DEF c, IsTop
<1>10. c \in Nat /\ GetMemBlockSize(c) <= n /\ n < GetMemBlockSize(c + 1)
  BY <1>6, <1>8, SizeDoubles
<1>11. ASSUME NEW i \in Nat, GetMemBlockSize(i) < n PROVE i <= c
  <2> SUFFICES ASSUME c + 1 <= i PROVE FALSE
    BY <1>10
  <2>1. GetMemBlockSize(c + 1) <= GetMemBlockSize(i)
    BY <1>10, SizeGrows
  <2> QED  BY <1>1, <1>10, <1>11, <2>1, SizeDoubles
<1>12. ASSUME NEW j \in Nat, j < GetMemBlockSizeType(n) PROVE GetMemBlockSize(j) < n
  <2>0. GetMemBlockSize(j) \in Nat \ {0} /\ GetMemBlockSize(c) \in Nat \ {0}
    BY <1>10, SizeDoubles, Zenon
  <2>1. CASE n = GetMemBlockSize(c)
    <3>1. j + 1 <= c /\ GetMemBlockSize(j + 1) = 2 * GetMemBlockSize(j)
      BY <1>9, <1>10, <1>12, <2>1, SizeDoubles
    <3>2. GetMemBlockSize(j + 1) <= GetMemBlockSize(c)
      BY <1>10, <3>1, SizeGrows
    <3> QED  BY <2>0, <2>1, <3>1, <3>2
  <2>2. CASE n # GetMemBlockSize(c)
    <3>1. j <= c
      BY <1>9, <1>10, <1>12, <2>2
    <3>2. GetMemBlockSize(j) <= GetMemBlockSize(c)
      BY <1>10, <3>1, SizeGrows, Zenon
    <3> QED  BY <1>1, <1>10, <2>0, <2>2, <3>2
  <2> QED  BY <2>1, <2>2, Zenon
<1>13. n <= GetMemBlockSize(GetMemBlockSizeType(n))
  <2>1. GetMemBlockSize(c) \in Nat /\ GetMemBlockSize(c + 1) \in Nat
    BY <1>10, SizeDoubles
  <2> QED  BY <1>1, <1>9, <1>10, <2>1
<1>14. GetMemBlockSizeType(n) \in Nat
  BY <1>9, <1>10
<1>15. GetMemBlockSizeType(n) \in Types
  <2> SUFFICES ASSUME max - 1 < GetMemBlockSizeType(n) PROVE FALSE
    BY <1>1, <1>14 DEF Types
  <2>1. max - 1 \in Nat /\ GetMemBlockSize(max - 1) \in Nat
    BY <1>1, SizeDoubles
  <2>2. GetMemBlockSize(max - 1) < n
    BY <1>12, <2>1, Zenon
  <2> QED  BY <1>1, <2>1, <2>2
<1> QED  BY <1>1, <1>12, <1>13, <1>15, Zenon

-----------------------------------------------------------------------------
(* What ListAdd and ListRemove do to the lists.                            *)

\* The addresses of list heads, MemBlocks and NULL differ.
LEMMA Addresses ==
  /\ \A b \in Blocks : b \notin Heads /\ b # NULL /\ b # ZERO
  /\ \A h \in Heads : h # NULL /\ h # ZERO
  /\ POOL \in Heads
  /\ \A k \in Types : /\ Free(k) \in Heads \ {POOL} /\ Alloc(k) \in Heads \ {POOL}
                      /\ Free(k)[2] = k /\ Alloc(k)[2] = k
  /\ \A j, k : /\ Free(j) # Alloc(k) /\ (Free(j) = Free(k) => j = k)
               /\ (Alloc(j) = Alloc(k) => j = k)
  /\ \A h \in Heads : h = POOL \/ \E k \in Types : h = Free(k) \/ h = Alloc(k)
<1>1. \A b \in Blocks : b \notin Heads /\ b # ZERO
  <2> SUFFICES ASSUME NEW i \in 1 .. PoolSize
               PROVE  Block(i) \notin Heads /\ Block(i) # ZERO
    BY Zenon DEF Blocks
  <2> QED  BY AllocatorAssumption DEF Block, Heads, POOL, Free, Alloc, ZERO
<1>2. \A b \in Blocks : b # NULL
  BY NullAssumption, Zenon
<1>3. \A h \in Heads : h # NULL /\ h # ZERO
  BY NullAssumption DEF Heads, POOL, Free, Alloc, ZERO
<1>4. /\ \A k \in Types : /\ Free(k) \in Heads \ {POOL} /\ Alloc(k) \in Heads \ {POOL}
                          /\ Free(k)[2] = k /\ Alloc(k)[2] = k
      /\ \A j, k : /\ Free(j) # Alloc(k) /\ (Free(j) = Free(k) => j = k)
                   /\ (Alloc(j) = Alloc(k) => j = k)
      /\ POOL \in Heads
  BY Zenon DEF Heads, Free, Alloc, POOL
<1>5. \A h \in Heads : h = POOL \/ \E k \in Types : h = Free(k) \/ h = Alloc(k)
  BY Zenon DEF Heads
<1> QED  BY <1>1, <1>2, <1>3, <1>4, <1>5, Zenon

\* The nodes of a list are MemBlocks of it, and no address is met twice.
LEMMA NodeFacts ==
  ASSUME NEW n, NEW L, NEW w, Links(n, L, w)
  PROVE  /\ \A h \in Heads : Len(L[h]) \in Nat /\ L[h] \in Seq(Blocks)
         /\ \A h \in Heads : \A i \in 0 .. Len(L[h]) + 1 :
              /\ NodeAt(h, L[h], i) \in Mem
              /\ i \in 1 .. Len(L[h]) => NodeAt(h, L[h], i) = L[h][i]
              /\ i \in 1 .. Len(L[h]) => L[h][i] \in Blocks /\ w[L[h][i]] = h
              /\ i \notin 1 .. Len(L[h]) => NodeAt(h, L[h], i) = h
         /\ \A g, h \in Heads : \A i \in 0 .. Len(L[g]), j \in 0 .. Len(L[h]) :
              NodeAt(g, L[g], i) = NodeAt(h, L[h], j) => g = h /\ i = j
<1>1. \A h \in Heads : Len(L[h]) \in Nat /\ L[h] \in Seq(Blocks)
  BY DEF Links
<1>2. ASSUME NEW h \in Heads, NEW i \in 0 .. Len(L[h]) + 1
      PROVE   /\ NodeAt(h, L[h], i) \in Mem
              /\ i \in 1 .. Len(L[h]) => NodeAt(h, L[h], i) = L[h][i]
              /\ i \in 1 .. Len(L[h]) => L[h][i] \in Blocks /\ w[L[h][i]] = h
              /\ i \notin 1 .. Len(L[h]) => NodeAt(h, L[h], i) = h
  <2>1. Len(L[h]) \in Nat /\ L[h] \in Seq(Blocks)
    BY <1>1, Zenon
  <2>2. i \in 1 .. Len(L[h]) => NodeAt(h, L[h], i) = L[h][i]
    BY <2>1 DEF NodeAt
  <2>3. i \in 1 .. Len(L[h]) => L[h][i] \in Blocks /\ w[L[h][i]] = h
    BY <2>1 DEF Links
  <2>4. i \notin 1 .. Len(L[h]) => NodeAt(h, L[h], i) = h
    BY <2>1 DEF NodeAt
  <2> QED  BY <2>2, <2>3, <2>4, Zenon DEF Mem
<1>3. ASSUME NEW g \in Heads, NEW h \in Heads,
             NEW i \in 0 .. Len(L[g]), NEW j \in 0 .. Len(L[h]),
             NodeAt(g, L[g], i) = NodeAt(h, L[h], j)
      PROVE  g = h /\ i = j
  <2>1. Len(L[h]) \in Nat /\ Len(L[g]) \in Nat
    BY <1>1, Zenon
  <2>2. i = 0 \/ i \in 1 .. Len(L[g])
    BY <2>1
  <2>3. j = 0 \/ j \in 1 .. Len(L[h])
    BY <2>1
  <2>4. i \in 0 .. Len(L[g]) + 1 /\ j \in 0 .. Len(L[h]) + 1
    BY <2>1
  <2>5. CASE i = 0 /\ j = 0
    BY <1>3, <2>5, Zenon DEF NodeAt
  <2>6. CASE i = 0 /\ j \in 1 .. Len(L[h])
    BY <1>2, <1>3, <2>4, <2>6, Addresses DEF NodeAt
  <2>7. CASE i \in 1 .. Len(L[g]) /\ j = 0
    BY <1>2, <1>3, <2>4, <2>7, Addresses DEF NodeAt
  <2>8. CASE i \in 1 .. Len(L[g]) /\ j \in 1 .. Len(L[h])
    <3>1. L[g][i] = L[h][j] /\ g = h
      BY <1>2, <1>3, <2>4, <2>8
    <3>2. Distinct(L[h])
      BY Zenon DEF Links
    <3> QED  BY <2>8, <3>1, <3>2, Zenon DEF Distinct
  <2> QED  BY <2>2, <2>3, <2>5, <2>6, <2>7, <2>8, Zenon
<1> QED  BY <1>1, <1>2, <1>3, Zenon

\* s with b after its first i members.
Ins(s, i, b) ==
    [j \in 1 .. Len(s) + 1 |-> IF j <= i THEN s[j] ELSE IF j = i + 1 THEN b ELSE s[j - 1]]

\* s without member i + 1.
Del(s, i) == [j \in 1 .. Len(s) - 1 |-> IF j <= i THEN s[j] ELSE s[j + 1]]

\* The sequences made by Ins and Del.
LEMMA InsDel ==
  ASSUME NEW s \in Seq(Blocks), NEW i \in 0 .. Len(s)
  PROVE  /\ \A b \in Blocks : Ins(s, i, b) \in Seq(Blocks) /\ Len(Ins(s, i, b)) = Len(s) + 1
         /\ i < Len(s) => Del(s, i) \in Seq(Blocks) /\ Len(Del(s, i)) = Len(s) - 1
<1>1. Len(s) \in Nat /\ \A j \in 1 .. Len(s) : s[j] \in Blocks
  OBVIOUS
<1>2. ASSUME NEW b \in Blocks
      PROVE  Ins(s, i, b) \in Seq(Blocks) /\ Len(Ins(s, i, b)) = Len(s) + 1
  <2> DEFINE m == Len(s) + 1
             f == [j \in 1 .. m |-> IF j <= i THEN s[j] ELSE IF j = i + 1 THEN b ELSE s[j - 1]]
  <2>1. m \in Nat
    BY <1>1
  <2>2. \A j \in 1 .. m : f[j] \in Blocks
    BY <1>1
  <2>3. Ins(s, i, b) = f
    BY Zenon DEF Ins
  <2> HIDE DEF m
  <2>4. f \in Seq(Blocks) /\ Len(f) = m
    BY <2>1, <2>2
  <2> QED  BY <2>3, <2>4, Zenon DEF m
<1>3. ASSUME i < Len(s)
      PROVE  Del(s, i) \in Seq(Blocks) /\ Len(Del(s, i)) = Len(s) - 1
  <2> DEFINE m == Len(s) - 1
             f == [j \in 1 .. m |-> IF j <= i THEN s[j] ELSE s[j + 1]]
  <2>1. m \in Nat
    BY <1>1, <1>3
  <2>2. \A j \in 1 .. m : f[j] \in Blocks
    BY <1>1
  <2>3. Del(s, i) = f
    BY Zenon DEF Del
  <2> HIDE DEF m
  <2>4. f \in Seq(Blocks) /\ Len(f) = m
    BY <2>1, <2>2
  <2> QED  BY <2>3, <2>4, Zenon DEF m
<1> QED  BY <1>2, <1>3, Zenon

\* ListAdd puts a MemBlock that is in no list after a node of a list.
LEMMA LinksAdd ==
  ASSUME NEW n, NEW L, NEW w, Links(n, L, w), NEW b \in Blocks, w[b] = NULL,
         NEW h \in Heads, NEW i \in 0 .. Len(L[h])
  PROVE  Links(ListAdd(n, NodeAt(h, L[h], i), b),
               [L EXCEPT ![h] = Ins(L[h], i, b)], [w EXCEPT ![b] = h])
<1> DEFINE s == L[h]
           p == NodeAt(h, L[h], i)
           t == Ins(L[h], i, b)
           n2 == ListAdd(n, p, b)
           L2 == [L EXCEPT ![h] = t]
           w2 == [w EXCEPT ![b] = h]
<1>1. /\ n \in [Mem -> Mem] /\ L \in [Heads -> Seq(Blocks)] /\ w \in [Blocks -> Heads \cup {NULL}]
      /\ s \in Seq(Blocks) /\ Len(s) \in Nat /\ i \in 0 .. Len(s) + 1 /\ i \in Nat
  BY DEF Links
<1>2. p \in Mem /\ b \in Mem /\ p # b
  <2>1. i = 0 \/ i \in 1 .. Len(s)
    BY <1>1
  <2> QED  BY <1>1, <2>1, NodeFacts, Addresses DEF Mem
<1>3. /\ n2 \in [Mem -> Mem] /\ n2[p] = b /\ n2[b] = n[p]
      /\ \A x \in Mem \ {p, b} : n2[x] = n[x]
  BY <1>1, <1>2, Zenon DEF ListAdd
<1>4. /\ t \in Seq(Blocks) /\ Len(t) = Len(s) + 1
      /\ \A j \in 1 .. Len(s) + 1 :
           t[j] = IF j <= i THEN s[j] ELSE IF j = i + 1 THEN b ELSE s[j - 1]
  <2>1. t \in Seq(Blocks) /\ Len(t) = Len(s) + 1
    BY <1>1, InsDel, Zenon
  <2> QED  BY <2>1, Zenon DEF Ins
<1>5. \A g \in Heads : L2[g] = IF g = h THEN t ELSE L[g]
  BY <1>1, Zenon
<1>6. L2 \in [Heads -> Seq(Blocks)] /\ w2 \in [Blocks -> Heads \cup {NULL}]
  BY <1>1, <1>4, Zenon
<1> HIDE DEF n2, L2, t
<1>7. ASSUME NEW g \in Heads, g # h
      PROVE  /\ Distinct(L2[g]) /\ Chain(n2, g, L2[g])
             /\ \A j \in 1 .. Len(L2[g]) : w2[L2[g][j]] = g
  <2>1. L2[g] = L[g] /\ Distinct(L[g]) /\ Chain(n, g, L[g]) /\ Len(L[g]) \in Nat
    BY <1>5, <1>7, NodeFacts DEF Links
  <2>2. ASSUME NEW j \in 0 .. Len(L[g]) PROVE NodeAt(g, L[g], j) \in Mem \ {p, b}
    <3>1. j = 0 \/ j \in 1 .. Len(L[g])
      BY <2>1
    <3>2. j \in 0 .. Len(L[g]) + 1
      BY <2>1
    <3>3. NodeAt(g, L[g], j) # p
      BY <1>7, NodeFacts
    <3> QED  BY <3>1, <3>2, <3>3, NodeFacts, Addresses
  <2>3. Chain(n2, g, L[g])
    BY <1>3, <2>1, <2>2, Zenon DEF Chain
  <2>4. ASSUME NEW j \in 1 .. Len(L[g]) PROVE w2[L[g][j]] = g
    <3>1. j \in 0 .. Len(L[g]) + 1
      BY <2>1
    <3>2. L[g][j] \in Blocks /\ w[L[g][j]] = g
      BY <3>1, NodeFacts
    <3> QED  BY <1>1, <3>2, Addresses
  <2> QED  BY <2>1, <2>3, <2>4, Zenon
<1>8. ASSUME NEW j \in 0 .. Len(t) + 1
      PROVE  NodeAt(h, t, j) = IF j <= i THEN NodeAt(h, s, j)
                               ELSE IF j = i + 1 THEN b ELSE NodeAt(h, s, j - 1)
  <2>1. j = 0 \/ j \in 1 .. Len(s) + 1 \/ j = Len(s) + 2
    BY <1>1, <1>4
  <2>2. CASE j = 0
    BY <1>1, <2>2 DEF NodeAt
  <2>3. CASE j = Len(s) + 2
    BY <1>1, <1>4, <2>3 DEF NodeAt
  <2>4. CASE j \in 1 .. Len(s) + 1
    <3>1. NodeAt(h, t, j) = t[j]
      BY <1>1, <1>4, <2>4 DEF NodeAt
    <3>2. CASE j <= i
      BY <1>1, <1>4, <2>4, <3>1, <3>2 DEF NodeAt
    <3>3. CASE j = i + 1
      BY <1>1, <1>4, <2>4, <3>1, <3>3 DEF NodeAt
    <3>4. CASE ~ (j <= i) /\ j # i + 1
      <4>1. j - 1 # 0 /\ j - 1 # Len(s) + 1
        BY <1>1, <2>4, <3>4
      <4> QED  BY <1>1, <1>4, <2>4, <3>1, <3>4, <4>1, Zenon DEF NodeAt
    <3> QED  BY <3>2, <3>3, <3>4, Zenon
  <2> QED  BY <2>1, <2>2, <2>3, <2>4, Zenon
<1>9. ASSUME NEW j \in 0 .. Len(s), j # i
      PROVE  n2[NodeAt(h, s, j)] = NodeAt(h, s, j + 1)
  <2>1. j \in 0 .. Len(s) + 1 /\ (j = 0 \/ j \in 1 .. Len(s))
    BY <1>1
  <2>2. NodeAt(h, s, j) # p
    BY <1>9, NodeFacts
  <2>3. NodeAt(h, s, j) \in Mem /\ NodeAt(h, s, j) # b
    <3>1. NodeAt(h, s, j) = h \/ w[NodeAt(h, s, j)] = h
      BY <2>1, NodeFacts
    <3>2. h # b /\ h # NULL
      BY Addresses
    <3>3. NodeAt(h, s, j) \in Mem
      BY <2>1, NodeFacts, Zenon
    <3> QED  BY <3>1, <3>2, <3>3, Zenon
  <2>4. n[NodeAt(h, s, j)] = NodeAt(h, s, j + 1)
    BY Zenon DEF Links, Chain
  <2> QED  BY <1>3, <2>2, <2>3, <2>4, Zenon
<1>10. Chain(n2, h, t)
  <2> SUFFICES ASSUME NEW j \in 0 .. Len(t) PROVE n2[NodeAt(h, t, j)] = NodeAt(h, t, j + 1)
    BY Zenon DEF Chain
  <2>1. j \in Nat /\ j \in 0 .. Len(t) + 1 /\ j + 1 \in 0 .. Len(t) + 1
    BY <1>1, <1>4
  <2>2. CASE j < i
    <3>1. NodeAt(h, t, j) = NodeAt(h, s, j) /\ NodeAt(h, t, j + 1) = NodeAt(h, s, j + 1)
      BY <1>1, <1>8, <2>1, <2>2
    <3> QED  BY <1>1, <1>9, <2>1, <2>2, <3>1
  <2>3. CASE j = i
    <3>1. NodeAt(h, t, j) = p /\ NodeAt(h, t, j + 1) = b
      BY <1>1, <1>8, <2>1, <2>3
    <3> QED  BY <1>3, <3>1, Zenon
  <2>4. CASE j = i + 1
    <3>1. NodeAt(h, t, j) = b /\ NodeAt(h, t, j + 1) = NodeAt(h, s, i + 1)
      <4>1. (j + 1) - 1 = i + 1 /\ ~ (j + 1 <= i) /\ j + 1 # i + 1 /\ ~ (j <= i)
        BY <1>1, <2>4
      <4> QED  BY <1>8, <2>1, <2>4, <4>1, Zenon
    <3>2. n[p] = NodeAt(h, s, i + 1)
      BY Zenon DEF Links, Chain
    <3> QED  BY <1>3, <3>1, <3>2, Zenon
  <2>5. CASE j > i + 1
    <3>1. NodeAt(h, t, j) = NodeAt(h, s, j - 1) /\ NodeAt(h, t, j + 1) = NodeAt(h, s, j)
      <4>1. (j + 1) - 1 = j /\ ~ (j + 1 <= i) /\ j + 1 # i + 1 /\ ~ (j <= i) /\ j # i + 1
        BY <1>1, <2>1, <2>5
      <4> QED  BY <1>8, <2>1, <4>1, Zenon
    <3>2. j - 1 \in 0 .. Len(s) /\ j - 1 # i /\ (j - 1) + 1 = j
      BY <1>1, <1>4, <2>1, <2>5
    <3> QED  BY <1>9, <3>1, <3>2, Zenon
  <2> QED  BY <1>1, <2>1, <2>2, <2>3, <2>4, <2>5
<1>11. ASSUME NEW j \in 1 .. Len(s) PROVE s[j] \in Blocks /\ s[j] # b /\ w[s[j]] = h
  <2>1. j \in 0 .. Len(s) + 1
    BY <1>1
  <2> QED  BY <1>1, <2>1, NodeFacts, Addresses
<1>12. Distinct(t)
  <2> SUFFICES ASSUME NEW j \in 1 .. Len(s) + 1, NEW k \in 1 .. Len(s) + 1, t[j] = t[k]
               PROVE  j = k
    BY <1>4, Zenon DEF Distinct
  <2>1. \A u, v \in 1 .. Len(s) : s[u] = s[v] => u = v
    BY Zenon DEF Links, Distinct
  <2>2. \A u \in 1 .. Len(s) + 1 :
          /\ u <= i => t[u] = s[u] /\ u \in 1 .. Len(s)
          /\ u = i + 1 => t[u] = b
          /\ u > i + 1 => t[u] = s[u - 1] /\ u - 1 \in 1 .. Len(s)
    BY <1>1, <1>4
  <2>3. (j = i + 1) <=> (k = i + 1)
    BY <1>1, <1>11, <2>2
  <2> DEFINE at(u) == IF u <= i THEN u ELSE u - 1
  <2>4. ASSUME NEW u \in 1 .. Len(s) + 1, u # i + 1
        PROVE  t[u] = s[at(u)] /\ at(u) \in 1 .. Len(s)
    <3>1. u <= i \/ u > i + 1
      BY <1>1, <2>4
    <3> QED  BY <2>2, <3>1, Zenon
  <2>5. CASE j # i + 1
    <3>1. at(j) = at(k)
      BY <2>1, <2>3, <2>4, <2>5, Zenon
    <3>2. i \in Nat /\ j \in Nat /\ k \in Nat /\ j # i + 1 /\ k # i + 1
      BY <1>1, <2>3, <2>5
    <3> QED  BY <3>1, <3>2
  <2> QED  BY <2>3, <2>5, Zenon
<1>13. \A j \in 1 .. Len(t) : w2[t[j]] = h
  <2> TAKE j \in 1 .. Len(t)
  <2>1. t[j] = b \/ \E u \in 1 .. Len(s) : t[j] = s[u]
    BY <1>1, <1>4
  <2> QED  BY <1>1, <1>11, <2>1, Zenon
<1>14. ASSUME NEW c \in Blocks, w2[c] # NULL
       PROVE  \E j \in 1 .. Len(L2[w2[c]]) : L2[w2[c]][j] = c
  <2>1. CASE c = b
    <3>1. w2[c] = h /\ i + 1 \in 1 .. Len(t) /\ t[i + 1] = b
      BY <1>1, <1>4, <2>1
    <3> QED  BY <1>5, <2>1, <3>1, Zenon
  <2>2. CASE c # b /\ w[c] # h
    <3>1. w2[c] = w[c] /\ w[c] # NULL /\ w[c] \in Heads
      BY <1>1, <1>14, <2>2, Zenon
    <3> QED  BY <1>5, <2>2, <3>1 DEF Links
  <2>3. CASE c # b /\ w[c] = h
    <3>1. PICK j \in 1 .. Len(s) : s[j] = c
      BY <1>1, <1>14, <2>3, Addresses, Zenon DEF Links
    <3>2. w2[c] = h /\ L2[h] = t
      BY <1>1, <1>5, <2>3, Zenon
    <3>3. CASE j <= i
      <4>1. j \in 1 .. Len(t) /\ t[j] = c
        BY <1>1, <1>4, <3>1, <3>3
      <4> QED  BY <3>2, <4>1, Zenon
    <3>4. CASE ~ (j <= i)
      <4>1. j + 1 \in 1 .. Len(t) /\ t[j + 1] = c
        BY <1>1, <1>4, <3>1, <3>4
      <4> QED  BY <3>2, <4>1, Zenon
    <3> QED  BY <3>3, <3>4, Zenon
  <2> QED  BY <2>1, <2>2, <2>3, Zenon
<1>15. Links(n2, L2, w2)
  <2> HIDE DEF w2
  <2> QED  BY <1>3, <1>5, <1>6, <1>7, <1>10, <1>12, <1>13, <1>14 DEF Links
<1> QED  BY <1>15, Zenon DEF n2, L2, t

\* ListRemove takes the node after a node out of a list.
LEMMA LinksRemove ==
  ASSUME NEW n, NEW L, NEW w, Links(n, L, w),
         NEW h \in Heads, NEW i \in 0 .. Len(L[h]) - 1
  PROVE  /\ n[NodeAt(h, L[h], i)] = L[h][i + 1]
         /\ Links(ListRemove(n, NodeAt(h, L[h], i)),
                  [L EXCEPT ![h] = Del(L[h], i)], [w EXCEPT ![L[h][i + 1]] = NULL])
<1> DEFINE s == L[h]
           p == NodeAt(h, L[h], i)
           b == L[h][i + 1]
           t == Del(L[h], i)
           n2 == ListRemove(n, p)
           L2 == [L EXCEPT ![h] = t]
           w2 == [w EXCEPT ![b] = NULL]
<1>1. /\ n \in [Mem -> Mem] /\ L \in [Heads -> Seq(Blocks)] /\ w \in [Blocks -> Heads \cup {NULL}]
      /\ s \in Seq(Blocks) /\ Len(s) \in Nat /\ i \in Nat
  BY DEF Links
<1>2. i \in 0 .. Len(s) /\ i + 1 \in 1 .. Len(s) /\ i + 1 \in 0 .. Len(s) + 1 /\ i + 1 \in 0 .. Len(s)
  BY <1>1
<1>3. b \in Blocks /\ w[b] = h /\ NodeAt(h, s, i + 1) = b
  BY <1>2, NodeFacts
<1>4. n[p] = b /\ n[b] = NodeAt(h, s, i + 2)
  <2>1. (i + 1) + 1 = i + 2
    BY <1>1
  <2>2. n[p] = NodeAt(h, s, i + 1) /\ n[NodeAt(h, s, i + 1)] = NodeAt(h, s, (i + 1) + 1)
    BY <1>2, Zenon DEF Links, Chain
  <2> QED  BY <1>3, <2>1, <2>2, Zenon
<1>5. p \in Mem /\ b \in Mem /\ p # b
  <2>1. i # i + 1 /\ i \in 0 .. Len(s) + 1
    BY <1>1, <1>2
  <2>2. p # NodeAt(h, s, i + 1)
    BY <1>2, <2>1, NodeFacts
  <2> QED  BY <1>3, <2>1, <2>2, NodeFacts, Zenon DEF Mem
<1>6. /\ n2 \in [Mem -> Mem] /\ n2[p] = n[b]
      /\ \A x \in Mem \ {p, b} : n2[x] = n[x]
  <2>1. NULL \in Mem
    BY Zenon DEF Mem
  <2> QED  BY <1>1, <1>4, <1>5, <2>1, Zenon DEF ListRemove
<1>7. /\ t \in Seq(Blocks) /\ Len(t) = Len(s) - 1
      /\ \A j \in 1 .. Len(s) - 1 : t[j] = IF j <= i THEN s[j] ELSE s[j + 1]
  <2>1. t \in Seq(Blocks) /\ Len(t) = Len(s) - 1
    <3>1. i < Len(s) /\ i \in 0 .. Len(s)
      BY <1>1, <1>2
    <3> QED  BY <1>1, <3>1, InsDel, Zenon
  <2> QED  BY <2>1, Zenon DEF Del
<1>8. \A g \in Heads : L2[g] = IF g = h THEN t ELSE L[g]
  BY <1>1, Zenon
<1>9. L2 \in [Heads -> Seq(Blocks)] /\ w2 \in [Blocks -> Heads \cup {NULL}]
  BY <1>1, <1>7, Zenon
<1>10. \A c \in Blocks : w2[c] = IF c = b THEN NULL ELSE w[c]
  BY <1>1, Zenon
<1> HIDE DEF n2, L2, w2, t
<1>11. ASSUME NEW g \in Heads, g # h
      PROVE  /\ Distinct(L2[g]) /\ Chain(n2, g, L2[g])
             /\ \A j \in 1 .. Len(L2[g]) : w2[L2[g][j]] = g
  <2>1. L2[g] = L[g] /\ Distinct(L[g]) /\ Chain(n, g, L[g]) /\ Len(L[g]) \in Nat
    BY <1>8, <1>11, NodeFacts DEF Links
  <2>2. ASSUME NEW j \in 0 .. Len(L[g]) PROVE NodeAt(g, L[g], j) \in Mem \ {p, b}
    <3>1. j \in 0 .. Len(L[g]) + 1
      BY <2>1
    <3>2. NodeAt(g, L[g], j) # p
      BY <1>2, <1>11, NodeFacts
    <3>3. NodeAt(g, L[g], j) # NodeAt(h, s, i + 1)
      BY <1>2, <1>11, NodeFacts
    <3> QED  BY <1>3, <3>1, <3>2, <3>3, NodeFacts, Zenon
  <2>3. Chain(n2, g, L[g])
    BY <1>6, <2>1, <2>2, Zenon DEF Chain
  <2>4. ASSUME NEW j \in 1 .. Len(L[g]) PROVE w2[L[g][j]] = g
    <3>1. j \in 0 .. Len(L[g]) + 1
      BY <2>1
    <3>2. L[g][j] \in Blocks /\ w[L[g][j]] = g
      BY <3>1, NodeFacts
    <3> QED  BY <1>3, <1>10, <1>11, <3>2, Zenon
  <2> QED  BY <2>1, <2>3, <2>4, Zenon
<1>12. ASSUME NEW j \in 0 .. Len(t) + 1
       PROVE  NodeAt(h, t, j) = IF j <= i THEN NodeAt(h, s, j) ELSE NodeAt(h, s, j + 1)
  <2>1. j = 0 \/ j \in 1 .. Len(s) - 1 \/ j = Len(s)
    BY <1>1, <1>7
  <2>2. CASE j = 0
    BY <1>1, <2>2 DEF NodeAt
  <2>3. CASE j = Len(s)
    BY <1>1, <1>2, <1>7, <2>3 DEF NodeAt
  <2>4. CASE j \in 1 .. Len(s) - 1
    <3>1. NodeAt(h, t, j) = t[j]
      BY <1>1, <1>7, <2>4 DEF NodeAt
    <3>2. NodeAt(h, s, j) = s[j] /\ NodeAt(h, s, j + 1) = s[j + 1]
      BY <1>1, <2>4 DEF NodeAt
    <3> QED  BY <1>7, <2>4, <3>1, <3>2, Zenon
  <2> QED  BY <2>1, <2>2, <2>3, <2>4, Zenon
<1>13. ASSUME NEW j \in 0 .. Len(s), j # i, j # i + 1
       PROVE  n2[NodeAt(h, s, j)] = NodeAt(h, s, j + 1)
  <2>1. j \in 0 .. Len(s) + 1
    BY <1>1
  <2>2. NodeAt(h, s, j) # p
    BY <1>2, <1>13, NodeFacts
  <2>3. NodeAt(h, s, j) # NodeAt(h, s, i + 1)
    BY <1>2, <1>13, NodeFacts
  <2>4. NodeAt(h, s, j) \in Mem
    BY <2>1, NodeFacts, Zenon
  <2>5. n[NodeAt(h, s, j)] = NodeAt(h, s, j + 1)
    BY Zenon DEF Links, Chain
  <2> QED  BY <1>3, <1>6, <2>2, <2>3, <2>4, <2>5, Zenon
<1>14. Chain(n2, h, t)
  <2> SUFFICES ASSUME NEW j \in 0 .. Len(t) PROVE n2[NodeAt(h, t, j)] = NodeAt(h, t, j + 1)
    BY Zenon DEF Chain
  <2>1. j \in Nat /\ j \in 0 .. Len(t) + 1 /\ j + 1 \in 0 .. Len(t) + 1 /\ j + 1 \in 0 .. Len(s)
    BY <1>1, <1>7
  <2>2. CASE j < i
    <3>1. NodeAt(h, t, j) = NodeAt(h, s, j) /\ NodeAt(h, t, j + 1) = NodeAt(h, s, j + 1)
      BY <1>1, <1>12, <2>1, <2>2
    <3> QED  BY <1>1, <1>2, <1>13, <2>1, <2>2, <3>1
  <2>3. CASE j = i
    <3>1. NodeAt(h, t, j) = p /\ NodeAt(h, t, j + 1) = NodeAt(h, s, i + 2)
      <4>1. (j + 1) + 1 = i + 2 /\ ~ (j + 1 <= i) /\ j <= i
        BY <1>1, <2>3
      <4> QED  BY <1>12, <2>1, <2>3, <4>1, Zenon
    <3> QED  BY <1>4, <1>6, <3>1, Zenon
  <2>4. CASE j > i
    <3>1. NodeAt(h, t, j) = NodeAt(h, s, j + 1) /\ NodeAt(h, t, j + 1) = NodeAt(h, s, (j + 1) + 1)
      <4>1. ~ (j + 1 <= i) /\ ~ (j <= i)
        BY <1>1, <2>1, <2>4
      <4> QED  BY <1>12, <2>1, <4>1, Zenon
    <3>2. j + 1 # i /\ j + 1 # i + 1
      BY <1>1, <2>1, <2>4
    <3> QED  BY <1>13, <2>1, <3>1, <3>2, Zenon
  <2> QED  BY <1>1, <2>1, <2>2, <2>3, <2>4
<1>15. ASSUME NEW j \in 1 .. Len(s) PROVE s[j] \in Blocks /\ w[s[j]] = h
  <2>1. j \in 0 .. Len(s) + 1
    BY <1>1
  <2> QED  BY <2>1, NodeFacts
<1>16. \A u, v \in 1 .. Len(s) : s[u] = s[v] => u = v
  BY Zenon DEF Links, Distinct
<1>17. \A u \in 1 .. Len(t) :
         /\ u <= i => t[u] = s[u] /\ u \in 1 .. Len(s) /\ u # i + 1
         /\ u > i => t[u] = s[u + 1] /\ u + 1 \in 1 .. Len(s) /\ u + 1 # i + 1
  BY <1>1, <1>7
<1>18. Distinct(t)
  <2> SUFFICES ASSUME NEW j \in 1 .. Len(t), NEW k \in 1 .. Len(t), t[j] = t[k]
               PROVE  j = k
    BY Zenon DEF Distinct
  <2> QED  BY <1>1, <1>7, <1>16, <1>17
<1>19. \A j \in 1 .. Len(t) : w2[t[j]] = h
  <2> TAKE j \in 1 .. Len(t)
  <2>1. PICK u \in 1 .. Len(s) : t[j] = s[u] /\ u # i + 1
    BY <1>1, <1>7, <1>17
  <2>2. s[u] # b
    BY <1>2, <1>16, <2>1, Zenon
  <2> QED  BY <1>10, <1>15, <2>1, <2>2, Zenon
<1>20. ASSUME NEW c \in Blocks, w2[c] # NULL
       PROVE  \E j \in 1 .. Len(L2[w2[c]]) : L2[w2[c]][j] = c
  <2>1. c # b /\ w2[c] = w[c] /\ w[c] \in Heads /\ w[c] # NULL
    BY <1>1, <1>10, <1>20, Zenon
  <2>2. CASE w[c] # h
    <3>1. L2[w2[c]] = L[w[c]]
      BY <1>8, <2>1, <2>2
    <3>2. \E j \in 1 .. Len(L[w[c]]) : L[w[c]][j] = c
      BY <2>1, Zenon DEF Links
    <3> QED  BY <3>1, <3>2, Zenon
  <2>3. CASE w[c] = h
    <3>1. PICK j \in 1 .. Len(s) : s[j] = c
      BY <2>1, <2>3, Zenon DEF Links
    <3>2. w2[c] = h /\ L2[h] = t /\ j # i + 1
      BY <1>8, <2>1, <2>3, <3>1, Zenon
    <3>3. CASE j <= i
      <4>1. j \in 1 .. Len(t) /\ t[j] = c
        BY <1>1, <1>2, <1>7, <3>1, <3>3
      <4> QED  BY <3>2, <4>1, Zenon
    <3>4. CASE ~ (j <= i)
      <4>1. j - 1 \in 1 .. Len(t) /\ ~ (j - 1 <= i) /\ (j - 1) + 1 = j
        BY <1>1, <1>2, <1>7, <3>2, <3>4
      <4>2. t[j - 1] = c
        BY <1>7, <3>1, <4>1, Zenon
      <4> QED  BY <3>2, <4>1, <4>2, Zenon
    <3> QED  BY <3>3, <3>4, Zenon
  <2> QED  BY <2>2, <2>3, Zenon
<1>21. Links(n2, L2, w2)
  BY <1>6, <1>8, <1>9, <1>11, <1>14, <1>18, <1>19, <1>20 DEF Links
<1> QED  BY <1>4, <1>21, Zenon DEF n2, L2, w2, t

\* A list is no longer than the memory, and NodesOf finds it.
LEMMA ListOf ==
  ASSUME NEW n, NEW L, NEW w, Links(n, L, w), NEW h \in Heads
  PROVE  Len(L[h]) <= Cardinality(Mem) /\ NodesOf(n, h) = L[h]
<1> DEFINE s == L[h]
<1>1. /\ n \in [Mem -> Mem] /\ s \in Seq(Blocks) /\ Len(s) \in Nat
      /\ Distinct(s) /\ Chain(n, h, s) /\ h \in Mem /\ s \in Seq(Mem) /\ Counted(Mem)
  BY DEF Links, Mem
<1>2. Len(s) <= Cardinality(Mem)
  BY <1>1, Zenon DEF Counted
<1>3. \A i \in 1 .. Len(s) : s[i] \notin {h, NULL}
  <2> TAKE i \in 1 .. Len(s)
  <2>1. s[i] \in Blocks
    BY <1>1
  <2> QED  BY <2>1, Addresses
<1> HIDE DEF s
<1>4. NodesOf(n, h) = s
  BY <1>1, <1>2, <1>3, NodesOfChain, Zenon
<1> QED  BY <1>2, <1>4, Zenon DEF s

\* The first node of a list.
LEMMA FirstOf ==
  ASSUME NEW n, NEW L, NEW w, Links(n, L, w), NEW h \in Heads
  PROVE  /\ IsListEmpty(n, h) <=> L[h] = <<>>
         /\ L[h] # <<>> =>
              /\ n[h] = L[h][1] /\ L[h][1] \in Blocks /\ w[L[h][1]] = h
              /\ Len(L[h]) \in Nat \ {0} /\ NodeAt(h, L[h], 0) = h
<1>1. Len(L[h]) \in Nat /\ L[h] \in Seq(Blocks) /\ (L[h] = <<>> <=> Len(L[h]) = 0)
  BY NodeFacts
<1>2. n[h] = NodeAt(h, L[h], 1) /\ NodeAt(h, L[h], 0) = h
  <2>1. 0 \in 0 .. Len(L[h])
    BY <1>1
  <2>2. n[NodeAt(h, L[h], 0)] = NodeAt(h, L[h], 0 + 1)
    BY <2>1, Zenon DEF Links, Chain
  <2>3. NodeAt(h, L[h], 0) = h /\ 0 + 1 = 1
    BY DEF NodeAt
  <2> QED  BY <2>2, <2>3, Zenon
<1>3. CASE L[h] = <<>>
  BY <1>1, <1>2, <1>3 DEF NodeAt, IsListEmpty
<1>4. CASE L[h] # <<>>
  <2>1. 1 \in 1 .. Len(L[h]) /\ 1 \in 0 .. Len(L[h]) + 1
    BY <1>1, <1>4
  <2>2. NodeAt(h, L[h], 1) = L[h][1] /\ L[h][1] \in Blocks /\ w[L[h][1]] = h
    BY <2>1, NodeFacts
  <2> QED  BY <1>1, <1>2, <1>4, <2>2, Addresses DEF IsListEmpty
<1> QED  BY <1>3, <1>4, Zenon

\* a belongs after the first i blocks of the list s.
Belongs(s, ad, a, i) ==
    (\A j \in 1 .. i : ad[s[j]] < a) /\ (i < Len(s) => ad[s[i + 1]] >= a)

\* The walk of Insert and Position: to the node before the first MemBlock
\* whose address is not below a.
LEMMA WalkSorted ==
  ASSUME NEW n, NEW L, NEW w, Links(n, L, w), NEW ad \in [Mem -> Nat],
         NEW h \in Heads, NEW a \in Nat,
         NEW stop, stop = [p \in DOMAIN n |-> n[p] = h \/ ad[n[p]] >= a]
  PROVE  \E i \in 0 .. Len(L[h]) :
           Walk(n, h, stop) = NodeAt(h, L[h], i) /\ Belongs(L[h], ad, a, i)
<1> DEFINE s == L[h]
<1>1. /\ n \in [Mem -> Mem] /\ s \in Seq(Blocks) /\ Len(s) \in Nat
      /\ Chain(n, h, s) /\ h \in Mem /\ s \in Seq(Mem) /\ Len(s) <= Cardinality(Mem)
      /\ Counted(Mem)
  <2>1. Len(s) <= Cardinality(Mem)
    BY ListOf, Zenon
  <2> QED  BY <2>1 DEF Links, Mem
<1>2. stop \in [Mem -> BOOLEAN]
  <2>1. DOMAIN n = Mem
    BY <1>1, Zenon
  <2> QED  BY <2>1, Zenon
<1>3. ASSUME NEW i \in 0 .. Len(s)
      PROVE  /\ i = Len(s) => stop[NodeAt(h, s, i)]
             /\ i < Len(s) => stop[NodeAt(h, s, i)] = (ad[s[i + 1]] >= a)
  <2>1. NodeAt(h, s, i) \in Mem /\ n[NodeAt(h, s, i)] = NodeAt(h, s, i + 1)
    <3>1. i \in 0 .. Len(s) + 1
      BY <1>1
    <3> QED  BY <1>1, <3>1, NodeFacts, Zenon DEF Chain
  <2>2. CASE i = Len(s)
    <3>1. NodeAt(h, s, i + 1) = h
      BY <2>2, Zenon DEF NodeAt
    <3>2. stop[NodeAt(h, s, i)]
      BY <1>1, <2>1, <3>1, Zenon
    <3> QED  BY <1>1, <2>2, <3>2
  <2>3. CASE i < Len(s)
    <3>1. i + 1 \in 1 .. Len(s) /\ i + 1 \in 0 .. Len(s) + 1
      BY <1>1, <2>3
    <3>2. NodeAt(h, s, i + 1) = s[i + 1] /\ s[i + 1] \in Blocks
      BY <3>1, NodeFacts
    <3>3. s[i + 1] # h
      BY <3>2, Addresses
    <3> QED  BY <1>1, <2>1, <2>3, <3>2, <3>3
  <2> QED  BY <1>1, <2>2, <2>3, Zenon
<1>4. stop[NodeAt(h, s, Len(s))]
  <2>1. Len(s) \in 0 .. Len(s)
    BY <1>1
  <2> QED  BY <1>3, <2>1, Zenon
<1> HIDE DEF s
<1>5. PICK i \in 0 .. Len(s) : Walk(n, h, stop) = NodeAt(h, s, i) /\ StopsAt(h, s, stop, i)
  BY <1>1, <1>2, <1>4, WalkResult, Zenon
<1>6. ASSUME NEW j \in 1 .. i PROVE ad[s[j]] < a
  <2>1. j - 1 \in 0 .. i - 1 /\ j - 1 \in 0 .. Len(s) /\ j - 1 < Len(s) /\ (j - 1) + 1 = j
    BY <1>1
  <2>2. ~ (ad[s[j]] >= a)
    BY <1>3, <1>5, <2>1, Zenon DEF StopsAt
  <2>3. j \in 1 .. Len(s)
    BY <1>1
  <2>4. s[j] \in Mem
    BY <1>1, <2>3
  <2>5. ad[s[j]] \in Nat
    BY <2>4, Zenon
  <2> QED  BY <2>2, <2>5
<1>7. i < Len(s) => ad[s[i + 1]] >= a
  BY <1>3, <1>5, Zenon DEF StopsAt
<1> QED  BY <1>5, <1>6, <1>7, Zenon DEF s, Belongs

\* A MemBlock that is in no list is pushed on the front of one.
LEMMA LinksPush ==
  ASSUME NEW n, NEW L, NEW w, Links(n, L, w), NEW b \in Blocks, w[b] = NULL, NEW h \in Heads
  PROVE  Links(ListAdd(n, h, b), [L EXCEPT ![h] = Ins(L[h], 0, b)], [w EXCEPT ![b] = h])
<1>1. 0 \in 0 .. Len(L[h])
  BY NodeFacts
<1>2. NodeAt(h, L[h], 0) = h
  BY Zenon DEF NodeAt
<1>3. Links(ListAdd(n, NodeAt(h, L[h], 0), b),
            [L EXCEPT ![h] = Ins(L[h], 0, b)], [w EXCEPT ![b] = h])
  BY <1>1, LinksAdd, Zenon
<1> QED  BY <1>2, <1>3, Zenon

\* The front of a list is taken out of it.
LEMMA LinksPop ==
  ASSUME NEW n, NEW L, NEW w, Links(n, L, w), NEW h \in Heads, L[h] # <<>>
  PROVE  Links(ListRemove(n, h), [L EXCEPT ![h] = Del(L[h], 0)], [w EXCEPT ![L[h][1]] = NULL])
<1>1. 0 \in 0 .. Len(L[h]) - 1 /\ 0 + 1 = 1
  BY FirstOf
<1>2. NodeAt(h, L[h], 0) = h
  BY Zenon DEF NodeAt
<1>3. Links(ListRemove(n, NodeAt(h, L[h], 0)),
            [L EXCEPT ![h] = Del(L[h], 0)], [w EXCEPT ![L[h][0 + 1]] = NULL])
  BY <1>1, LinksRemove, Zenon
<1> QED  BY <1>1, <1>2, <1>3, Zenon

\* ReqMemBlock takes the front MemBlock out of the pool.
LEMMA LinksReq ==
  ASSUME NEW n, NEW L, NEW w, Links(n, L, w), L[POOL] # <<>>
  PROVE  /\ ReqMemBlock(n) = L[POOL][1] /\ L[POOL][1] \in Blocks /\ w[L[POOL][1]] = POOL
         /\ Links(AfterReqMemBlock(n), [L EXCEPT ![POOL] = Del(L[POOL], 0)],
                  [w EXCEPT ![L[POOL][1]] = NULL])
<1>1. POOL \in Heads
  BY Addresses, Zenon
<1>2. /\ ~ IsListEmpty(n, POOL) /\ n[POOL] = L[POOL][1]
      /\ L[POOL][1] \in Blocks /\ w[L[POOL][1]] = POOL
  BY <1>1, FirstOf, Zenon
<1>3. Links(ListRemove(n, POOL), [L EXCEPT ![POOL] = Del(L[POOL], 0)],
            [w EXCEPT ![L[POOL][1]] = NULL])
  BY <1>1, LinksPop, Zenon
<1> QED  BY <1>2, <1>3, Zenon DEF ReqMemBlock, AfterReqMemBlock

\* A MemBlock out of the pool is pushed on the front of another list.
LEMMA LinksMake ==
  ASSUME NEW n, NEW L, NEW w, Links(n, L, w), L[POOL] # <<>>, NEW h \in Heads \ {POOL}
  PROVE  Links(ListAdd(AfterReqMemBlock(n), h, L[POOL][1]),
               [L EXCEPT ![POOL] = Del(L[POOL], 0), ![h] = Ins(L[h], 0, L[POOL][1])],
               [w EXCEPT ![L[POOL][1]] = h])
<1> DEFINE b == L[POOL][1]
           n1 == AfterReqMemBlock(n)
           L1 == [L EXCEPT ![POOL] = Del(L[POOL], 0)]
           w1 == [w EXCEPT ![b] = NULL]
<1>1. b \in Blocks /\ Links(n1, L1, w1) /\ h \in Heads /\ h # POOL /\ POOL \in Heads
  BY LinksReq, Addresses, Zenon
<1>2. L \in [Heads -> Seq(Blocks)] /\ w \in [Blocks -> Heads \cup {NULL}]
  BY Zenon DEF Links
<1>3. w1[b] = NULL /\ L1[h] = L[h]
  BY <1>1, <1>2, Zenon
<1> HIDE DEF n1, L1, w1
<1>4. Links(ListAdd(n1, h, b), [L1 EXCEPT ![h] = Ins(L1[h], 0, b)], [w1 EXCEPT ![b] = h])
  BY <1>1, <1>3, LinksPush, Zenon
<1>5. [L1 EXCEPT ![h] = Ins(L1[h], 0, b)]
        = [L EXCEPT ![POOL] = Del(L[POOL], 0), ![h] = Ins(L[h], 0, b)]
  BY <1>1, <1>2, <1>3, Zenon DEF L1
<1>6. [w1 EXCEPT ![b] = h] = [w EXCEPT ![b] = h]
  BY <1>1, <1>2, Zenon DEF w1
<1> QED  BY <1>4, <1>5, <1>6, Zenon DEF n1

\* The addresses ad of the members of s rise; but for what comes after member q.
Rising(s, ad) == \A u, v \in 1 .. Len(s) : u < v => ad[s[u]] < ad[s[v]]

RisingBut(s, ad, q) ==
    \A u, v \in 1 .. Len(s) : u < v /\ u # q => ad[s[u]] < ad[s[v]]

\* None of the addresses is a.
Apart(s, ad, a) == \A u \in 1 .. Len(s) : ad[s[u]] \in Nat /\ ad[s[u]] # a

\* A block inserted where it belongs keeps the addresses rising.
LEMMA RisingIns ==
  ASSUME NEW r \in Seq(Blocks), NEW ad, NEW b \in Blocks, NEW a \in Nat, a = ad[b],
         NEW k \in 0 .. Len(r), Belongs(r, ad, a, k), Rising(r, ad), Apart(r, ad, a)
  PROVE  Rising(Ins(r, k, b), ad)
<1> DEFINE t == Ins(r, k, b)
<1>1. Len(r) \in Nat /\ k \in Nat /\ Len(t) = Len(r) + 1
  BY InsDel
<1>2. \A q \in 1 .. Len(t) :
        /\ q <= k => t[q] = r[q] /\ q \in 1 .. Len(r)
        /\ q = k + 1 => t[q] = b
        /\ q > k + 1 => t[q] = r[q - 1] /\ q - 1 \in 1 .. Len(r) /\ q - 1 > k
  BY <1>1 DEF Ins
<1> HIDE DEF t
<1>3. ASSUME NEW u \in 1 .. Len(r), u <= k PROVE ad[r[u]] < a
  <2>1. u \in 1 .. k
    BY <1>1, <1>3
  <2> QED  BY <2>1, Zenon DEF Belongs
<1>4. ASSUME NEW u \in 1 .. Len(r), u > k PROVE a < ad[r[u]]
  <2>1. k < Len(r) /\ k + 1 \in 1 .. Len(r)
    BY <1>1, <1>4
  <2>2. /\ ad[r[k + 1]] >= a /\ ad[r[k + 1]] \in Nat /\ ad[r[k + 1]] # a
        /\ ad[r[u]] \in Nat
    BY <2>1, Zenon DEF Belongs, Apart
  <2>3. u = k + 1 \/ k + 1 < u
    BY <1>1, <1>4
  <2>4. k + 1 < u => ad[r[k + 1]] < ad[r[u]]
    BY <2>1, Zenon DEF Rising
  <2> QED  BY <2>2, <2>3, <2>4
<1>5. ASSUME NEW u \in 1 .. Len(t), NEW v \in 1 .. Len(t), u < v PROVE ad[t[u]] < ad[t[v]]
  <2>1. u \in Nat /\ v \in Nat
    BY <1>1
  <2>2. CASE v <= k
    <3>1. u <= k
      BY <1>1, <1>5, <2>1, <2>2
    <3> QED  BY <1>2, <1>5, <2>2, <3>1, Zenon DEF Rising
  <2>3. CASE v = k + 1
    <3>1. u <= k
      BY <1>1, <1>5, <2>1, <2>3
    <3> QED  BY <1>2, <1>3, <2>3, <3>1, Zenon
  <2>4. CASE v > k + 1 /\ u <= k
    <3>1. ad[t[u]] < a /\ a < ad[t[v]]
      BY <1>2, <1>3, <1>4, <2>4, Zenon
    <3>2. ad[t[u]] \in Nat /\ ad[t[v]] \in Nat
      BY <1>2, <2>4, Zenon DEF Apart
    <3> QED  BY <3>1, <3>2
  <2>5. CASE v > k + 1 /\ u = k + 1
    BY <1>2, <1>4, <2>5, Zenon
  <2>6. CASE v > k + 1 /\ u > k + 1
    <3>1. u - 1 < v - 1
      BY <1>5, <2>1
    <3>2. t[u] = r[u - 1] /\ u - 1 \in 1 .. Len(r) /\ t[v] = r[v - 1] /\ v - 1 \in 1 .. Len(r)
      BY <1>2, <2>6, Zenon
    <3> QED  BY <3>1, <3>2, Zenon DEF Rising
  <2>7. v <= k \/ v = k + 1 \/ (v > k + 1 /\ (u <= k \/ u = k + 1 \/ u > k + 1))
    BY <1>1, <2>1
  <2> QED  BY <2>2, <2>3, <2>4, <2>5, <2>6, <2>7, Zenon
<1> QED  BY <1>5, Zenon DEF Rising, t

\* Without the block that was out of place the addresses rise.
LEMMA RisingDel ==
  ASSUME NEW s \in Seq(Blocks), NEW ad, NEW i \in 0 .. Len(s), i < Len(s),
         RisingBut(s, ad, i + 1)
  PROVE  Rising(Del(s, i), ad)
<1> DEFINE t == Del(s, i)
           at(q) == IF q <= i THEN q ELSE q + 1
<1>1. Len(s) \in Nat /\ i \in Nat /\ Len(t) = Len(s) - 1
  BY InsDel
<1>2. ASSUME NEW q \in 1 .. Len(t) PROVE t[q] = s[at(q)]
  BY <1>1 DEF Del
<1> HIDE DEF t
<1>3. ASSUME NEW u \in 1 .. Len(t), NEW v \in 1 .. Len(t), u < v
      PROVE  at(u) \in 1 .. Len(s) /\ at(v) \in 1 .. Len(s) /\ at(u) < at(v) /\ at(u) # i + 1
  BY <1>1, <1>3
<1> HIDE DEF at
<1> QED  BY <1>2, <1>3, Zenon DEF Rising, RisingBut, t

\* The links n hold sorted lists, of which only those of g and h are not as in L.
Moved(n, L, ad, v, g, h) ==
    \E M : Links(n, M, v) /\ Sorted(M, ad, NULL) /\ \A f \in Heads \ {g, h} : M[f] = L[f]

\* A block b is taken out of list g and inserted where it belongs in list h:
\* the lists are sorted then, whatever the place of b was before.
LEMMA Transfer ==
  ASSUME NEW n, NEW L, NEW w, Links(n, L, w), NEW ad \in [Mem -> Nat],
         NEW g \in Heads \ {POOL}, NEW h \in Heads \ {POOL}, g # h,
         NEW i \in 0 .. Len(L[g]) - 1, NEW b, b = L[g][i + 1],
         \A c \in Blocks : w[c] = h => ad[c] # ad[b],
         Sorted(L, ad, b)
  PROVE  Moved(Insert(ListRemove(n, NodeAt(g, L[g], i)), ad, h, b, ad[b]),
               L, ad, [w EXCEPT ![b] = h], g, h)
<1> DEFINE n1 == ListRemove(n, NodeAt(g, L[g], i))
           s == L[g]
           L1 == [L EXCEPT ![g] = Del(L[g], i)]
           w1 == [w EXCEPT ![b] = NULL]
           a == ad[b]
           r == L[h]
           stop == [p \in DOMAIN n1 |-> n1[p] = h \/ ad[n1[p]] >= a]
<1>1. /\ L \in [Heads -> Seq(Blocks)] /\ w \in [Blocks -> Heads \cup {NULL}]
      /\ s \in Seq(Blocks) /\ Len(s) \in Nat /\ r \in Seq(Blocks) /\ Len(r) \in Nat
      /\ Distinct(s)
  BY DEF Links
<1>2. i \in 0 .. Len(s) /\ i + 1 \in 1 .. Len(s) /\ b \in Blocks /\ w[b] = g
  <2>1. i \in 0 .. Len(s) /\ i + 1 \in 1 .. Len(s) /\ i + 1 \in 0 .. Len(s) + 1
    BY <1>1
  <2> QED  BY <2>1, NodeFacts
<1>3. Links(n1, L1, w1)
  BY LinksRemove, Zenon
<1>4. L1[h] = r /\ w1[b] = NULL /\ a \in Nat /\ b \in Mem
  BY <1>1, <1>2, Zenon DEF Mem
<1> HIDE DEF n1, L1, w1
<1>5. PICK k \in 0 .. Len(L1[h]) :
        Walk(n1, h, stop) = NodeAt(h, L1[h], k) /\ Belongs(L1[h], ad, a, k)
  <2> HIDE DEF a, stop
  <2>1. stop = [p \in DOMAIN n1 |-> n1[p] = h \/ ad[n1[p]] >= a]
    BY Zenon DEF stop
  <2> QED  BY <1>3, <1>4, <2>1, WalkSorted, Zenon
<1> DEFINE M == [L1 EXCEPT ![h] = Ins(L1[h], k, b)]
           t == Ins(r, k, b)
<1>6. Links(Insert(n1, ad, h, b, a), M, [w1 EXCEPT ![b] = h])
  <2>1. Insert(n1, ad, h, b, a) = ListAdd(n1, NodeAt(h, L1[h], k), b)
    BY <1>5, Zenon DEF Insert
  <2> QED  BY <1>2, <1>3, <1>4, <2>1, LinksAdd, SMTT(40)
<1>7. [w1 EXCEPT ![b] = h] = [w EXCEPT ![b] = h]
  BY <1>1, <1>2, Zenon DEF w1
<1>8. /\ M[h] = t /\ M[g] = Del(s, i)
      /\ \A f \in Heads \ {g, h} : M[f] = L[f]
  BY <1>1, <1>4, Zenon DEF L1
<1>9. Rising(t, ad)
  <2>1. Apart(r, ad, a)
    <3>1. ASSUME NEW u \in 1 .. Len(r) PROVE ad[r[u]] \in Nat /\ ad[r[u]] # a
      <4>1. r[u] \in Blocks
        BY <1>1
      <4>2. w[r[u]] = h
        BY Zenon DEF Links
      <4> QED  BY <4>1, <4>2, Zenon DEF Mem
    <3> QED  BY <3>1, Zenon DEF Apart
  <2>2. Rising(r, ad)
    <3>1. ASSUME NEW u \in 1 .. Len(r) PROVE r[u] # b
      BY <1>2, ZenonT(40) DEF Links
    <3> QED  BY <3>1, Zenon DEF Rising, Sorted
  <2>3. k \in 0 .. Len(r) /\ Belongs(r, ad, a, k)
    BY <1>4, <1>5, Zenon
  <2> HIDE DEF a, r
  <2> QED  BY <1>1, <1>2, <1>4, <2>1, <2>2, <2>3, RisingIns, Zenon DEF a
<1>10. Rising(Del(s, i), ad)
  <2>1. i < Len(s)
    BY <1>1
  <2>2. RisingBut(s, ad, i + 1)
    BY <1>2, Zenon DEF RisingBut, Sorted, Distinct, Links
  <2> HIDE DEF s
  <2> QED  BY <1>1, <1>2, <2>1, <2>2, RisingDel, Zenon
<1>11. Sorted(M, ad, NULL)
  <2> SUFFICES ASSUME NEW f \in Heads \ {POOL},
                      NEW u \in 1 .. Len(M[f]), NEW v \in 1 .. Len(M[f]), u < v
               PROVE  ad[M[f][u]] < ad[M[f][v]]
    BY Zenon DEF Sorted
  <2>1. CASE f = h
    BY <1>8, <1>9, <2>1, Zenon DEF Rising
  <2>2. CASE f = g
    BY <1>8, <1>10, <2>2, Zenon DEF Rising
  <2>3. CASE f \notin {g, h}
    <3>1. M[f] = L[f]
      BY <1>8, <2>3, Zenon
    <3>2. u \in 1 .. Len(L[f])
      BY <3>1, Zenon
    <3> HIDE DEF M
    <3>3. w[L[f][u]] = f
      BY <3>2, Zenon DEF Links
    <3>4. L[f][u] # b
      BY <1>2, <2>3, <3>3, Zenon
    <3> QED  BY <3>1, <3>4, Zenon DEF Sorted
  <2> QED  BY <2>1, <2>2, <2>3, Zenon
<1> HIDE DEF M
<1> QED  BY <1>6, <1>7, <1>8, <1>11, Zenon DEF n1, Moved

\* Every block has a size, and so has the reserved memory.
LEMMA BlockSizes ==
  /\ \A h \in Heads : GetMemBlockSize(h[2]) \in Nat \ {0}
  /\ \A k \in Types : k \in Nat /\ GetMemBlockSize(k) \in Nat \ {0}
  /\ reserved_size \in Nat \ {0}
  /\ kMemBlockTypeNum \in Nat \ {0} /\ Area \in Nat /\ PoolSize \in Nat \ {0}
<1>1. \A k \in Types : k \in Nat /\ GetMemBlockSize(k) \in Nat \ {0}
  BY AllocatorAssumption, SizeDoubles DEF Types
<1>2. GetMemBlockSize(POOL[2]) \in Nat \ {0}
  BY SizeDoubles, Zenon DEF POOL
<1>3. \A h \in Heads : GetMemBlockSize(h[2]) \in Nat \ {0}
  BY <1>1, <1>2, Addresses
<1>4. reserved_size \in Nat \ {0}
  BY <1>1, TypeOf, Zenon DEF reserved_size
<1> QED  BY <1>1, <1>3, <1>4, AllocatorAssumption, Zenon

\* The multiples of a size are among those of half of it, and so is the middle
\* between two of them.
LEMMA GridHalves ==
  ASSUME NEW k \in Nat, NEW a, OnGrid(a, k + 1)
  PROVE  OnGrid(a, k) /\ OnGrid(a + GetMemBlockSize(k), k)
<1> DEFINE s == GetMemBlockSize(k)
           r == reserved_size
<1>1. s \in Nat /\ GetMemBlockSize(k + 1) = 2 * s /\ r \in Nat
  BY SizeDoubles, BlockSizes, Zenon
<1>2. PICK m \in Nat : a = r + m * GetMemBlockSize(k + 1)
  BY Zenon DEF OnGrid
<1> HIDE DEF s, r
<1>3. 2 * m \in Nat /\ 2 * m + 1 \in Nat /\ a = r + (2 * m) * s /\ a + s = r + (2 * m + 1) * s
  BY <1>1, <1>2
<1> QED  BY <1>3, Zenon DEF OnGrid, s, r

\* The grid starts at the end of the reserved memory and goes on from block to
\* block.
LEMMA GridNext ==
  ASSUME NEW k \in Nat
  PROVE  /\ OnGrid(reserved_size, k)
         /\ \A a : OnGrid(a, k) => OnGrid(a + GetMemBlockSize(k), k)
<1> DEFINE s == GetMemBlockSize(k)
           r == reserved_size
<1>1. s \in Nat /\ r \in Nat
  BY SizeDoubles, BlockSizes, Zenon
<1>2. OnGrid(r, k)
  <2>1. r = r + 0 * s
    BY <1>1
  <2> QED  BY <2>1, Zenon DEF OnGrid
<1>3. ASSUME NEW a, OnGrid(a, k) PROVE OnGrid(a + s, k)
  <2>1. PICK m \in Nat : a = r + m * s
    BY <1>3, Zenon DEF OnGrid
  <2> HIDE DEF s, r
  <2>2. m + 1 \in Nat /\ a + s = r + (m + 1) * s
    BY <1>1, <2>1
  <2> QED  BY <2>2, Zenon DEF OnGrid, s, r
<1> QED  BY <1>2, <1>3, Zenon

\* Only the blocks in S move, to lists of type k and to addresses on its grid.
GridMove(ad, w, ad2, v, S, k) ==
    \A c \in Blocks : IF c \in S THEN v[c] \in {Free(k), Alloc(k)} /\ OnGrid(ad2[c], k)
                                 ELSE v[c] = w[c] /\ ad2[c] = ad[c]

\* Such a move leaves every block on the grid of its type.
LEMMA GridKept ==
  ASSUME NEW ad, NEW w, NEW ad2, NEW v, NEW S, NEW k \in Types,
         Gridded(ad, w), GridMove(ad, w, ad2, v, S, k)
  PROVE  Gridded(ad2, v)
<1> SUFFICES ASSUME NEW c \in Blocks, NEW j \in Types, v[c] \in {Free(j), Alloc(j)},
                    v[c] = Alloc(j) => ad2[c] # 0
             PROVE  OnGrid(ad2[c], j)
  BY Addresses, Zenon DEF Gridded
<1>1. CASE c \in S
  <2>1. j = k
    BY <1>1, Addresses DEF GridMove
  <2> QED  BY <1>1, <2>1, Zenon DEF GridMove
<1>2. CASE c \notin S
  BY <1>2, Zenon DEF Gridded, GridMove
<1> QED  BY <1>1, <1>2, Zenon

\* What MemBlockPoolInit links: every MemBlock in the pool, the last one first.
LEMMA PoolLinks ==
  ASSUME Counted(Mem)
  PROVE  \E L, w : /\ Links(MemBlockPoolInit, L, w) /\ L[POOL] # <<>>
                   /\ \A h \in Heads \ {POOL} : L[h] = <<>>
                   /\ \A b \in Blocks : w[b] = POOL
<1> DEFINE n == MemBlockPoolInit
           s == [i \in 1 .. PoolSize |-> Block((PoolSize + 1) - i)]
           L == [h \in Heads |-> IF h = POOL THEN s ELSE <<>>]
           w == [b \in Blocks |-> POOL]
<1>1. PoolSize \in Nat \ {0}
  BY BlockSizes, Zenon
<1>2. \A i \in 1 .. PoolSize : Block(i) \in Blocks /\ Block(i)[2] = i
  BY Zenon DEF Blocks, Block
<1>3. /\ s \in Seq(Blocks) /\ Len(s) = PoolSize
      /\ \A i \in 1 .. PoolSize : s[i] = Block((PoolSize + 1) - i)
  <2>1. \A i \in 1 .. PoolSize : s[i] \in Blocks
    BY <1>1, <1>2
  <2> QED  BY <1>1, <2>1
<1>4. \A a \in Mem :
        /\ a = POOL => n[a] = Block(PoolSize)
        /\ a \in Blocks => n[a] = IF a[2] = 1 THEN POOL ELSE Block(a[2] - 1)
        /\ a \in Heads \ {POOL} => n[a] = a
        /\ a \notin Blocks \cup Heads => n[a] = NULL
  <2>1. n = [a \in Mem |->
               IF a = POOL /\ PoolSize > 0 THEN Block(PoolSize)
               ELSE IF a \in Blocks THEN IF a[2] = 1 THEN POOL ELSE Block(a[2] - 1)
               ELSE IF a \in Heads THEN a ELSE NULL]
    BY Zenon DEF MemBlockPoolInit, Mem
  <2>2. PoolSize > 0
    BY <1>1
  <2> HIDE DEF n
  <2> QED  BY <2>1, <2>2, Addresses, Zenon
<1>5. n \in [Mem -> Mem]
  <2>1. \A a \in Mem : n[a] \in Mem
    <3> TAKE a \in Mem
    <3>1. CASE a \in Blocks
      <4>1. PICK i \in 1 .. PoolSize : a = Block(i)
        BY <3>1, Zenon DEF Blocks
      <4>2. i # 1 => i - 1 \in 1 .. PoolSize
        BY <1>1
      <4>3. a[2] = i
        BY <1>2, <4>1, Zenon
      <4> QED  BY <1>2, <1>4, <3>1, <4>2, <4>3, Addresses DEF Mem
    <3>2. CASE a = POOL
      BY <1>1, <1>2, <1>4, <3>2 DEF Mem
    <3>3. CASE a \in Heads \ {POOL}
      BY <1>4, <3>3, Zenon
    <3>4. CASE a \notin Blocks \cup Heads
      BY <1>4, <3>4, Zenon DEF Mem
    <3> QED  BY <3>1, <3>2, <3>3, <3>4, Zenon
  <2> QED  BY <2>1, Zenon DEF MemBlockPoolInit, Mem
<1> HIDE DEF n, s
<1>6. L[POOL] = s /\ \A h \in Heads \ {POOL} : L[h] = <<>>
  BY Addresses, Zenon
<1>7. L \in [Heads -> Seq(Blocks)]
  BY <1>3
<1>8. \A b \in Blocks : w[b] = POOL
  OBVIOUS
<1>9. w \in [Blocks -> Heads \cup {NULL}]
  BY Addresses, Zenon
<1> HIDE DEF L, w
<1>10. Distinct(s)
  <2> SUFFICES ASSUME NEW i \in 1 .. PoolSize, NEW j \in 1 .. PoolSize, s[i] = s[j] PROVE i = j
    BY <1>3, Zenon DEF Distinct
  <2>1. (PoolSize + 1) - i \in 1 .. PoolSize /\ (PoolSize + 1) - j \in 1 .. PoolSize
    BY <1>1
  <2>2. Block((PoolSize + 1) - i)[2] = (PoolSize + 1) - i /\ Block((PoolSize + 1) - j)[2] = (PoolSize + 1) - j
    BY <1>2, <2>1, Zenon
  <2>3. (PoolSize + 1) - i = (PoolSize + 1) - j
    BY <1>3, <2>2, Zenon
  <2> QED  BY <1>1, <2>3
<1>11. Chain(n, POOL, s)
  <2> SUFFICES ASSUME NEW i \in 0 .. PoolSize
               PROVE  n[NodeAt(POOL, s, i)] = NodeAt(POOL, s, i + 1)
    BY <1>3, Zenon DEF Chain
  <2>1. CASE i = 0
    <3>1. NodeAt(POOL, s, 0) = POOL /\ NodeAt(POOL, s, 1) = s[1]
      BY <1>1, <1>3 DEF NodeAt
    <3>2. s[1] = Block(PoolSize)
      BY <1>1, <1>3
    <3> QED  BY <1>4, <2>1, <3>1, <3>2, Addresses DEF Mem
  <2>2. CASE i # 0
    <3> DEFINE x == (PoolSize + 1) - i
    <3>1. x \in 1 .. PoolSize /\ i \in 1 .. PoolSize
      BY <1>1, <2>2
    <3>2. NodeAt(POOL, s, i) = Block(x)
      BY <1>1, <1>3, <3>1 DEF NodeAt
    <3>3. Block(x) \in Blocks /\ Block(x)[2] = x
      BY <1>2, <3>1, Zenon
    <3>4. n[Block(x)] = IF x = 1 THEN POOL ELSE Block(x - 1)
      BY <1>4, <3>3, Zenon DEF Mem
    <3>5. CASE i = PoolSize
      <4>1. x = 1 /\ NodeAt(POOL, s, i + 1) = POOL
        BY <1>1, <1>3, <3>5 DEF NodeAt
      <4> QED  BY <3>2, <3>4, <4>1, Zenon
    <3>6. CASE i # PoolSize
      <4>1. x # 1 /\ i + 1 \in 1 .. PoolSize /\ (PoolSize + 1) - (i + 1) = x - 1
        BY <1>1, <3>1, <3>6
      <4>2. NodeAt(POOL, s, i + 1) = Block(x - 1)
        <5> HIDE DEF x
        <5>1. NodeAt(POOL, s, i + 1) = s[i + 1]
          BY <1>1, <1>3, <4>1 DEF NodeAt
        <5>2. s[i + 1] = Block((PoolSize + 1) - (i + 1))
          BY <1>3, <4>1, Zenon
        <5> QED  BY <4>1, <5>1, <5>2, Zenon
      <4> QED  BY <3>2, <3>4, <4>1, <4>2, Zenon
    <3> QED  BY <3>5, <3>6, Zenon
  <2> QED  BY <2>1, <2>2, Zenon
<1>12. \A h \in Heads \ {POOL} : Distinct(<<>>) /\ Chain(n, h, <<>>)
  <2> TAKE h \in Heads \ {POOL}
  <2>1. n[h] = h
    BY <1>4, Zenon DEF Mem
  <2>2. Len(<<>>) = 0
    OBVIOUS
  <2>3. Distinct(<<>>)
    BY <2>2 DEF Distinct
  <2>4. \A i \in 0 .. 0 : n[NodeAt(h, <<>>, i)] = NodeAt(h, <<>>, i + 1)
    BY <2>1, <2>2 DEF NodeAt
  <2>5. Chain(n, h, <<>>)
    BY <2>2, <2>4, Zenon DEF Chain
  <2> QED  BY <2>3, <2>5, Zenon
<1>13. \A h \in Heads : \A i \in 1 .. Len(L[h]) : w[L[h][i]] = h
  <2> TAKE h \in Heads
  <2> TAKE i \in 1 .. Len(L[h])
  <2>1. CASE h = POOL
    BY <1>3, <1>6, <1>8, <2>1
  <2>2. CASE h # POOL
    BY <1>6, <2>2
  <2> QED  BY <2>1, <2>2, Zenon
<1>14. \A b \in Blocks : \E i \in 1 .. Len(L[POOL]) : L[POOL][i] = b
  <2> TAKE b \in Blocks
  <2>1. PICK x \in 1 .. PoolSize : b = Block(x)
    BY Zenon DEF Blocks
  <2>2. (PoolSize + 1) - x \in 1 .. PoolSize /\ (PoolSize + 1) - ((PoolSize + 1) - x) = x
    BY <1>1
  <2>3. s[(PoolSize + 1) - x] = b
    BY <1>3, <2>1, <2>2, Zenon
  <2> QED  BY <1>3, <1>6, <2>2, <2>3, Zenon
<1>15. Links(n, L, w)
  <2>1. \A h \in Heads : Distinct(L[h]) /\ Chain(n, h, L[h])
    BY <1>6, <1>10, <1>11, <1>12, Zenon
  <2> QED  BY <1>5, <1>7, <1>8, <1>9, <1>13, <1>14, <2>1, Zenon DEF Links
<1>16. L[POOL] # <<>>
  BY <1>1, <1>3, <1>6, Zenon
<1> QED  BY <1>6, <1>8, <1>15, <1>16, Zenon DEF n

\* The list operations keep the links of the memory in it.
LEMMA ListType ==
  ASSUME NEW n \in [Mem -> Mem], NEW p \in Mem, NEW b \in Mem
  PROVE  /\ ListAdd(n, p, b) \in [Mem -> Mem] /\ ListRemove(n, p) \in [Mem -> Mem]
         /\ ReqMemBlock(n) \in Mem /\ AfterReqMemBlock(n) \in [Mem -> Mem]
         /\ n[p] \in Mem
<1>1. NULL \in Mem /\ POOL \in Mem /\ ZERO \in Mem
  BY Addresses, Zenon DEF Mem
<1>2. \A q \in Mem : n[q] \in Mem /\ n[n[q]] \in Mem
  OBVIOUS
<1>3. ListAdd(n, p, b) \in [Mem -> Mem]
  BY <1>2, Zenon DEF ListAdd
<1>4. \A q \in Mem : ListRemove(n, q) \in [Mem -> Mem]
  BY <1>1, <1>2, Zenon DEF ListRemove
<1> QED  BY <1>1, <1>2, <1>3, <1>4, Zenon DEF ReqMemBlock, AfterReqMemBlock

\* The memory that DivBlock works on.
Memories == [next : [Mem -> Mem], addr : [Mem -> Nat]]

-----------------------------------------------------------------------------
(* What ReqBytes and RelBytes have in common.                              *)

\* What is well is well but for the place of any block.
LEMMA ShapeBut ==
  ASSUME NEW n, NEW ad, NEW L, NEW w, NEW x, Shape(n, ad, L, w, NULL)
  PROVE  Shape(n, ad, L, w, x)
<1>1. Sorted(L, ad, x)
  <2>1. \A h \in Heads : \A i \in 1 .. Len(L[h]) : L[h][i] # NULL
    <3>1. \A h \in Heads : L[h] \in Seq(Blocks)
      BY Zenon DEF Shape, Links
    <3> QED  BY <3>1, Addresses
  <2> QED  BY <2>1, Zenon DEF Shape, Sorted
<1>2. Calm(ad, w, x)
  <2>1. NULL \notin Blocks
    BY Addresses, Zenon
  <2> QED  BY <2>1, Zenon DEF Shape, Calm
<1> QED  BY <1>1, <1>2, Zenon DEF Shape

\* Min of a set of numbers.
LEMMA MinOf ==
  ASSUME NEW S, S \subseteq Nat, S # {}
  PROVE  Min(S) \in S /\ \A x \in S : Min(S) <= x
<1>1. \E x \in S : \A y \in S : x <= y
  BY Least, Zenon
<1> QED  BY <1>1, Zenon DEF Min

\* The blocks of w are at the same places in v, block b alone at its address.
Relabelled(ad, w, v, b, e) ==
    /\ \A x, y \in Blocks :
         v[x] # POOL /\ v[y] # POOL /\ x # y =>
           ad[x] + SizeAt(v, x) <= ad[y] \/ ad[y] + SizeAt(v, y) <= ad[x]
    /\ Covered(ad, v, e)
    /\ \A c \in Blocks : w[c] # POOL /\ c # b =>
         /\ ad[c] # ad[b]
         /\ ad[c] + SizeAt(w, c) <= ad[b] \/ ad[b] + SizeAt(w, b) <= ad[c]

\* A block that changes lists and not its type covers what it covered, and no
\* other block has its address.
LEMMA Relabel ==
  ASSUME NEW ad \in [Mem -> Nat], NEW w \in [Blocks -> Heads], NEW b \in Blocks,
         NEW h \in Heads \ {POOL}, w[b] # POOL, w[b][2] = h[2], NEW e,
         Placed(ad, w), Covered(ad, w, e), NEW v, v = [w EXCEPT ![b] = h]
  PROVE  Relabelled(ad, w, v, b, e)
<1>1. \A x \in Blocks : /\ SizeAt(v, x) = SizeAt(w, x) /\ (v[x] # POOL <=> w[x] # POOL)
                       /\ ad[x] \in Nat /\ SizeAt(w, x) \in Nat \ {0}
  <2> TAKE x \in Blocks
  <2>1. v[x] = IF x = b THEN h ELSE w[x]
    OBVIOUS
  <2>2. x \in Mem /\ w[x] \in Heads
    BY Zenon DEF Mem
  <2> QED  BY <2>1, <2>2, BlockSizes, Zenon DEF SizeAt
<1>2. Covered(ad, v, e)
  BY <1>1, Zenon DEF Covered
<1>3. \A x, y \in Blocks :
        v[x] # POOL /\ v[y] # POOL /\ x # y =>
          ad[x] + SizeAt(v, x) <= ad[y] \/ ad[y] + SizeAt(v, y) <= ad[x]
  BY <1>1, Zenon DEF Placed
<1>4. ASSUME NEW c \in Blocks, w[c] # POOL, c # b
      PROVE  /\ ad[c] # ad[b]
             /\ ad[c] + SizeAt(w, c) <= ad[b] \/ ad[b] + SizeAt(w, b) <= ad[c]
  <2>1. ad[c] + SizeAt(w, c) <= ad[b] \/ ad[b] + SizeAt(w, b) <= ad[c]
    BY <1>4, Zenon DEF Placed
  <2> QED  BY <1>1, <2>1
<1> QED  BY <1>2, <1>3, <1>4, Zenon DEF Relabelled

\* The state of the lists between two calls, with the blocks below e covered.
Settled(n, ad, e, hd) ==
    \E L, w : Shape(n, ad, L, w, NULL) /\ Covered(ad, w, e) /\ InUse(ad, w, hd)

\* A call that is not refused leaves the invariant true.
LEMMA Onward ==
  ASSUME NEW L, NEW w, Whole(L, w), ~ Filling, fill' = fill, failed' = 0,
         Settled(next', addr', fill.i, held')
  PROVE  AllocatorInv'
<1>1. PICK M, v : /\ Shape(next', addr', M, v, NULL) /\ Covered(addr', v, fill.i)
                  /\ InUse(addr', v, held')
  BY Zenon DEF Settled
<1>2. FillInv(addr, M, v)'
  BY Zenon DEF Whole, FillInv, Filling
<1>3. Refused(v)'
  BY Zenon DEF Refused
<1>4. Whole(M, v)'
  BY <1>1, <1>2, <1>3, Zenon DEF Whole
<1> QED  BY <1>4, Zenon DEF AllocatorInv

=============================================================================
