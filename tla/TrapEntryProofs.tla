-------------------------- MODULE TrapEntryProofs ---------------------------
(***************************************************************************)
(* Proofs about TrapEntry, for any number of threads, any vectors and any  *)
(* depth of nesting: interrupts are invisible to the code they interrupt,  *)
(* and handlers find the struct they expect.  First come the frames: what  *)
(* an interrupt leaves on a stack, how frames lie above each other, and    *)
(* what pushing and popping do to them.                                    *)
(***************************************************************************)
EXTENDS TrapEntry, TLAPS

-----------------------------------------------------------------------------
(* Sequences of whatever they hold.                                         *)

\* Sequences over S are the functions on some 1 .. n to it.
LEMMA SeqOver ==
  \A S, s : s \in Seq(S) <=> \E n \in Nat : s \in [1 .. n -> S]
OBVIOUS

\* The length, the positions and the members of a sequence over S, which is
\* also one over any larger set.
LEMMA SeqParts ==
  ASSUME NEW S, NEW s \in Seq(S)
  PROVE  /\ Len(s) \in Nat /\ DOMAIN s = 1 .. Len(s) /\ s \in [1 .. Len(s) -> S]
         /\ \A i \in 1 .. Len(s) : s[i] \in S
         /\ \A T : S \subseteq T => s \in Seq(T)
OBVIOUS

\* The empty sequence.
LEMMA SeqEmpty ==
  ASSUME NEW S
  PROVE  /\ <<>> \in Seq(S) /\ Len(<<>>) = 0
         /\ \A s \in Seq(S) : s \o <<>> = s /\ (Len(s) = 0 => s = <<>>)
OBVIOUS

\* The part of a sequence from m to n.
LEMMA SeqPart ==
  ASSUME NEW S, NEW s, NEW m \in Int, NEW n \in Int, \A i \in m .. n : s[i] \in S
  PROVE  /\ SubSeq(s, m, n) \in Seq(S)
         /\ Len(SubSeq(s, m, n)) = IF m <= n THEN n - m + 1 ELSE 0
         /\ \A i \in 1 .. n - m + 1 : SubSeq(s, m, n)[i] = s[m + i - 1]
OBVIOUS

IsSeq(s) == s \in Seq(Range(s))

\* A sequence over some set is one over its range.
LEMMA SeqSelf == ASSUME NEW S, NEW s \in Seq(S) PROVE IsSeq(s)
<1>1. Len(s) \in Nat /\ s \in [1 .. Len(s) -> S] /\ DOMAIN s = 1 .. Len(s)
  BY SeqParts, Zenon
<1>2. s \in [1 .. Len(s) -> Range(s)]
  BY <1>1, Zenon DEF Range
<1> QED BY <1>1, <1>2, SeqOver, Zenon DEF IsSeq

\* What is known of a sequence.
LEMMA SeqFacts ==
  ASSUME NEW s, IsSeq(s)
  PROVE  Len(s) \in Nat /\ DOMAIN s = 1 .. Len(s) /\ \A i \in 1 .. Len(s) : s[i] \in Range(s)
BY SeqParts, Zenon DEF IsSeq

\* Concatenation.
LEMMA ConcatFacts ==
  ASSUME NEW s, NEW t, IsSeq(s), IsSeq(t)
  PROVE  /\ IsSeq(s \o t)
         /\ Len(s \o t) = Len(s) + Len(t)
         /\ \A i \in 1 .. Len(s) : (s \o t)[i] = s[i]
         /\ \A i \in 1 .. Len(t) : (s \o t)[Len(s) + i] = t[i]
<1> DEFINE S == Range(s) \cup Range(t)
<1>1. s \in Seq(S) /\ t \in Seq(S)
  <2>1. Range(s) \subseteq S /\ Range(t) \subseteq S
    OBVIOUS
  <2> HIDE DEF S
  <2> QED BY <2>1, SeqParts, Zenon DEF IsSeq
<1> HIDE DEF S
<1>2. /\ s \o t \in Seq(S)
      /\ Len(s \o t) = Len(s) + Len(t)
      /\ \A i \in 1 .. Len(s) + Len(t) :
           (s \o t)[i] = IF i <= Len(s) THEN s[i] ELSE t[i - Len(s)]
  BY <1>1
<1>3. Len(s) \in Nat /\ Len(t) \in Nat
  BY SeqFacts, Zenon
<1>4. IsSeq(s \o t)
  BY <1>2, SeqSelf, Zenon
<1>5. \A i \in 1 .. Len(s) : (s \o t)[i] = s[i]
  BY <1>2, <1>3
<1>6. \A i \in 1 .. Len(t) : (s \o t)[Len(s) + i] = t[i]
  BY <1>2, <1>3
<1> QED BY <1>2, <1>4, <1>5, <1>6, Zenon

\* The first n elements.
LEMMA PrefixFacts ==
  ASSUME NEW s, IsSeq(s), NEW n \in 0 .. Len(s)
  PROVE  /\ IsSeq(SubSeq(s, 1, n))
         /\ Len(SubSeq(s, 1, n)) = n
         /\ \A i \in 1 .. n : SubSeq(s, 1, n)[i] = s[i]
<1>1. Len(s) \in Nat /\ \A i \in 1 .. n : s[i] \in Range(s)
  BY SeqFacts
<1>2. /\ SubSeq(s, 1, n) \in Seq(Range(s))
      /\ Len(SubSeq(s, 1, n)) = IF 1 <= n THEN n - 1 + 1 ELSE 0
      /\ \A i \in 1 .. n - 1 + 1 : SubSeq(s, 1, n)[i] = s[1 + i - 1]
  BY <1>1, SeqPart
<1>3. IsSeq(SubSeq(s, 1, n))
  BY <1>2, SeqSelf, Zenon
<1> QED BY <1>1, <1>2, <1>3

\* Append.
LEMMA AppendFacts ==
  ASSUME NEW s, IsSeq(s), NEW e
  PROVE  /\ IsSeq(Append(s, e))
         /\ Len(Append(s, e)) = Len(s) + 1
         /\ \A i \in 1 .. Len(s) : Append(s, e)[i] = s[i]
         /\ Append(s, e)[Len(s) + 1] = e
<1> DEFINE S == Range(s) \cup {e}
<1>1. s \in Seq(S) /\ e \in S
  <2>1. Range(s) \subseteq S /\ e \in S
    OBVIOUS
  <2> HIDE DEF S
  <2> QED BY <2>1, SeqParts, Zenon DEF IsSeq
<1> HIDE DEF S
<1>2. /\ Append(s, e) \in Seq(S)
      /\ Len(Append(s, e)) = Len(s) + 1
      /\ \A i \in 1 .. Len(s) : Append(s, e)[i] = s[i]
      /\ Append(s, e)[Len(s) + 1] = e
  BY <1>1
<1> QED BY <1>2, SeqSelf, Zenon

\* One, three or no items.
LEMMA SmallSeqs ==
  /\ IsSeq(<<>>) /\ Len(<<>>) = 0
  /\ \A a : IsSeq(<<a>>) /\ Len(<<a>>) = 1 /\ <<a>>[1] = a
  /\ \A a, b, c : /\ IsSeq(<<a, b, c>>) /\ Len(<<a, b, c>>) = 3
                  /\ <<a, b, c>>[1] = a /\ <<a, b, c>>[2] = b /\ <<a, b, c>>[3] = c
<1>1. IsSeq(<<>>) /\ Len(<<>>) = 0
  BY SeqSelf, SeqEmpty, Zenon
<1>2. ASSUME NEW a PROVE IsSeq(<<a>>) /\ Len(<<a>>) = 1 /\ <<a>>[1] = a
  <2>1. <<a>> \in Seq({a})
    OBVIOUS
  <2> QED BY <2>1, SeqSelf, Zenon
<1>3. ASSUME NEW a, NEW b, NEW c
      PROVE  /\ IsSeq(<<a, b, c>>) /\ Len(<<a, b, c>>) = 3
             /\ <<a, b, c>>[1] = a /\ <<a, b, c>>[2] = b /\ <<a, b, c>>[3] = c
  <2>1. <<a, b, c>> \in Seq({a, b, c})
    OBVIOUS
  <2>2. IsSeq(<<a, b, c>>)
    BY <2>1, SeqSelf, Zenon
  <2> QED BY <2>2, Zenon
<1> QED BY <1>1, <1>2, <1>3, Zenon

\* Two sequences behind one.
LEMMA ConcatTwice ==
  ASSUME NEW s, NEW e, NEW x, IsSeq(s), IsSeq(e), IsSeq(x)
  PROVE  /\ IsSeq((s \o e) \o x)
         /\ Len((s \o e) \o x) = Len(s) + Len(e) + Len(x)
         /\ \A i \in 1 .. Len(s) : ((s \o e) \o x)[i] = s[i]
         /\ \A i \in 1 .. Len(e) : ((s \o e) \o x)[Len(s) + i] = e[i]
         /\ \A i \in 1 .. Len(x) : ((s \o e) \o x)[Len(s) + Len(e) + i] = x[i]
<1> DEFINE y == s \o e
           z == y \o x
<1>1. /\ IsSeq(y) /\ Len(y) = Len(s) + Len(e)
      /\ \A i \in 1 .. Len(s) : y[i] = s[i]
      /\ \A i \in 1 .. Len(e) : y[Len(s) + i] = e[i]
  BY ConcatFacts
<1>2. Len(s) \in Nat /\ Len(e) \in Nat
  BY SeqFacts, Zenon
<1> HIDE DEF y
<1>3. /\ IsSeq(z) /\ Len(z) = Len(y) + Len(x)
      /\ \A i \in 1 .. Len(y) : z[i] = y[i]
      /\ \A i \in 1 .. Len(x) : z[Len(y) + i] = x[i]
  BY <1>1, ConcatFacts
<1> HIDE DEF z
<1>4. ASSUME NEW i \in 1 .. Len(s) PROVE z[i] = s[i]
  <2>1. i \in 1 .. Len(y)
    BY <1>1, <1>2
  <2> QED BY <1>1, <1>3, <2>1, Zenon
<1>5. ASSUME NEW i \in 1 .. Len(e) PROVE z[Len(s) + i] = e[i]
  <2>1. Len(s) + i \in 1 .. Len(y)
    BY <1>1, <1>2
  <2> QED BY <1>1, <1>3, <2>1, Zenon
<1>6. /\ Len(z) = Len(s) + Len(e) + Len(x)
      /\ \A i \in 1 .. Len(x) : z[Len(s) + Len(e) + i] = x[i]
  BY <1>1, <1>3, Zenon
<1>7. IsSeq(z)
  BY <1>3, Zenon
<1> QED BY <1>4, <1>5, <1>6, <1>7, Zenon DEF y, z

\* Positions behind the first h items of a frame at a.
LEMMA Shift ==
  ASSUME NEW a \in Nat, NEW h \in Nat, NEW m \in Nat, NEW i \in 1 .. h + m, i > h
  PROVE  i - h \in 1 .. m /\ a + i = (a + h) + (i - h) /\ h + (i - h) = i
OBVIOUS

\* The k-th item from the top.
LEMMA FromTop ==
  ASSUME NEW a \in Nat, NEW h \in Nat, NEW k \in 1 .. h
  PROVE  (a + h) + 1 - k = a + (h + 1 - k) /\ h + 1 - k \in 1 .. h
OBVIOUS

-----------------------------------------------------------------------------
(* How the stack of a thread is made of frames.                             *)

\* Where code can be interrupted, and how much of the frame of the interrupt
\* it serves is on the stack there.
Height(p) ==
    CASE p \in {"handler", "switched"} -> 19
      [] p = "leave" -> 18
      [] p = "segs" -> 17
      [] p = "popal" -> 13
      [] OTHER -> 5

Interruptible == {"handler", "switched", "leave", "segs", "popal", "iret"}

\* The items of the frame of context c, from the bottom, with the argument and
\* the return address of the call of the handler.
FrameItem(c, i) ==
    CASE i = 1 -> Item("eflags", Flag(c.intr), 4)
      [] i = 2 -> Item("cs", Num(kKCodeSeg), 4)
      [] i = 3 -> Item("eip", Code(c.pc), 4)
      [] i = 4 -> Item("err_code", c.err, 4)
      [] i = 5 -> Item("intr_vec_no", Num(c.vec), 4)
      [] i = 6 -> Item("eax", c.regs["eax"], 4)
      [] i = 7 -> Item("ecx", c.regs["ecx"], 4)
      [] i = 8 -> Item("edx", c.regs["edx"], 4)
      [] i = 9 -> Item("ebx", c.regs["ebx"], 4)
      [] i = 10 -> Item("esp", Num(0), 4)
      [] i = 11 -> Item("ebp", c.regs["ebp"], 4)
      [] i = 12 -> Item("esi", c.regs["esi"], 4)
      [] i = 13 -> Item("edi", c.regs["edi"], 4)
      [] i = 14 -> Item("gs", c.regs["gs"], 2)
      [] i = 15 -> Item("fs", c.regs["fs"], 2)
      [] i = 16 -> Item("es", c.regs["es"], 2)
      [] i = 17 -> Item("ds", c.regs["ds"], 2)
      [] i = 18 -> Item("arg", Num(c.sp + 17), 4)
      [] OTHER -> Item("ret", Code("leave"), 4)

\* The first h items of the frame of c are in s.
Holds(s, c, h) == \A i \in 1 .. h : s[c.sp + i] = FrameItem(c, i)

\* What is restored of the registers of c when its code is at p.
Restored(c, p, file) ==
    /\ p \in {"stub", "alltraps", "iret"} => file = c.regs
    /\ p = "popal" => \A r \in Range(SegRegs) : file[r] = c.regs[r]

\* A register file.
IsFile(f) == f = [r \in Regs |-> f[r]]

\* A context: what the processor and the stubs know of the interrupt.
IsContext(c) ==
    /\ c.vec \in Vectors /\ c.sp \in Nat /\ IsFile(c.regs) /\ c.intr \in BOOLEAN
    /\ c.err = IF c.vec \in HasErrorCode THEN ErrCode ELSE Num(0)

\* The contexts cs of a thread whose stack is s and whose task has the registers
\* f: the first one is the task, each other one the code that serves the one
\* before.
Chain(f, s, cs) ==
    /\ IsSeq(cs) /\ IsSeq(s)
    /\ \A k \in 1 .. Len(cs) : IsContext(cs[k])
    /\ Len(cs) > 0 =>
         /\ cs[1].sp = 0 /\ cs[1].pc = "task" /\ cs[1].intr = TRUE /\ cs[1].regs = f
    /\ \A k \in 1 .. Len(cs) : cs[k].sp <= cs[Len(cs)].sp
    /\ \A k \in 1 .. Len(cs) - 1 :
         /\ cs[k + 1].pc \in Interruptible
         /\ cs[k + 1].sp = cs[k].sp + Height(cs[k + 1].pc)
         /\ \A j \in 1 .. k : cs[j].sp <= cs[k].sp
         /\ Holds(s, cs[k], Height(cs[k + 1].pc))
         /\ Restored(cs[k], cs[k + 1].pc, cs[k + 1].regs)

\* How much of the frame of c is on the stack when the code is at p.
TopHeight(p, c) == IF p = "stub" THEN IF c.vec \in HasErrorCode THEN 4 ELSE 3
                   ELSE Height(p)

\* The thread that runs, at p, with interrupts b and the registers file.
Runs(p, b, file, f, s, cs) ==
    /\ p = "task" => b = TRUE /\ file = f /\ s = <<>> /\ Len(cs) = 0
    /\ p # "task" =>
         /\ p \in Interruptible \cup {"stub", "alltraps"}
         /\ p \in {"stub", "alltraps"} => b = FALSE
         /\ Len(cs) > 0
         /\ Len(s) = cs[Len(cs)].sp + TopHeight(p, cs[Len(cs)])
         /\ Holds(s, cs[Len(cs)], TopHeight(p, cs[Len(cs)]))
         /\ Restored(cs[Len(cs)], p, file)

\* A thread that was switched out, or has not run yet: under the return address
\* and four registers, the stack of its handler or nothing.
Waits(s, cs) ==
    IF Len(cs) = 0
      THEN Len(s) = 5 /\ s[1].value[2] = "task"
      ELSE /\ Len(s) = cs[Len(cs)].sp + 24
           /\ Holds(s, cs[Len(cs)], 19)
           /\ s[cs[Len(cs)].sp + 20].value[2] = "switched"

\* A stack with h items of the last frame on top.
At(f, s, cs, h) ==
    /\ Chain(f, s, cs) /\ Len(cs) > 0
    /\ Len(s) = cs[Len(cs)].sp + h /\ Holds(s, cs[Len(cs)], h)

\* s and m items more.
Longer(z, s, m) ==
    IsSeq(z) /\ Len(z) = Len(s) + m /\ \A i \in 1 .. Len(s) : z[i] = s[i]

\* A list without repetitions.
Distinct(rs) == IsSeq(rs) /\ \A i, j \in 1 .. Len(rs) : rs[i] = rs[j] => i = j

-----------------------------------------------------------------------------
(* Frames and registers.                                                    *)

\* The elements pushed one after the other by PushRegs.
LEMMA PushFacts ==
  ASSUME NEW s, IsSeq(s), NEW rs, IsSeq(rs), NEW file, NEW bytes
  PROVE  /\ IsSeq(PushRegs(s, rs, file, bytes))
         /\ Len(PushRegs(s, rs, file, bytes)) = Len(s) + Len(rs)
         /\ \A i \in 1 .. Len(s) : PushRegs(s, rs, file, bytes)[i] = s[i]
         /\ \A i \in 1 .. Len(rs) :
              PushRegs(s, rs, file, bytes)[Len(s) + i] = Item(rs[i], file[rs[i]], bytes)
<1> DEFINE e == [i \in 1 .. Len(rs) |-> Item(rs[i], file[rs[i]], bytes)]
<1>1. Len(rs) \in Nat
  BY SeqFacts, Zenon
<1>2. DOMAIN e = 1 .. Len(rs) /\ e \in [1 .. Len(rs) -> Range(e)]
  BY Zenon DEF Range
<1>3. e \in Seq(Range(e))
  <2> HIDE DEF e
  <2> QED BY <1>1, <1>2, SeqOver, Zenon
<1>4. IsSeq(e) /\ Len(e) = Len(rs) /\ \A i \in 1 .. Len(rs) : e[i] = Item(rs[i], file[rs[i]], bytes)
  <2>1. IsSeq(e)
    BY <1>3, Zenon DEF IsSeq
  <2>2. Len(e) \in Nat /\ 1 .. Len(e) = 1 .. Len(rs)
    <3> HIDE DEF e
    <3> QED BY <1>2, <2>1, SeqFacts, Zenon
  <2>3. Len(e) = Len(rs)
    <3> HIDE DEF e
    <3>1. ~ (Len(e) > Len(rs))
      <4> SUFFICES ASSUME Len(e) > Len(rs) PROVE FALSE
        OBVIOUS
      <4>1. Len(e) \in 1 .. Len(e)
        BY <1>1, <2>2
      <4>2. Len(e) \in 1 .. Len(rs)
        BY <2>2, <4>1, Zenon
      <4> QED BY <1>1, <4>2
    <3>2. ~ (Len(rs) > Len(e))
      <4> SUFFICES ASSUME Len(rs) > Len(e) PROVE FALSE
        OBVIOUS
      <4>1. Len(rs) \in 1 .. Len(rs)
        BY <1>1, <2>2
      <4>2. Len(rs) \in 1 .. Len(e)
        BY <2>2, <4>1, Zenon
      <4> QED BY <1>1, <2>2, <4>2
    <3>3. Len(e) \in Nat
      BY <2>2, Zenon
    <3> QED BY <1>1, <3>1, <3>2, <3>3
  <2> QED BY <2>1, <2>3, Zenon
<1> HIDE DEF e
<1>5. PushRegs(s, rs, file, bytes) = s \o e
  BY Zenon DEF PushRegs, e
<1>6. /\ IsSeq(s \o e)
      /\ Len(s \o e) = Len(s) + Len(e)
      /\ \A i \in 1 .. Len(s) : (s \o e)[i] = s[i]
      /\ \A i \in 1 .. Len(e) : (s \o e)[Len(s) + i] = e[i]
  BY <1>4, ConcatFacts
<1>7. /\ Len(s \o e) = Len(s) + Len(rs)
      /\ \A i \in 1 .. Len(rs) : (s \o e)[Len(s) + i] = Item(rs[i], file[rs[i]], bytes)
  BY <1>4, <1>6, Zenon
<1> QED BY <1>5, <1>6, <1>7, Zenon

\* The heights one by one.
LEMMA Heights ==
  /\ Height("handler") = 19 /\ Height("switched") = 19 /\ Height("leave") = 18
  /\ Height("segs") = 17 /\ Height("popal") = 13 /\ Height("iret") = 5
  /\ Height("alltraps") = 5
BY Zenon DEF Height

\* The items of a frame, one by one.
LEMMA FrameItems ==
  ASSUME NEW c
  PROVE  /\ FrameItem(c, 1) = Item("eflags", Flag(c.intr), 4)
         /\ FrameItem(c, 2) = Item("cs", Num(kKCodeSeg), 4)
         /\ FrameItem(c, 3) = Item("eip", Code(c.pc), 4)
         /\ FrameItem(c, 4) = Item("err_code", c.err, 4)
         /\ FrameItem(c, 5) = Item("intr_vec_no", Num(c.vec), 4)
         /\ FrameItem(c, 6) = Item("eax", c.regs["eax"], 4)
         /\ FrameItem(c, 7) = Item("ecx", c.regs["ecx"], 4)
         /\ FrameItem(c, 8) = Item("edx", c.regs["edx"], 4)
         /\ FrameItem(c, 9) = Item("ebx", c.regs["ebx"], 4)
         /\ FrameItem(c, 10) = Item("esp", Num(0), 4)
         /\ FrameItem(c, 11) = Item("ebp", c.regs["ebp"], 4)
         /\ FrameItem(c, 12) = Item("esi", c.regs["esi"], 4)
         /\ FrameItem(c, 13) = Item("edi", c.regs["edi"], 4)
         /\ FrameItem(c, 14) = Item("gs", c.regs["gs"], 2)
         /\ FrameItem(c, 15) = Item("fs", c.regs["fs"], 2)
         /\ FrameItem(c, 16) = Item("es", c.regs["es"], 2)
         /\ FrameItem(c, 17) = Item("ds", c.regs["ds"], 2)
         /\ FrameItem(c, 18) = Item("arg", Num(c.sp + 17), 4)
         /\ FrameItem(c, 19) = Item("ret", Code("leave"), 4)
BY DEF FrameItem

\* The registers in a frame.
LEMMA FrameValues ==
  ASSUME NEW c
  PROVE  /\ FrameItem(c, 6).value = c.regs["eax"] /\ FrameItem(c, 7).value = c.regs["ecx"]
         /\ FrameItem(c, 8).value = c.regs["edx"] /\ FrameItem(c, 9).value = c.regs["ebx"]
         /\ FrameItem(c, 11).value = c.regs["ebp"] /\ FrameItem(c, 12).value = c.regs["esi"]
         /\ FrameItem(c, 13).value = c.regs["edi"]
         /\ FrameItem(c, 14).value = c.regs["gs"] /\ FrameItem(c, 15).value = c.regs["fs"]
         /\ FrameItem(c, 16).value = c.regs["es"] /\ FrameItem(c, 17).value = c.regs["ds"]
         /\ FrameItem(c, 3).value[2] = c.pc /\ FrameItem(c, 1).value[2] = c.intr
<1>1. \A n, x, b : Item(n, x, b).value = x
  BY Zenon DEF Item
<1>2. \A x : Code(x)[2] = x /\ Flag(x)[2] = x
  BY Zenon DEF Code, Flag
<1>3. /\ FrameItem(c, 6) = Item("eax", c.regs["eax"], 4)
      /\ FrameItem(c, 7) = Item("ecx", c.regs["ecx"], 4)
      /\ FrameItem(c, 8) = Item("edx", c.regs["edx"], 4)
      /\ FrameItem(c, 9) = Item("ebx", c.regs["ebx"], 4)
      /\ FrameItem(c, 11) = Item("ebp", c.regs["ebp"], 4)
      /\ FrameItem(c, 12) = Item("esi", c.regs["esi"], 4)
      /\ FrameItem(c, 13) = Item("edi", c.regs["edi"], 4)
      /\ FrameItem(c, 14) = Item("gs", c.regs["gs"], 2)
      /\ FrameItem(c, 15) = Item("fs", c.regs["fs"], 2)
      /\ FrameItem(c, 16) = Item("es", c.regs["es"], 2)
      /\ FrameItem(c, 17) = Item("ds", c.regs["ds"], 2)
      /\ FrameItem(c, 3) = Item("eip", Code(c.pc), 4) /\ FrameItem(c, 1) = Item("eflags", Flag(c.intr), 4)
  BY FrameItems, Zenon
<1>4. /\ FrameItem(c, 6).value = c.regs["eax"]
      /\ FrameItem(c, 7).value = c.regs["ecx"]
      /\ FrameItem(c, 8).value = c.regs["edx"]
      /\ FrameItem(c, 9).value = c.regs["ebx"]
      /\ FrameItem(c, 11).value = c.regs["ebp"]
      /\ FrameItem(c, 12).value = c.regs["esi"]
      /\ FrameItem(c, 13).value = c.regs["edi"]
      /\ FrameItem(c, 14).value = c.regs["gs"]
      /\ FrameItem(c, 15).value = c.regs["fs"]
      /\ FrameItem(c, 16).value = c.regs["es"]
      /\ FrameItem(c, 17).value = c.regs["ds"]
      /\ FrameItem(c, 3).value = Code(c.pc) /\ FrameItem(c, 1).value = Flag(c.intr)
  BY <1>3 DEF Item
<1>7. FrameItem(c, 3).value[2] = c.pc /\ FrameItem(c, 1).value[2] = c.intr
  BY <1>2, <1>4, Zenon
<1> QED BY <1>4, <1>7, Zenon

\* The registers by name.
LEMMA RegNames ==
  /\ Regs = {"eax", "ecx", "edx", "ebx", "ebp", "esi", "edi", "gs", "fs", "es", "ds"}
  /\ Range(SegRegs) = {"gs", "fs", "es", "ds"}
  /\ Reverse(SegRegs) = <<"ds", "es", "fs", "gs">>
<1>1. Range(SegRegs) = {"gs", "fs", "es", "ds"}
  BY DEF SegRegs, Range
<1>2. Range(Pushal) = {"eax", "ecx", "edx", "ebx", "ebp", "esi", "edi"}
  BY DEF Pushal, Range
<1>3. Reverse(SegRegs) = <<"ds", "es", "fs", "gs">>
  BY DEF SegRegs, Reverse
<1> QED BY <1>1, <1>2, <1>3, Zenon DEF Regs, GenRegs

\* The lists of registers.
LEMMA Lists ==
  /\ IsSeq(SubSeq(Pushal, 1, 4)) /\ Len(SubSeq(Pushal, 1, 4)) = 4
  /\ SubSeq(Pushal, 1, 4)[1] = "eax" /\ SubSeq(Pushal, 1, 4)[2] = "ecx"
  /\ SubSeq(Pushal, 1, 4)[3] = "edx" /\ SubSeq(Pushal, 1, 4)[4] = "ebx"
  /\ IsSeq(SubSeq(Pushal, 5, 7)) /\ Len(SubSeq(Pushal, 5, 7)) = 3
  /\ SubSeq(Pushal, 5, 7)[1] = "ebp" /\ SubSeq(Pushal, 5, 7)[2] = "esi"
  /\ SubSeq(Pushal, 5, 7)[3] = "edi"
  /\ IsSeq(SegRegs) /\ Len(SegRegs) = 4
  /\ SegRegs[1] = "gs" /\ SegRegs[2] = "fs" /\ SegRegs[3] = "es" /\ SegRegs[4] = "ds"
<1> DEFINE N == {"eax", "ecx", "edx", "ebx", "ebp", "esi", "edi"}
           S == {"gs", "fs", "es", "ds"}
<1>1. Pushal \in Seq(N) /\ Len(Pushal) = 7
  BY DEF Pushal
<1>2. /\ SubSeq(Pushal, 1, 4) \in Seq(N) /\ Len(SubSeq(Pushal, 1, 4)) = 4
      /\ \A i \in 1 .. 4 : SubSeq(Pushal, 1, 4)[i] = Pushal[1 + i - 1]
  <2>1. \A i \in 1 .. 4 : Pushal[i] \in N
    BY DEF Pushal
  <2>2. 1 \in Int /\ 4 \in Int /\ 4 - 1 + 1 = 4 /\ 1 <= 4
    OBVIOUS
  <2> HIDE DEF N
  <2> QED BY <1>1, <2>1, <2>2, SeqPart
<1>3. /\ SubSeq(Pushal, 5, 7) \in Seq(N) /\ Len(SubSeq(Pushal, 5, 7)) = 3
      /\ \A i \in 1 .. 3 : SubSeq(Pushal, 5, 7)[i] = Pushal[5 + i - 1]
  <2>1. \A i \in 5 .. 7 : Pushal[i] \in N
    BY DEF Pushal
  <2>2. 5 \in Int /\ 7 \in Int /\ 7 - 5 + 1 = 3 /\ 5 <= 7
    OBVIOUS
  <2> HIDE DEF N
  <2> QED BY <1>1, <2>1, <2>2, SeqPart
<1>4. /\ SubSeq(Pushal, 1, 4)[1] = Pushal[1] /\ SubSeq(Pushal, 1, 4)[2] = Pushal[2]
      /\ SubSeq(Pushal, 1, 4)[3] = Pushal[3] /\ SubSeq(Pushal, 1, 4)[4] = Pushal[4]
      /\ SubSeq(Pushal, 5, 7)[1] = Pushal[5] /\ SubSeq(Pushal, 5, 7)[2] = Pushal[6]
      /\ SubSeq(Pushal, 5, 7)[3] = Pushal[7]
  BY <1>2, <1>3
<1>5. /\ Pushal[1] = "eax" /\ Pushal[2] = "ecx" /\ Pushal[3] = "edx" /\ Pushal[4] = "ebx"
      /\ Pushal[5] = "ebp" /\ Pushal[6] = "esi" /\ Pushal[7] = "edi"
  BY Zenon DEF Pushal
<1>6. SegRegs \in Seq(S) /\ Len(SegRegs) = 4
      /\ SegRegs[1] = "gs" /\ SegRegs[2] = "fs" /\ SegRegs[3] = "es" /\ SegRegs[4] = "ds"
  BY DEF SegRegs
<1>7. IsSeq(SubSeq(Pushal, 1, 4)) /\ IsSeq(SubSeq(Pushal, 5, 7)) /\ IsSeq(SegRegs)
  BY <1>2, <1>3, <1>6, SeqSelf, Zenon
<1> QED BY <1>2, <1>3, <1>4, <1>5, <1>6, <1>7, Zenon

\* The fields of struct IntrReg are the items of a frame from the top.
LEMMA FieldItems ==
  ASSUME NEW c, NEW k \in 1 .. 17
  PROVE  FrameItem(c, 18 - k) = Item(IntrReg[k][1], FieldOf(c, IntrReg[k][1]), IntrReg[k][2])
<1>1. /\ IntrReg[1][1] = "ds" /\ IntrReg[1][2] = 2
      /\ IntrReg[2][1] = "es" /\ IntrReg[2][2] = 2
      /\ IntrReg[3][1] = "fs" /\ IntrReg[3][2] = 2
      /\ IntrReg[4][1] = "gs" /\ IntrReg[4][2] = 2
      /\ IntrReg[5][1] = "edi" /\ IntrReg[5][2] = 4
      /\ IntrReg[6][1] = "esi" /\ IntrReg[6][2] = 4
      /\ IntrReg[7][1] = "ebp" /\ IntrReg[7][2] = 4
      /\ IntrReg[8][1] = "esp" /\ IntrReg[8][2] = 4
      /\ IntrReg[9][1] = "ebx" /\ IntrReg[9][2] = 4
      /\ IntrReg[10][1] = "edx" /\ IntrReg[10][2] = 4
      /\ IntrReg[11][1] = "ecx" /\ IntrReg[11][2] = 4
      /\ IntrReg[12][1] = "eax" /\ IntrReg[12][2] = 4
      /\ IntrReg[13][1] = "intr_vec_no" /\ IntrReg[13][2] = 4
      /\ IntrReg[14][1] = "err_code" /\ IntrReg[14][2] = 4
      /\ IntrReg[15][1] = "eip" /\ IntrReg[15][2] = 4
      /\ IntrReg[16][1] = "cs" /\ IntrReg[16][2] = 4
      /\ IntrReg[17][1] = "eflags" /\ IntrReg[17][2] = 4
  BY Zenon DEF IntrReg
<1>2. /\ FieldOf(c, "ds") = c.regs["ds"]
      /\ FieldOf(c, "es") = c.regs["es"]
      /\ FieldOf(c, "fs") = c.regs["fs"]
      /\ FieldOf(c, "gs") = c.regs["gs"]
      /\ FieldOf(c, "edi") = c.regs["edi"]
      /\ FieldOf(c, "esi") = c.regs["esi"]
      /\ FieldOf(c, "ebp") = c.regs["ebp"]
      /\ FieldOf(c, "ebx") = c.regs["ebx"]
      /\ FieldOf(c, "edx") = c.regs["edx"]
      /\ FieldOf(c, "ecx") = c.regs["ecx"]
      /\ FieldOf(c, "eax") = c.regs["eax"]
  BY RegNames, Zenon DEF FieldOf
<1>3. /\ FieldOf(c, "esp") = Num(0)
      /\ FieldOf(c, "intr_vec_no") = Num(c.vec)
      /\ FieldOf(c, "err_code") = c.err
      /\ FieldOf(c, "eip") = Code(c.pc)
      /\ FieldOf(c, "cs") = Num(kKCodeSeg)
      /\ FieldOf(c, "eflags") = Flag(c.intr)
  BY RegNames, Zenon DEF FieldOf
<1>4. k = 1 \/ k = 2 \/ k = 3 \/ k = 4 \/ k = 5 \/ k = 6 \/ k = 7 \/ k = 8 \/ k = 9 \/ k = 10 \/ k = 11 \/ k = 12 \/ k = 13 \/ k = 14 \/ k = 15 \/ k = 16 \/ k = 17
  OBVIOUS
<1>5. CASE k = 1
  <2>1. FrameItem(c, 17) = Item("ds", c.regs["ds"], 2) /\ 18 - k = 17
    BY <1>5, FrameItems
  <2> QED BY <1>1, <1>2, <1>3, <1>5, <2>1, Zenon
<1>6. CASE k = 2
  <2>1. FrameItem(c, 16) = Item("es", c.regs["es"], 2) /\ 18 - k = 16
    BY <1>6, FrameItems
  <2> QED BY <1>1, <1>2, <1>3, <1>6, <2>1, Zenon
<1>7. CASE k = 3
  <2>1. FrameItem(c, 15) = Item("fs", c.regs["fs"], 2) /\ 18 - k = 15
    BY <1>7, FrameItems
  <2> QED BY <1>1, <1>2, <1>3, <1>7, <2>1, Zenon
<1>8. CASE k = 4
  <2>1. FrameItem(c, 14) = Item("gs", c.regs["gs"], 2) /\ 18 - k = 14
    BY <1>8, FrameItems
  <2> QED BY <1>1, <1>2, <1>3, <1>8, <2>1, Zenon
<1>9. CASE k = 5
  <2>1. FrameItem(c, 13) = Item("edi", c.regs["edi"], 4) /\ 18 - k = 13
    BY <1>9, FrameItems
  <2> QED BY <1>1, <1>2, <1>3, <1>9, <2>1, Zenon
<1>10. CASE k = 6
  <2>1. FrameItem(c, 12) = Item("esi", c.regs["esi"], 4) /\ 18 - k = 12
    BY <1>10, FrameItems
  <2> QED BY <1>1, <1>2, <1>3, <1>10, <2>1, Zenon
<1>11. CASE k = 7
  <2>1. FrameItem(c, 11) = Item("ebp", c.regs["ebp"], 4) /\ 18 - k = 11
    BY <1>11, FrameItems
  <2> QED BY <1>1, <1>2, <1>3, <1>11, <2>1, Zenon
<1>12. CASE k = 8
  <2>1. FrameItem(c, 10) = Item("esp", Num(0), 4) /\ 18 - k = 10
    BY <1>12, FrameItems
  <2> QED BY <1>1, <1>2, <1>3, <1>12, <2>1, Zenon
<1>13. CASE k = 9
  <2>1. FrameItem(c, 9) = Item("ebx", c.regs["ebx"], 4) /\ 18 - k = 9
    BY <1>13, FrameItems
  <2> QED BY <1>1, <1>2, <1>3, <1>13, <2>1, Zenon
<1>14. CASE k = 10
  <2>1. FrameItem(c, 8) = Item("edx", c.regs["edx"], 4) /\ 18 - k = 8
    BY <1>14, FrameItems
  <2> QED BY <1>1, <1>2, <1>3, <1>14, <2>1, Zenon
<1>15. CASE k = 11
  <2>1. FrameItem(c, 7) = Item("ecx", c.regs["ecx"], 4) /\ 18 - k = 7
    BY <1>15, FrameItems
  <2> QED BY <1>1, <1>2, <1>3, <1>15, <2>1, Zenon
<1>16. CASE k = 12
  <2>1. FrameItem(c, 6) = Item("eax", c.regs["eax"], 4) /\ 18 - k = 6
    BY <1>16, FrameItems
  <2> QED BY <1>1, <1>2, <1>3, <1>16, <2>1, Zenon
<1>17. CASE k = 13
  <2>1. FrameItem(c, 5) = Item("intr_vec_no", Num(c.vec), 4) /\ 18 - k = 5
    BY <1>17, FrameItems
  <2> QED BY <1>1, <1>2, <1>3, <1>17, <2>1, Zenon
<1>18. CASE k = 14
  <2>1. FrameItem(c, 4) = Item("err_code", c.err, 4) /\ 18 - k = 4
    BY <1>18, FrameItems
  <2> QED BY <1>1, <1>2, <1>3, <1>18, <2>1, Zenon
<1>19. CASE k = 15
  <2>1. FrameItem(c, 3) = Item("eip", Code(c.pc), 4) /\ 18 - k = 3
    BY <1>19, FrameItems
  <2> QED BY <1>1, <1>2, <1>3, <1>19, <2>1, Zenon
<1>20. CASE k = 16
  <2>1. FrameItem(c, 2) = Item("cs", Num(kKCodeSeg), 4) /\ 18 - k = 2
    BY <1>20, FrameItems
  <2> QED BY <1>1, <1>2, <1>3, <1>20, <2>1, Zenon
<1>21. CASE k = 17
  <2>1. FrameItem(c, 1) = Item("eflags", Flag(c.intr), 4) /\ 18 - k = 1
    BY <1>21, FrameItems
  <2> QED BY <1>1, <1>2, <1>3, <1>21, <2>1, Zenon
<1> QED BY <1>4, <1>5, <1>6, <1>7, <1>8, <1>9, <1>10, <1>11, <1>12, <1>13, <1>14, <1>15, <1>16, <1>17, <1>18, <1>19, <1>20, <1>21, Zenon

\* What a register file is made of.
LEMMA FileFacts ==
  /\ \A t, n : IsFile(TaskRegs(t, n))
  /\ IsFile(KernelRegs)
  /\ \A s, rs, file : IsFile(PopRegs(s, rs, file))
BY DEF IsFile, TaskRegs, KernelRegs, PopRegs

\* PushRegs makes a stack longer.
LEMMA PushLonger ==
  ASSUME NEW s, IsSeq(s), NEW rs, IsSeq(rs), NEW file, NEW bytes
  PROVE  /\ Longer(PushRegs(s, rs, file, bytes), s, Len(rs))
         /\ \A i \in 1 .. Len(rs) :
              PushRegs(s, rs, file, bytes)[Len(s) + i] = Item(rs[i], file[rs[i]], bytes)
BY PushFacts DEF Longer

\* What PopRegs puts in a register of the list.
LEMMA PopInto ==
  ASSUME NEW s, NEW rs, NEW file, Distinct(rs), NEW k \in 1 .. Len(rs), rs[k] \in Regs
  PROVE  PopRegs(s, rs, file)[rs[k]] = s[Len(s) + 1 - k].value
<1>1. DOMAIN rs = 1 .. Len(rs)
  BY SeqFacts, Zenon DEF Distinct
<1>2. rs[k] \in Range(rs)
  BY <1>1, Zenon DEF Range
<1>3. (CHOOSE i \in 1 .. Len(rs) : rs[i] = rs[k]) = k
  BY Zenon DEF Distinct
<1> QED BY <1>2, <1>3, Zenon DEF PopRegs

\* PopRegs leaves the other registers alone.
LEMMA PopOther ==
  ASSUME NEW s, NEW rs, NEW file, Distinct(rs), NEW r \in Regs, \A k \in 1 .. Len(rs) : rs[k] # r
  PROVE  PopRegs(s, rs, file)[r] = file[r]
<1>1. DOMAIN rs = 1 .. Len(rs)
  BY SeqFacts, Zenon DEF Distinct
<1>2. r \notin Range(rs)
  BY <1>1, Zenon DEF Range
<1> QED BY <1>2, Zenon DEF PopRegs

-----------------------------------------------------------------------------
(* Stacks that grow and shrink.                                             *)

\* A chain of contexts depends on the stack only below the last one.
LEMMA ChainStack ==
  ASSUME NEW f, NEW s, NEW cs, Chain(f, s, cs), NEW z, IsSeq(z),
         Len(cs) > 0 => \A i \in 1 .. cs[Len(cs)].sp : z[i] = s[i]
  PROVE  Chain(f, z, cs)
<1>1. Len(cs) \in Nat
  BY SeqFacts, Zenon DEF Chain
<1>2. ASSUME NEW k \in 1 .. Len(cs) - 1
      PROVE  Holds(z, cs[k], Height(cs[k + 1].pc))
  <2> DEFINE h == Height(cs[k + 1].pc)
             m == cs[Len(cs)].sp
  <2>1. k + 1 \in 1 .. Len(cs) /\ k \in 1 .. Len(cs) /\ Len(cs) \in 1 .. Len(cs) /\ Len(cs) > 0
    BY <1>1
  <2>2. cs[k].sp \in Nat /\ m \in Nat /\ cs[k + 1].sp <= m /\ cs[k + 1].sp = cs[k].sp + h
    BY <2>1, Zenon DEF Chain, IsContext
  <2>3. h \in Nat
    BY Zenon DEF Height
  <2>4. \A i \in 1 .. h : cs[k].sp + i \in 1 .. m
    <3> HIDE DEF h, m
    <3> QED BY <2>2, <2>3
  <2>5. Holds(s, cs[k], h)
    BY Zenon DEF Chain
  <2>6. \A i \in 1 .. m : z[i] = s[i]
    BY <2>1, Zenon
  <2> HIDE DEF h, m
  <2>7. Holds(z, cs[k], h)
    BY <2>4, <2>5, <2>6, Zenon DEF Holds
  <2> QED BY <2>7, Zenon DEF h
<1> QED BY <1>2, Zenon DEF Chain

\* A stack cut down to a part of the last frame.
LEMMA CutDown ==
  ASSUME NEW f, NEW s, NEW cs, Chain(f, s, cs), Len(cs) > 0,
         NEW h \in Nat, Len(s) >= cs[Len(cs)].sp + h, Holds(s, cs[Len(cs)], h),
         NEW g \in 0 .. h
  PROVE  LET z == SubSeq(s, 1, cs[Len(cs)].sp + g)
         IN  /\ Chain(f, z, cs)
             /\ Len(z) = cs[Len(cs)].sp + g
             /\ Holds(z, cs[Len(cs)], g)
<1> DEFINE n == Len(cs)
           c == cs[n]
           z == SubSeq(s, 1, c.sp + g)
<1>1. n \in Nat /\ n \in 1 .. n /\ c.sp \in Nat /\ IsSeq(s) /\ Len(s) \in Nat
  BY SeqFacts DEF Chain, IsContext
<1>2. c.sp + g \in 0 .. Len(s)
  BY <1>1
<1>3. IsSeq(z) /\ Len(z) = c.sp + g /\ \A i \in 1 .. c.sp + g : z[i] = s[i]
  BY <1>1, <1>2, PrefixFacts, Zenon
<1> HIDE DEF z
<1>4. \A i \in 1 .. c.sp : z[i] = s[i]
  <2>1. 1 .. c.sp \subseteq 1 .. c.sp + g
    BY <1>1
  <2> QED BY <1>3, <2>1, Zenon
<1>5. Chain(f, z, cs)
  BY <1>3, <1>4, ChainStack, Zenon
<1>6. Holds(z, c, g)
  <2>1. \A i \in 1 .. g : c.sp + i \in 1 .. c.sp + g /\ i \in 1 .. h
    BY <1>1
  <2> QED BY <1>3, <2>1, Zenon DEF Holds
<1> QED BY <1>3, <1>5, <1>6, Zenon DEF z

\* A context put on a chain: the code that is interrupted serves the last one.
LEMMA ChainAppend ==
  ASSUME NEW f, NEW s, NEW cs, NEW p, NEW b, NEW file,
         Chain(f, s, cs), Runs(p, b, file, f, s, cs), p \in Interruptible \cup {"task"},
         NEW c, IsContext(c), c.sp = Len(s), c.pc = p, c.intr = b, c.regs = file,
         NEW z, IsSeq(z), \A i \in 1 .. Len(s) : z[i] = s[i]
  PROVE  Chain(f, z, Append(cs, c))
<1> DEFINE n == Len(cs)
           ds == Append(cs, c)
<1>1. IsSeq(cs) /\ IsSeq(s) /\ n \in Nat /\ Len(s) \in Nat
  BY SeqFacts, Zenon DEF Chain
<1>2. IsSeq(ds) /\ Len(ds) = n + 1 /\ (\A i \in 1 .. n : ds[i] = cs[i]) /\ ds[n + 1] = c
  BY <1>1, AppendFacts
<1> HIDE DEF ds
<1>3. CASE n = 0
  <2>1. p = "task" /\ b = TRUE /\ file = f /\ s = <<>>
    BY <1>3 DEF Runs
  <2>2. Len(s) = 0
    BY <2>1, SmallSeqs, Zenon
  <2>3. Len(ds) = 1 /\ ds[1] = c
    BY <1>2, <1>3
  <2>5. ds[1].sp = 0 /\ ds[1].pc = "task" /\ ds[1].intr = TRUE /\ ds[1].regs = f
    BY <2>1, <2>2, <2>3, Zenon
  <2>6. /\ \A k \in 1 .. Len(ds) : IsContext(ds[k])
        /\ \A k \in 1 .. Len(ds) : ds[k] = ds[Len(ds)]
    BY <2>3
  <2>7. \A k \in 1 .. Len(ds) : ds[k].sp <= ds[Len(ds)].sp
    <3>1. 0 <= 0
      OBVIOUS
    <3> QED BY <2>3, <2>5, <2>6, <3>1, Zenon
  <2>8. 1 .. Len(ds) - 1 = {}
    BY <2>3
  <2>4. Chain(f, z, ds)
    BY <1>2, <2>5, <2>6, <2>7, <2>8, Zenon DEF Chain
  <2> QED BY <2>4, Zenon DEF ds
<1>4. CASE n > 0
  <2> DEFINE l == cs[n]
  <2>1. p # "task" /\ p \in Interruptible
    BY <1>4 DEF Runs
  <2>2. /\ Len(s) = l.sp + Height(p) /\ Holds(s, l, Height(p)) /\ Restored(l, p, file)
    BY <2>1, Zenon DEF Runs, TopHeight, Interruptible
  <2>3. Height(p) \in Nat /\ l.sp \in Nat /\ n \in 1 .. n
    BY <1>1, <1>4 DEF Height, Chain, IsContext
  <2>4. \A i \in 1 .. l.sp : z[i] = s[i]
    <3>1. \A i \in 1 .. l.sp : i \in 1 .. Len(s)
      BY <2>2, <2>3
    <3> QED BY <3>1, Zenon
  <2>5. Chain(f, z, cs)
    BY <2>4, ChainStack, Zenon
  <2>6. Holds(z, l, Height(p))
    <3>1. \A i \in 1 .. Height(p) : l.sp + i \in 1 .. Len(s)
      BY <2>2, <2>3
    <3> QED BY <2>2, <3>1, Zenon DEF Holds
  <2> HIDE DEF l
  <2>7. \A k \in 1 .. Len(ds) : IsContext(ds[k])
    <3> TAKE k \in 1 .. Len(ds)
    <3>1. CASE k \in 1 .. n
      BY <1>2, <2>5, <3>1, Zenon DEF Chain
    <3>2. CASE k = n + 1
      BY <1>2, <3>2, Zenon
    <3> QED BY <1>1, <1>2, <3>1, <3>2
  <2>8. ds[1].sp = 0 /\ ds[1].pc = "task" /\ ds[1].intr = TRUE /\ ds[1].regs = f
    <3>1. ds[1] = cs[1]
      BY <1>1, <1>2, <1>4
    <3> QED BY <1>4, <2>5, <3>1, Zenon DEF Chain
  <2>9. \A k \in 1 .. n : cs[k].sp <= l.sp /\ cs[k].sp \in Nat
    BY <2>5, Zenon DEF Chain, IsContext, l
  <2>10. \A k \in 1 .. Len(ds) : ds[k].sp <= ds[Len(ds)].sp
    <3> TAKE k \in 1 .. Len(ds)
    <3>1. CASE k \in 1 .. n
      BY <1>2, <2>2, <2>3, <2>9, <3>1
    <3>2. CASE k = n + 1
      BY <1>1, <1>2, <3>2
    <3> QED BY <1>1, <1>2, <3>1, <3>2
  <2>11. ASSUME NEW k \in 1 .. Len(ds) - 1
         PROVE  /\ ds[k + 1].pc \in Interruptible
                /\ ds[k + 1].sp = ds[k].sp + Height(ds[k + 1].pc)
                /\ \A j \in 1 .. k : ds[j].sp <= ds[k].sp
                /\ Holds(z, ds[k], Height(ds[k + 1].pc))
                /\ Restored(ds[k], ds[k + 1].pc, ds[k + 1].regs)
    <3>1. CASE k = n
      <4>1. ds[k] = l /\ ds[k + 1] = c /\ \A j \in 1 .. k : ds[j] = cs[j]
        BY <1>2, <2>3, <3>1, Zenon DEF l
      <4> QED BY <2>1, <2>2, <2>6, <2>9, <3>1, <4>1, Zenon
    <3>2. CASE k \in 1 .. n - 1
      <4>1. ds[k] = cs[k] /\ ds[k + 1] = cs[k + 1] /\ \A j \in 1 .. k : ds[j] = cs[j]
        <5>1. k \in 1 .. n /\ k + 1 \in 1 .. n /\ \A j \in 1 .. k : j \in 1 .. n
          BY <1>1, <3>2
        <5> QED BY <1>2, <5>1, Zenon
      <4> QED BY <2>5, <3>2, <4>1, Zenon DEF Chain
    <3> QED BY <1>1, <1>2, <3>1, <3>2
  <2>12. Chain(f, z, ds)
    BY <1>2, <2>7, <2>8, <2>10, <2>11, Zenon DEF Chain
  <2> QED BY <2>12, Zenon DEF ds
<1> QED BY <1>1, <1>3, <1>4

\* A stack that has grown by m items of the last frame.
LEMMA Grown ==
  ASSUME NEW f, NEW s, NEW cs, NEW h \in Nat, NEW m \in Nat, NEW z,
         At(f, s, cs, h), Longer(z, s, m),
         \A i \in 1 .. m : z[Len(s) + i] = FrameItem(cs[Len(cs)], h + i)
  PROVE  At(f, z, cs, h + m)
<1> DEFINE n == Len(cs)
           c == cs[n]
<1>0. /\ Chain(f, s, cs) /\ n > 0 /\ Len(s) = c.sp + h /\ Holds(s, c, h)
      /\ IsSeq(z) /\ Len(z) = Len(s) + m /\ \A i \in 1 .. Len(s) : z[i] = s[i]
  BY Zenon DEF At, Longer
<1>1. n \in Nat /\ n \in 1 .. n /\ c.sp \in Nat
  BY <1>0, SeqFacts DEF Chain, IsContext
<1>3. \A i \in 1 .. c.sp : z[i] = s[i]
  <2>1. \A i \in 1 .. c.sp : i \in 1 .. Len(s)
    BY <1>0, <1>1
  <2> QED BY <1>0, <2>1, Zenon
<1>4. Chain(f, z, cs)
  BY <1>0, <1>3, ChainStack, Zenon
<1>5. Len(z) = c.sp + (h + m)
  BY <1>0, <1>1
<1>6. ASSUME NEW i \in 1 .. h + m
      PROVE  z[c.sp + i] = FrameItem(c, i)
  <2>1. CASE i <= h
    <3>1. i \in 1 .. h /\ c.sp + i \in 1 .. Len(s)
      BY <1>0, <1>1, <2>1
    <3> QED BY <1>0, <3>1, Zenon DEF Holds
  <2>2. CASE i > h
    <3>1. i - h \in 1 .. m /\ c.sp + i = Len(s) + (i - h) /\ h + (i - h) = i
      BY <1>0, <1>1, <2>2, Shift
    <3>2. z[Len(s) + (i - h)] = FrameItem(c, h + (i - h))
      BY <3>1, Zenon
    <3> QED BY <3>1, <3>2, Zenon
  <2> QED BY <1>1, <2>1, <2>2
<1> QED BY <1>0, <1>4, <1>5, <1>6, Zenon DEF Holds, At

\* One more item is pushed.
LEMMA PushedItem ==
  ASSUME NEW f, NEW s, NEW cs, NEW h \in Nat, At(f, s, cs, h),
         NEW x, x = FrameItem(cs[Len(cs)], h + 1)
  PROVE  At(f, s \o <<x>>, cs, h + 1)
<1> DEFINE z == s \o <<x>>
<1>1. IsSeq(s) /\ IsSeq(<<x>>) /\ Len(<<x>>) = 1 /\ <<x>>[1] = x
  BY SmallSeqs, Zenon DEF At, Chain
<1>2. /\ IsSeq(z) /\ Len(z) = Len(s) + Len(<<x>>) /\ \A i \in 1 .. Len(s) : z[i] = s[i]
      /\ \A i \in 1 .. Len(<<x>>) : z[Len(s) + i] = <<x>>[i]
  BY <1>1, ConcatFacts
<1> HIDE DEF z
<1>3. Longer(z, s, 1)
  BY <1>1, <1>2, Zenon DEF Longer
<1>4. \A i \in 1 .. 1 : z[Len(s) + i] = FrameItem(cs[Len(cs)], h + i)
  <2>1. \A i \in 1 .. 1 : i = 1
    OBVIOUS
  <2> QED BY <1>1, <1>2, <2>1, Zenon
<1>5. 1 \in Nat
  OBVIOUS
<1>6. At(f, z, cs, h + 1)
  BY <1>3, <1>4, <1>5, Grown, Zenon
<1> QED BY <1>6, Zenon DEF z

\* Registers are pushed.
LEMMA PushedRegs ==
  ASSUME NEW f, NEW s, NEW cs, NEW h \in Nat, At(f, s, cs, h),
         NEW rs, IsSeq(rs), NEW file, NEW bytes,
         \A i \in 1 .. Len(rs) : Item(rs[i], file[rs[i]], bytes) = FrameItem(cs[Len(cs)], h + i)
  PROVE  At(f, PushRegs(s, rs, file, bytes), cs, h + Len(rs))
<1> DEFINE z == PushRegs(s, rs, file, bytes)
<1>1. IsSeq(s) /\ Len(rs) \in Nat
  BY SeqFacts, Zenon DEF At, Chain
<1>3. Longer(z, s, Len(rs))
  BY <1>1, PushLonger, Zenon
<1>2. \A i \in 1 .. Len(rs) : z[Len(s) + i] = Item(rs[i], file[rs[i]], bytes)
  BY <1>1, PushLonger
<1> HIDE DEF z
<1>4. \A i \in 1 .. Len(rs) : z[Len(s) + i] = FrameItem(cs[Len(cs)], h + i)
  BY <1>2, Zenon
<1>5. At(f, z, cs, h + Len(rs))
  BY <1>1, <1>3, <1>4, Grown, Zenon
<1> QED BY <1>5, Zenon DEF z

\* Two more items are pushed.
LEMMA PushedPair ==
  ASSUME NEW f, NEW s, NEW cs, NEW h \in Nat, At(f, s, cs, h),
         NEW x, x = FrameItem(cs[Len(cs)], h + 1), NEW y, y = FrameItem(cs[Len(cs)], h + 2)
  PROVE  At(f, s \o <<x, y>>, cs, h + 2)
<1> DEFINE e == <<x, y>>
           z == s \o e
<1>1. IsSeq(s) /\ IsSeq(e) /\ Len(e) = 2 /\ e[1] = x /\ e[2] = y
  <2>1. e \in Seq({x, y})
    OBVIOUS
  <2>2. IsSeq(e)
    BY <2>1, SeqSelf, Zenon
  <2>3. Len(e) = 2 /\ e[1] = x /\ e[2] = y
    OBVIOUS
  <2> QED BY <2>2, <2>3, Zenon DEF At, Chain
<1> HIDE DEF e
<1>2. /\ IsSeq(z) /\ Len(z) = Len(s) + Len(e) /\ \A i \in 1 .. Len(s) : z[i] = s[i]
      /\ \A i \in 1 .. Len(e) : z[Len(s) + i] = e[i]
  <2>1. IsSeq(s) /\ IsSeq(e)
    BY <1>1, Zenon
  <2> QED BY <2>1, ConcatFacts
<1> HIDE DEF z
<1>3. Longer(z, s, 2)
  BY <1>1, <1>2, Zenon DEF Longer
<1>4. \A i \in 1 .. 2 : z[Len(s) + i] = FrameItem(cs[Len(cs)], h + i)
  <2>1. \A i \in 1 .. 2 : i = 1 \/ i = 2
    OBVIOUS
  <2> QED BY <1>1, <1>2, <2>1, Zenon
<1>5. 2 \in Nat
  OBVIOUS
<1>6. At(f, z, cs, h + 2)
  BY <1>3, <1>4, <1>5, Grown, Zenon
<1> QED BY <1>6, Zenon DEF z, e

\* The top of a stack with h items of the last frame, and what is left when
\* some of them are popped.
LEMMA Cut ==
  ASSUME NEW f, NEW s, NEW cs, NEW h \in Nat, At(f, s, cs, h)
  PROVE  /\ \A i \in 1 .. h : s[cs[Len(cs)].sp + i] = FrameItem(cs[Len(cs)], i)
         /\ \A n \in 0 .. h : At(f, SubSeq(s, 1, Len(s) - n), cs, h - n)
         /\ Len(s) = cs[Len(cs)].sp + h /\ cs[Len(cs)].sp \in Nat /\ IsSeq(s)
<1> DEFINE c == cs[Len(cs)]
<1>1. Chain(f, s, cs) /\ Len(cs) > 0 /\ Len(s) = c.sp + h /\ Holds(s, c, h) /\ IsSeq(s)
  BY Zenon DEF At, Chain
<1>2. Len(cs) \in Nat /\ Len(cs) \in 1 .. Len(cs) /\ c.sp \in Nat
  BY <1>1, SeqFacts DEF Chain, IsContext
<1>3. ASSUME NEW n \in 0 .. h PROVE At(f, SubSeq(s, 1, Len(s) - n), cs, h - n)
  <2>1. h - n \in 0 .. h /\ Len(s) - n = c.sp + (h - n) /\ Len(s) >= c.sp + h
    BY <1>1, <1>2
  <2> DEFINE g == h - n
  <2> HIDE DEF g
  <2>2. g \in 0 .. h
    BY <2>1, Zenon DEF g
  <2>3. /\ Chain(f, SubSeq(s, 1, c.sp + g), cs)
        /\ Len(SubSeq(s, 1, c.sp + g)) = c.sp + g
        /\ Holds(SubSeq(s, 1, c.sp + g), c, g)
    BY <1>1, <2>1, <2>2, CutDown, Zenon
  <2> QED BY <1>1, <2>1, <2>3, Zenon DEF At, g
<1> QED BY <1>1, <1>2, <1>3, Zenon DEF Holds

\* A chain without its last context, and the code that this one interrupted.
LEMMA ChainPop ==
  ASSUME NEW f, NEW z, NEW cs, At(f, z, cs, 0)
  PROVE  /\ Chain(f, z, SubSeq(cs, 1, Len(cs) - 1))
         /\ Runs(cs[Len(cs)].pc, cs[Len(cs)].intr, cs[Len(cs)].regs, f, z, SubSeq(cs, 1, Len(cs) - 1))
<1> DEFINE n == Len(cs)
           c == cs[n]
           m == n - 1
           ds == SubSeq(cs, 1, m)
<1>1. Chain(f, z, cs) /\ n > 0 /\ Len(z) = c.sp + 0 /\ IsSeq(cs) /\ IsSeq(z)
  BY Zenon DEF At, Chain
<1>2. n \in Nat /\ n \in 1 .. n /\ m \in 0 .. n /\ m \in Nat /\ n = m + 1 /\ Len(z) \in Nat
  BY <1>1, SeqFacts
<1>3. IsSeq(ds) /\ Len(ds) = m /\ \A i \in 1 .. m : ds[i] = cs[i]
  BY <1>1, <1>2, PrefixFacts, Zenon
<1>4. c.sp \in Nat /\ Len(z) = c.sp
  BY <1>1, <1>2 DEF Chain, IsContext
<1> HIDE DEF ds
<1>5. CASE n = 1
  <2>1. c.sp = 0 /\ c.pc = "task" /\ c.intr = TRUE /\ c.regs = f
    BY <1>1, <1>5, Zenon DEF Chain
  <2>2. z = <<>>
    BY <1>1, <1>4, <2>1, SeqEmpty, Zenon DEF IsSeq
  <2>3. m = 0 /\ Len(ds) = 0 /\ 1 .. Len(ds) = {} /\ 1 .. Len(ds) - 1 = {} /\ ~ (Len(ds) > 0)
    BY <1>3, <1>5
  <2>4. Chain(f, z, ds)
    BY <1>1, <1>3, <2>3, Zenon DEF Chain
  <2>5. Runs(c.pc, c.intr, c.regs, f, z, ds)
    BY <2>1, <2>2, <2>3, Zenon DEF Runs
  <2> QED BY <2>4, <2>5, Zenon DEF ds
<1>6. CASE n > 1
  <2>1. m \in 1 .. m /\ m > 0 /\ m \in 1 .. n - 1 /\ 1 \in 1 .. m
    BY <1>2, <1>6
  <2> DEFINE d == cs[m]
  <2>2. /\ c.pc \in Interruptible /\ c.sp = d.sp + Height(c.pc)
        /\ \A j \in 1 .. m : cs[j].sp <= d.sp
        /\ Holds(z, d, Height(c.pc)) /\ Restored(d, c.pc, c.regs)
    <3>1. cs[m + 1] = c
      BY <1>2, Zenon
    <3> QED BY <1>1, <2>1, <3>1, Zenon DEF Chain
  <2>3. ds[Len(ds)] = d /\ Len(ds) > 0
    BY <1>3, <2>1, Zenon
  <2>4. \A k \in 1 .. Len(ds) : IsContext(ds[k])
    <3>1. \A k \in 1 .. m : k \in 1 .. n
      BY <1>2
    <3> QED BY <1>1, <1>3, <3>1, Zenon DEF Chain
  <2>5. ds[1].sp = 0 /\ ds[1].pc = "task" /\ ds[1].intr = TRUE /\ ds[1].regs = f
    <3>1. ds[1] = cs[1]
      BY <1>3, <2>1, Zenon
    <3>2. cs[1].sp = 0 /\ cs[1].pc = "task" /\ cs[1].intr = TRUE /\ cs[1].regs = f
      BY <1>1, Zenon DEF Chain
    <3> QED BY <3>1, <3>2, Zenon
  <2>6. \A k \in 1 .. Len(ds) : ds[k].sp <= ds[Len(ds)].sp
    BY <1>3, <2>2, <2>3, Zenon
  <2>7. ASSUME NEW k \in 1 .. Len(ds) - 1
        PROVE  /\ ds[k + 1].pc \in Interruptible
               /\ ds[k + 1].sp = ds[k].sp + Height(ds[k + 1].pc)
               /\ \A j \in 1 .. k : ds[j].sp <= ds[k].sp
               /\ Holds(z, ds[k], Height(ds[k + 1].pc))
               /\ Restored(ds[k], ds[k + 1].pc, ds[k + 1].regs)
    <3>1. k \in 1 .. m /\ k + 1 \in 1 .. m /\ k \in 1 .. n - 1 /\ \A j \in 1 .. k : j \in 1 .. m
      BY <1>2, <1>3
    <3>2. ds[k] = cs[k] /\ ds[k + 1] = cs[k + 1] /\ \A j \in 1 .. k : ds[j] = cs[j]
      BY <1>3, <3>1, Zenon
    <3>3. /\ cs[k + 1].pc \in Interruptible
          /\ cs[k + 1].sp = cs[k].sp + Height(cs[k + 1].pc)
          /\ \A j \in 1 .. k : cs[j].sp <= cs[k].sp
          /\ Holds(z, cs[k], Height(cs[k + 1].pc))
          /\ Restored(cs[k], cs[k + 1].pc, cs[k + 1].regs)
      BY <1>1, <3>1, Zenon DEF Chain
    <3> QED BY <3>2, <3>3, Zenon
  <2>8. Chain(f, z, ds)
    BY <1>1, <1>3, <2>4, <2>5, <2>6, <2>7, Zenon DEF Chain
  <2>9. TopHeight(c.pc, d) = Height(c.pc) /\ c.pc # "task" /\ c.pc \notin {"stub", "alltraps"}
    BY <2>2, Zenon DEF TopHeight, Interruptible
  <2> HIDE DEF d, c
  <2>10. Len(z) = d.sp + TopHeight(c.pc, d) /\ Holds(z, d, TopHeight(c.pc, d)) /\ Restored(d, c.pc, c.regs)
    BY <1>4, <2>2, <2>9, Zenon
  <2>11. c.pc \in Interruptible \cup {"stub", "alltraps"}
    BY <2>2, Zenon
  <2>12. Runs(c.pc, c.intr, c.regs, f, z, ds)
    BY <2>3, <2>9, <2>10, <2>11, Zenon DEF Runs
  <2> QED BY <2>8, <2>12, Zenon DEF ds, c
<1> QED BY <1>1, <1>2, <1>5, <1>6

\* The thread that is switched out waits.
LEMMA SwitchedOut ==
  ASSUME NEW f, NEW s, NEW cs, At(f, s, cs, 19), NEW file
  PROVE  LET y == PushRegs(Append(s, Item("ret", Code("switched"), 4)), Callee, file, 4)
         IN  Chain(f, y, cs) /\ Waits(y, cs)
<1> DEFINE n == Len(cs)
           c == cs[n]
           x == Item("ret", Code("switched"), 4)
           w == Append(s, x)
           y == PushRegs(w, Callee, file, 4)
<1>1. Chain(f, s, cs) /\ n > 0 /\ Len(s) = c.sp + 19 /\ Holds(s, c, 19) /\ IsSeq(s) /\ IsSeq(cs)
  BY Zenon DEF At, Chain
<1>2. n \in Nat /\ n \in 1 .. n /\ Len(s) \in Nat
  BY <1>1, SeqFacts
<1>3. c.sp \in Nat
  BY <1>1, <1>2, Zenon DEF Chain, IsContext
<1>4. IsSeq(Callee) /\ Len(Callee) = 4
  <2>1. Callee \in Seq({"ebx", "esi", "edi", "ebp"}) /\ Len(Callee) = 4
    BY DEF Callee
  <2> QED BY <2>1, SeqSelf, Zenon
<1> HIDE DEF x
<1>5. IsSeq(w) /\ Len(w) = Len(s) + 1 /\ (\A i \in 1 .. Len(s) : w[i] = s[i]) /\ w[Len(s) + 1] = x
  BY <1>1, AppendFacts
<1> HIDE DEF w
<1>6. Longer(y, w, Len(Callee))
  BY <1>4, <1>5, PushLonger, Zenon
<1> HIDE DEF y
<1>7. IsSeq(y) /\ Len(y) = Len(w) + 4 /\ \A i \in 1 .. Len(w) : y[i] = w[i]
  BY <1>4, <1>6, Zenon DEF Longer
<1>8. \A i \in 1 .. Len(s) : y[i] = s[i]
  <2>1. \A i \in 1 .. Len(s) : i \in 1 .. Len(w)
    BY <1>2, <1>5
  <2> QED BY <1>5, <1>7, <2>1, Zenon
<1>9. y[Len(s) + 1] = x
  <2>1. Len(s) + 1 \in 1 .. Len(w)
    BY <1>2, <1>5
  <2> QED BY <1>5, <1>7, <2>1, Zenon
<1>10. Chain(f, y, cs)
  <2>1. \A i \in 1 .. c.sp : i \in 1 .. Len(s)
    BY <1>1, <1>3
  <2>2. \A i \in 1 .. c.sp : y[i] = s[i]
    BY <1>8, <2>1, Zenon
  <2>3. IsSeq(y)
    BY <1>7, Zenon
  <2> QED BY <1>1, <2>2, <2>3, ChainStack, Zenon
<1>11. Len(y) = c.sp + 24 /\ Len(s) + 1 = c.sp + 20
  BY <1>1, <1>3, <1>5, <1>7
<1>12. Holds(y, c, 19)
  <2>1. \A i \in 1 .. 19 : c.sp + i \in 1 .. Len(s)
    BY <1>1, <1>3
  <2> QED BY <1>1, <1>8, <2>1, Zenon DEF Holds
<1>13. x.value[2] = "switched"
  BY Zenon DEF x, Item, Code
<1>14. y[c.sp + 20].value[2] = "switched"
  BY <1>9, <1>11, <1>13, Zenon
<1>15. Waits(y, cs)
  <2>1. n # 0
    BY <1>1, <1>2
  <2> QED BY <1>11, <1>12, <1>14, <2>1, Zenon DEF Waits
<1> QED BY <1>10, <1>15, Zenon DEF y, w, x

\* The thread that is switched in starts its task or is back in its handler.
LEMMA SwitchedIn ==
  ASSUME NEW f, NEW w, NEW cs, Chain(f, w, cs), Waits(w, cs), NEW file
  PROVE  LET z == SubSeq(w, 1, Len(w) - 5)
             p == w[Len(w) - 4].value[2]
             g == IF p = "task" THEN file ELSE f
         IN  Chain(g, z, cs) /\ Runs(p, TRUE, file, g, z, cs)
<1> DEFINE n == Len(cs)
           c == cs[n]
           z == SubSeq(w, 1, Len(w) - 5)
           p == w[Len(w) - 4].value[2]
           g == IF p = "task" THEN file ELSE f
<1>1. IsSeq(w) /\ IsSeq(cs) /\ n \in Nat /\ Len(w) \in Nat
  BY SeqFacts, Zenon DEF Chain
<1>2. CASE n = 0
  <2>1. Len(w) = 5 /\ w[1].value[2] = "task"
    BY <1>2, Zenon DEF Waits
  <2>2. p = "task" /\ g = file
    <3>1. Len(w) - 4 = 1
      BY <2>1
    <3>2. p = "task"
      BY <2>1, <3>1, Zenon
    <3> QED BY <3>2, Zenon
  <2>3. z = <<>> /\ IsSeq(z)
    <3>1. Len(w) - 5 = 0 /\ 0 \in 0 .. Len(w)
      BY <2>1
    <3>2. IsSeq(SubSeq(w, 1, 0)) /\ Len(SubSeq(w, 1, 0)) = 0
      BY <1>1, <3>1, PrefixFacts, Zenon
    <3>3. IsSeq(z) /\ Len(z) = 0
      BY <3>1, <3>2, Zenon
    <3> HIDE DEF z
    <3> QED BY <3>3, SeqEmpty, Zenon DEF IsSeq
  <2> HIDE DEF z, p, g
  <2>4. 1 .. n = {} /\ 1 .. n - 1 = {} /\ ~ (n > 0)
    BY <1>2
  <2>5. Chain(g, z, cs)
    BY <1>1, <2>3, <2>4, Zenon DEF Chain
  <2>6. Runs(p, TRUE, file, g, z, cs)
    BY <1>2, <2>2, <2>3, Zenon DEF Runs
  <2> QED BY <2>5, <2>6, Zenon DEF z, p, g
<1>3. CASE n # 0
  <2>1. Len(w) = c.sp + 24 /\ Holds(w, c, 19) /\ w[c.sp + 20].value[2] = "switched"
    BY <1>3, Zenon DEF Waits
  <2>2. n > 0 /\ n \in 1 .. n
    BY <1>1, <1>3
  <2>3. c.sp \in Nat
    BY <2>2, Zenon DEF Chain, IsContext
  <2>4. Len(w) - 4 = c.sp + 20 /\ Len(w) - 5 = c.sp + 19 /\ Len(w) >= c.sp + 19
    BY <2>1, <2>3
  <2>5. p = "switched" /\ g = f
    <3>1. p = "switched"
      BY <2>1, <2>4, Zenon
    <3> QED BY <3>1, Zenon
  <2>6. Chain(f, z, cs) /\ Len(z) = c.sp + 19 /\ Holds(z, c, 19)
    <3>1. 19 \in Nat /\ 19 \in 0 .. 19
      OBVIOUS
    <3>2. Len(w) >= c.sp + 19 /\ Holds(w, c, 19)
      BY <2>1, <2>4, Zenon
    <3>3. LET x == SubSeq(w, 1, c.sp + 19)
          IN  Chain(f, x, cs) /\ Len(x) = c.sp + 19 /\ Holds(x, c, 19)
      BY <2>2, <2>3, <3>1, <3>2, CutDown
    <3> QED BY <2>4, <3>3, Zenon
  <2> HIDE DEF z, p, g
  <2>7. TopHeight(p, c) = 19 /\ Restored(c, p, file)
    BY <2>5, Heights, Zenon DEF TopHeight, Restored
  <2>8. p # "task" /\ p \in Interruptible \cup {"stub", "alltraps"} /\ p \notin {"stub", "alltraps"}
    BY <2>5, Zenon DEF Interruptible
  <2>9. Runs(p, TRUE, file, g, z, cs)
    BY <2>2, <2>6, <2>7, <2>8, Zenon DEF Runs
  <2> QED BY <2>5, <2>6, <2>9, Zenon DEF z, p, g
<1> QED BY <1>2, <1>3, Zenon

-----------------------------------------------------------------------------
(* The invariant.                                                          *)

TrapInv ==
    /\ cpu \in Threads
    /\ stk = [t \in Threads |-> stk[t]] /\ ctx = [t \in Threads |-> ctx[t]]
    /\ task = [t \in Threads |-> task[t]]
    /\ IsFile(regs) /\ intr \in BOOLEAN
    /\ \A t \in Threads : Chain(task[t], stk[t], ctx[t])
    /\ Runs(pc, intr, regs, task[cpu], stk[cpu], ctx[cpu])
    /\ \A t \in Threads \ {cpu} : Waits(stk[t], ctx[t])

\* A step of the thread that runs, which leaves the others alone.
LEMMA LocalStep ==
  ASSUME TrapInv, NEW z, NEW ds, NEW f,
         cpu' = cpu, stk' = [stk EXCEPT ![cpu] = z], ctx' = [ctx EXCEPT ![cpu] = ds],
         task' = [task EXCEPT ![cpu] = f], IsFile(regs'), intr' \in BOOLEAN,
         Chain(f, z, ds), Runs(pc', intr', regs', f, z, ds)
  PROVE  TrapInv'
<1>1. /\ stk' = [t \in Threads |-> IF t = cpu THEN z ELSE stk[t]]
      /\ ctx' = [t \in Threads |-> IF t = cpu THEN ds ELSE ctx[t]]
      /\ task' = [t \in Threads |-> IF t = cpu THEN f ELSE task[t]]
      /\ cpu' \in Threads
  BY Zenon DEF TrapInv
<1>2. /\ stk' = [t \in Threads |-> stk'[t]] /\ ctx' = [t \in Threads |-> ctx'[t]]
      /\ task' = [t \in Threads |-> task'[t]]
  BY <1>1, Zenon
<1>3. /\ stk'[cpu] = z /\ ctx'[cpu] = ds /\ task'[cpu] = f
      /\ \A t \in Threads \ {cpu} :
           stk'[t] = stk[t] /\ ctx'[t] = ctx[t] /\ task'[t] = task[t]
  BY <1>1, Zenon DEF TrapInv
<1>4. \A t \in Threads : Chain(task'[t], stk'[t], ctx'[t])
  BY <1>3, Zenon DEF TrapInv
<1>5. \A t \in Threads \ {cpu'} : Waits(stk'[t], ctx'[t])
  BY <1>3, Zenon DEF TrapInv
<1>6. Runs(pc', intr', regs', task'[cpu'], stk'[cpu'], ctx'[cpu'])
  BY <1>3, Zenon
<1>7. (IsFile(regs))'
  BY Zenon DEF IsFile
<1> QED BY <1>1, <1>2, <1>4, <1>5, <1>6, <1>7, Zenon DEF TrapInv

\* Functions updated with what they hold.
LEMMA Same ==
  ASSUME TrapInv
  PROVE  /\ ctx = [ctx EXCEPT ![cpu] = ctx[cpu]] /\ task = [task EXCEPT ![cpu] = task[cpu]]
         /\ stk = [stk EXCEPT ![cpu] = stk[cpu]]
BY Zenon DEF TrapInv

\* The stack KThreadRun prepares.
LEMMA FreshStack == IsSeq(KThreadRun) /\ Len(KThreadRun) = 5 /\ KThreadRun[1].value[2] = "task"
<1> DEFINE a == <<Item("ret", Code("task"), 4)>>
           b == [i \in 1 .. 4 |-> Item(Callee[i], Num(0), 4)]
<1>1. IsSeq(a) /\ Len(a) = 1 /\ a[1] = Item("ret", Code("task"), 4)
  <2>1. a \in Seq({Item("ret", Code("task"), 4)})
    OBVIOUS
  <2> QED BY <2>1, SeqSelf, Zenon
<1>2. IsSeq(b) /\ Len(b) = 4
  <2>1. b = <<b[1], b[2], b[3], b[4]>>
    OBVIOUS
  <2> HIDE DEF b
  <2>2. <<b[1], b[2], b[3], b[4]>> \in Seq({b[1], b[2], b[3], b[4]})
    OBVIOUS
  <2>3. Len(<<b[1], b[2], b[3], b[4]>>) = 4
    OBVIOUS
  <2>4. b \in Seq({b[1], b[2], b[3], b[4]})
    BY <2>1, <2>2, Zenon
  <2>5. Len(b) = 4
    BY <2>1, <2>3, Zenon
  <2> QED BY <2>4, <2>5, SeqSelf, Zenon
<1>3. KThreadRun = a \o b
  BY Zenon DEF KThreadRun
<1> HIDE DEF a, b
<1>4. IsSeq(a \o b) /\ Len(a \o b) = Len(a) + Len(b) /\ \A i \in 1 .. Len(a) : (a \o b)[i] = a[i]
  BY <1>1, <1>2, ConcatFacts, Zenon
<1>5. (a \o b)[1] = Item("ret", Code("task"), 4)
  BY <1>1, <1>4
<1>6. Item("ret", Code("task"), 4).value[2] = "task"
  BY Zenon DEF Item, Code
<1> QED BY <1>1, <1>2, <1>3, <1>4, <1>5, <1>6

\* The main thread runs, the others have their first stack.
LEMMA InitTrap == Init => TrapInv
<1> SUFFICES ASSUME Init PROVE TrapInv
  OBVIOUS
<1>1. IsSeq(<<>>) /\ Len(<<>>) = 0
  BY SeqSelf, SeqEmpty, Zenon
<1>2. ASSUME NEW f, NEW s, IsSeq(s) PROVE Chain(f, s, <<>>)
  BY <1>1, <1>2 DEF Chain
<1>3. /\ cpu = Main /\ cpu \in Threads
      /\ stk = [t \in Threads |-> stk[t]] /\ ctx = [t \in Threads |-> ctx[t]]
      /\ task = [t \in Threads |-> task[t]]
      /\ \A t \in Threads : ctx[t] = <<>> /\ stk[t] = IF t = Main THEN <<>> ELSE KThreadRun
      /\ task[cpu] = regs
  BY TrapAssumption, Zenon DEF Init
<1>4. \A t \in Threads : Chain(task[t], stk[t], ctx[t])
  BY <1>1, <1>2, <1>3, FreshStack, Zenon
<1>5. Runs(pc, intr, regs, task[cpu], stk[cpu], ctx[cpu])
  BY <1>1, <1>3, Zenon DEF Init, Runs
<1>6. \A t \in Threads \ {cpu} : Waits(stk[t], ctx[t])
  BY <1>1, <1>3, FreshStack, Zenon DEF Waits
<1>7. IsFile(regs) /\ intr \in BOOLEAN
  BY FileFacts, Zenon DEF Init
<1> QED BY <1>3, <1>4, <1>5, <1>6, <1>7, Zenon DEF TrapInv

\* The task's own code: no frame is on its stack.
LEMMA WorkKeeps == ASSUME TrapInv, Work PROVE TrapInv'
<1>1. /\ pc = "task" /\ task' = [task EXCEPT ![cpu] = regs']
      /\ UNCHANGED <<cpu, pc, intr, stk, ctx>>
  BY Zenon DEF Work
<1>2. IsFile(regs')
  <2>1. PICK n \in {0, 1} : regs' = TaskRegs(cpu, n)
    BY Zenon DEF Work
  <2> QED BY <2>1, FileFacts, Zenon
<1>3. cpu \in Threads /\ intr \in BOOLEAN
      /\ Runs(pc, intr, regs, task[cpu], stk[cpu], ctx[cpu])
      /\ Chain(task[cpu], stk[cpu], ctx[cpu])
  BY Zenon DEF TrapInv
<1>4. Chain(regs', stk[cpu], ctx[cpu])
  BY <1>1, <1>3 DEF Chain, Runs
<1>5. Runs(pc', intr', regs', regs', stk[cpu], ctx[cpu])
  BY <1>1, <1>3, Zenon DEF Runs
<1> QED BY <1>1, <1>2, <1>3, <1>4, <1>5, Same, LocalStep, Zenon

\* The processor pushes the first items of a new frame.
LEMMA InterruptKeeps == ASSUME TrapInv, NEW v \in Vectors, Interrupt(v) PROVE TrapInv'
<1> DEFINE s == stk[cpu]
           cs == ctx[cpu]
           err == IF v \in HasErrorCode THEN ErrCode ELSE Num(0)
           e == <<Item("eflags", Flag(intr), 4), Item("cs", Num(kKCodeSeg), 4), Item("eip", Code(pc), 4)>>
           x == IF v \in HasErrorCode THEN <<Item("err_code", err, 4)>> ELSE <<>>
           z == (s \o e) \o x
           c == [vec |-> v, err |-> err, regs |-> regs, pc |-> pc, intr |-> intr, sp |-> Len(s)]
           ds == Append(cs, c)
<1>1. /\ cpu' = cpu /\ stk' = [stk EXCEPT ![cpu] = z] /\ ctx' = [ctx EXCEPT ![cpu] = ds]
      /\ pc' = "stub" /\ intr' = FALSE /\ regs' = regs /\ task' = [task EXCEPT ![cpu] = task[cpu]]
  <2>1. /\ cpu' = cpu /\ pc' = "stub" /\ intr' = FALSE /\ regs' = regs /\ task' = task
    BY Zenon DEF Interrupt
  <2>2. stk' = [stk EXCEPT ![cpu] = z] /\ ctx' = [ctx EXCEPT ![cpu] = ds]
    BY Zenon DEF Interrupt
  <2> QED BY <2>1, <2>2, Same, Zenon
<1>2. Chain(task[cpu], s, cs) /\ Runs(pc, intr, regs, task[cpu], s, cs)
      /\ IsFile(regs) /\ intr \in BOOLEAN
  BY Zenon DEF TrapInv
<1>3. pc \in Interruptible \cup {"task"}
  <2>1. CASE v < kIdtExcNum
    BY <2>1, Zenon DEF Interrupt, Interruptible
  <2>2. CASE ~ (v < kIdtExcNum)
    <3>1. intr
      BY <2>2, Zenon DEF Interrupt
    <3> QED BY <1>2, <3>1, Zenon DEF Runs
  <2> QED BY <2>1, <2>2, Zenon
<1>4. IsSeq(s) /\ IsSeq(cs) /\ Len(s) \in Nat /\ Len(cs) \in Nat
  BY <1>2, SeqFacts, Zenon DEF Chain
<1>5. /\ c.vec = v /\ c.err = err /\ c.regs = regs /\ c.pc = pc /\ c.intr = intr /\ c.sp = Len(s)
  OBVIOUS
<1>6. IsContext(c)
  <2> HIDE DEF c
  <2> QED BY <1>2, <1>4, <1>5, Zenon DEF IsContext
<1> HIDE DEF s, cs, err, c
<1>7. IsSeq(e) /\ Len(e) = 3
      /\ e[1] = FrameItem(c, 1) /\ e[2] = FrameItem(c, 2) /\ e[3] = FrameItem(c, 3)
  BY <1>5, SmallSeqs, FrameItems, Zenon
<1>8. /\ IsSeq(x)
      /\ v \in HasErrorCode => Len(x) = 1 /\ x[1] = FrameItem(c, 4)
      /\ v \notin HasErrorCode => Len(x) = 0
  <2>1. CASE v \in HasErrorCode
    <3>1. x = <<Item("err_code", err, 4)>>
      BY <2>1, Zenon
    <3> HIDE DEF x
    <3> QED BY <1>5, <2>1, <3>1, SmallSeqs, FrameItems, Zenon
  <2>2. CASE v \notin HasErrorCode
    <3>1. x = <<>>
      BY <2>2, Zenon
    <3> HIDE DEF x
    <3> QED BY <2>2, <3>1, SmallSeqs, Zenon
  <2> QED BY <2>1, <2>2, Zenon
<1> HIDE DEF e, x
<1>9. /\ IsSeq(z) /\ Len(z) = Len(s) + Len(e) + Len(x)
      /\ \A i \in 1 .. Len(s) : z[i] = s[i]
      /\ \A i \in 1 .. Len(e) : z[Len(s) + i] = e[i]
      /\ \A i \in 1 .. Len(x) : z[Len(s) + Len(e) + i] = x[i]
  <2>1. IsSeq(s) /\ IsSeq(e) /\ IsSeq(x)
    BY <1>4, <1>7, <1>8, Zenon
  <2> QED BY <2>1, ConcatTwice
<1> HIDE DEF z
<1>11. IsSeq(z)
  BY <1>9, Zenon
<1>12. \A i \in 1 .. Len(s) : z[i] = s[i]
  BY <1>9, Zenon
<1>13. z[Len(s) + 1] = FrameItem(c, 1) /\ z[Len(s) + 2] = FrameItem(c, 2) /\ z[Len(s) + 3] = FrameItem(c, 3)
  <2>1. 1 \in 1 .. 3 /\ 2 \in 1 .. 3 /\ 3 \in 1 .. 3
    OBVIOUS
  <2> QED BY <1>7, <1>9, <2>1, Zenon
<1>14. Chain(task[cpu], z, ds)
  BY <1>2, <1>3, <1>5, <1>6, <1>11, <1>12, ChainAppend, Zenon
<1>15. Len(ds) = Len(cs) + 1 /\ ds[Len(ds)] = c /\ Len(ds) > 0
  BY <1>4, AppendFacts
<1> HIDE DEF ds
<1>16. Len(z) = c.sp + TopHeight("stub", c) /\ Holds(z, c, TopHeight("stub", c))
  <2>1. CASE v \in HasErrorCode
    <3>1. TopHeight("stub", c) = 4
      BY <1>5, <2>1, Zenon DEF TopHeight
    <3>2. z[Len(s) + 4] = FrameItem(c, 4)
      <4>1. 1 \in 1 .. 1 /\ Len(s) + 3 + 1 = Len(s) + 4
        BY <1>4
      <4>2. z[Len(s) + 3 + 1] = x[1]
        BY <1>7, <1>8, <1>9, <2>1, <4>1, Zenon
      <4> QED BY <1>8, <2>1, <4>1, <4>2, Zenon
    <3>4. \A i \in 1 .. 4 : z[Len(s) + i] = FrameItem(c, i)
      <4>1. \A i \in 1 .. 4 : i = 1 \/ i = 2 \/ i = 3 \/ i = 4
        OBVIOUS
      <4> QED BY <1>13, <3>2, <4>1, Zenon
    <3>5. Len(z) = Len(s) + 4
      <4>1. Len(z) = Len(s) + 3 + 1
        BY <1>7, <1>8, <1>9, <2>1, Zenon
      <4> QED BY <1>4, <4>1
    <3> QED BY <1>5, <3>1, <3>4, <3>5, Zenon DEF Holds
  <2>2. CASE v \notin HasErrorCode
    <3>1. TopHeight("stub", c) = 3
      BY <1>5, <2>2, Zenon DEF TopHeight
    <3>4. \A i \in 1 .. 3 : z[Len(s) + i] = FrameItem(c, i)
      <4>1. \A i \in 1 .. 3 : i = 1 \/ i = 2 \/ i = 3
        OBVIOUS
      <4> QED BY <1>13, <4>1, Zenon
    <3>5. Len(z) = Len(s) + 3
      <4>1. Len(z) = Len(s) + 3 + 0
        BY <1>7, <1>8, <1>9, <2>2, Zenon
      <4> QED BY <1>4, <4>1
    <3> QED BY <1>5, <3>1, <3>4, <3>5, Zenon DEF Holds
  <2> QED BY <2>1, <2>2, Zenon
<1>17. Restored(c, "stub", regs)
  BY <1>5, Zenon DEF Restored
<1>18. Runs("stub", FALSE, regs, task[cpu], z, ds)
  BY <1>15, <1>16, <1>17, Zenon DEF Runs
<1>19. IsFile(regs') /\ intr' \in BOOLEAN /\ Runs(pc', intr', regs', task[cpu], z, ds)
  BY <1>1, <1>2, <1>18, Zenon
<1> QED BY <1>1, <1>14, <1>19, LocalStep, Zenon

\* The thread that runs and its interrupt.
LEMMA Serving ==
  ASSUME TrapInv, pc # "task"
  PROVE  LET cs == ctx[cpu]
             c == cs[Len(cs)]
         IN  /\ Chain(task[cpu], stk[cpu], cs) /\ Len(cs) > 0 /\ Len(cs) \in 1 .. Len(cs)
             /\ Last(cs) = c /\ IsContext(c) /\ c.sp \in Nat
             /\ At(task[cpu], stk[cpu], cs, TopHeight(pc, c))
             /\ Restored(c, pc, regs)
             /\ pc # "stub" => TopHeight(pc, c) = Height(pc)
             /\ IsFile(regs) /\ intr \in BOOLEAN
             /\ pc \in {"stub", "alltraps"} => intr = FALSE
             /\ IsSeq(cs) /\ Len(cs) \in Nat /\ IsSeq(stk[cpu])
<1> DEFINE cs == ctx[cpu]
           c == cs[Len(cs)]
<1>1. Chain(task[cpu], stk[cpu], cs) /\ Runs(pc, intr, regs, task[cpu], stk[cpu], cs)
      /\ IsFile(regs) /\ intr \in BOOLEAN
  BY Zenon DEF TrapInv
<1> HIDE DEF cs
<1>2. /\ Len(cs) > 0 /\ Len(stk[cpu]) = c.sp + TopHeight(pc, c)
      /\ Holds(stk[cpu], c, TopHeight(pc, c)) /\ Restored(c, pc, regs)
      /\ pc \in {"stub", "alltraps"} => intr = FALSE
  BY <1>1, Zenon DEF Runs
<1>3. IsSeq(cs) /\ IsSeq(stk[cpu]) /\ Len(cs) \in Nat
  BY <1>1, SeqFacts, Zenon DEF Chain
<1>4. Len(cs) \in 1 .. Len(cs)
  BY <1>2, <1>3
<1>5. IsContext(c) /\ c.sp \in Nat
  BY <1>1, <1>4, Zenon DEF Chain, IsContext
<1>6. Last(cs) = c
  BY Zenon DEF Last
<1>7. pc # "stub" => TopHeight(pc, c) = Height(pc)
  BY Zenon DEF TopHeight
<1>8. At(task[cpu], stk[cpu], cs, TopHeight(pc, c))
  BY <1>1, <1>2, Zenon DEF At
<1> QED BY <1>1, <1>2, <1>3, <1>4, <1>5, <1>6, <1>7, <1>8, Zenon DEF cs

\* A step of the thread that runs, within its handler or to its end.
LEMMA ServingStep ==
  ASSUME TrapInv, pc # "task", NEW z,
         cpu' = cpu, stk' = [stk EXCEPT ![cpu] = z], ctx' = ctx, task' = task,
         IsFile(regs'), intr' \in BOOLEAN,
         pc' \in Interruptible \/ (pc' = "alltraps" /\ intr' = FALSE),
         At(task[cpu], z, ctx[cpu], Height(pc')),
         Restored(ctx[cpu][Len(ctx[cpu])], pc', regs')
  PROVE  TrapInv'
<1> DEFINE cs == ctx[cpu]
           c == cs[Len(cs)]
<1>1. pc' # "task" /\ pc' # "stub" /\ pc' \in Interruptible \cup {"stub", "alltraps"}
  BY Zenon DEF Interruptible
<1>2. Len(cs) > 0
  BY Serving, Zenon
<1>3. TopHeight(pc', c) = Height(pc')
  BY <1>1, Zenon DEF TopHeight
<1>4. pc' \in {"stub", "alltraps"} => intr' = FALSE
  BY Zenon DEF Interruptible
<1>5. Runs(pc', intr', regs', task[cpu], z, cs)
  <2> HIDE DEF cs
  <2>1. /\ Len(z) = c.sp + TopHeight(pc', c) /\ Holds(z, c, TopHeight(pc', c)) /\ Restored(c, pc', regs')
    BY <1>3, Zenon DEF cs, At
  <2> QED BY <1>1, <1>2, <1>4, <2>1, Zenon DEF Runs
<1>6. ctx' = [ctx EXCEPT ![cpu] = cs] /\ task' = [task EXCEPT ![cpu] = task[cpu]]
  BY Same, Zenon
<1>7. Chain(task[cpu], z, cs)
  BY Zenon DEF At
<1> QED BY <1>5, <1>6, <1>7, LocalStep, Zenon

\* The stub completes the error code and the vector.
LEMMA StubKeeps == ASSUME TrapInv, Stub PROVE TrapInv'
<1> DEFINE s == stk[cpu]
           cs == ctx[cpu]
           c == cs[Len(cs)]
           f == task[cpu]
           v == c.vec
           x == Item("err_code", Num(0), 4)
           zero == IF PushesZero(v) THEN <<x>> ELSE <<>>
           no == Item("intr_vec_no", Num(v), 4)
           y == s \o zero
<1>0. pc = "stub"
  BY Zenon DEF Stub
<1>1. /\ Last(cs) = c /\ IsContext(c) /\ IsSeq(s) /\ At(f, s, cs, TopHeight(pc, c))
      /\ Restored(c, pc, regs) /\ IsFile(regs)
  <2>1. pc # "task"
    BY <1>0, Zenon
  <2> QED BY <2>1, Serving, Zenon
<1>2. intr_vec[v] = v
  BY <1>1, Zenon DEF intr_vec, IsContext
<1>3. /\ stk' = [stk EXCEPT ![cpu] = y \o <<no>>]
      /\ cpu' = cpu /\ pc' = "alltraps" /\ intr' = FALSE /\ regs' = regs
      /\ ctx' = ctx /\ task' = task
  <2>1. intr_vec[Last(ctx[cpu]).vec] = v
    BY <1>1, <1>2, Zenon
  <2> QED BY <2>1, Zenon DEF Stub
<1> HIDE DEF s, cs, f
<1>4. At(f, y, cs, 4)
  <2>1. CASE v \in HasErrorCode
    <3>1. ~ PushesZero(v) /\ TopHeight(pc, c) = 4
      BY <1>0, <2>1, Zenon DEF PushesZero, HasErrorCode, TopHeight
    <3>2. y = s \o <<>>
      BY <3>1, Zenon
    <3>3. s \o <<>> = s
      BY <1>1, SeqEmpty, Zenon DEF IsSeq
    <3> QED BY <1>1, <3>1, <3>2, <3>3, Zenon
  <2>2. CASE v \notin HasErrorCode
    <3>1. PushesZero(v) /\ TopHeight(pc, c) = 3
      BY <1>0, <2>2, Zenon DEF PushesZero, HasErrorCode, TopHeight
    <3>2. y = s \o <<x>>
      BY <3>1, Zenon
    <3>3. x = FrameItem(c, 4)
      <4>1. c.err = Num(0)
        BY <1>1, <2>2, Zenon DEF IsContext
      <4> QED BY <4>1, FrameItems, Zenon
    <3>4. 3 \in Nat /\ 3 + 1 = 4
      OBVIOUS
    <3> HIDE DEF x, y
    <3>5. x = FrameItem(c, 3 + 1)
      BY <3>3, <3>4, Zenon
    <3>6. At(f, s \o <<x>>, cs, 3 + 1)
      BY <1>1, <3>1, <3>4, <3>5, PushedItem, Zenon
    <3> QED BY <3>2, <3>4, <3>6, Zenon
  <2> QED BY <2>1, <2>2, Zenon
<1>5. no = FrameItem(c, 4 + 1) /\ 4 \in Nat
  <2>1. 4 + 1 = 5 /\ 4 \in Nat
    OBVIOUS
  <2> QED BY <2>1, FrameItems, Zenon
<1> HIDE DEF y, no
<1>6. At(f, y \o <<no>>, cs, 4 + 1)
  BY <1>4, <1>5, PushedItem, Zenon
<1>7. At(f, y \o <<no>>, cs, Height(pc'))
  <2>1. Height(pc') = 4 + 1
    BY <1>3, Heights
  <2> QED BY <1>6, <2>1, Zenon
<1>8. Restored(c, pc', regs')
  BY <1>0, <1>1, <1>3, Zenon DEF Restored
<1> QED BY <1>0, <1>1, <1>3, <1>7, <1>8, ServingStep, Zenon DEF cs, f

\* _alltraps pushes the rest of the frame.
LEMMA AllTrapsKeeps == ASSUME TrapInv, AllTraps PROVE TrapInv'
<1> DEFINE s == stk[cpu]
           cs == ctx[cpu]
           c == cs[Len(cs)]
           f == task[cpu]
           a == SubSeq(Pushal, 1, 4)
           b == SubSeq(Pushal, 5, 7)
           esp == Item("esp", Num(0), 4)
           s1 == PushRegs(s, a, regs, 4)
           s2 == s1 \o <<esp>>
           s3 == PushRegs(s2, b, regs, 4)
           s4 == PushRegs(s3, SegRegs, regs, 2)
           arg == Item("arg", Num(Len(s4)), 4)
           ret == Item("ret", Code("leave"), 4)
<1>0. pc = "alltraps"
  BY Zenon DEF AllTraps
<1>1. /\ c.sp \in Nat /\ At(f, s, cs, 5) /\ c.regs = regs /\ intr = FALSE
  <2>1. pc # "task" /\ pc # "stub"
    BY <1>0, Zenon
  <2>2. /\ c.sp \in Nat /\ At(f, s, cs, TopHeight(pc, c)) /\ TopHeight(pc, c) = Height(pc)
        /\ Restored(c, pc, regs) /\ intr = FALSE
    BY <1>0, <2>1, Serving, Zenon
  <2>3. Height(pc) = 5
    BY <1>0, Heights, Zenon
  <2> HIDE DEF s, cs, f
  <2> QED BY <1>0, <2>2, <2>3, Zenon DEF Restored
<1>2. /\ stk' = [stk EXCEPT ![cpu] = s4 \o <<arg, ret>>]
      /\ cpu' = cpu /\ pc' = "handler" /\ intr' = intr /\ regs' = KernelRegs
      /\ ctx' = ctx /\ task' = task
  BY Zenon DEF AllTraps
<1> HIDE DEF s, cs, f
<1>3. At(f, s1, cs, 9)
  <2>1. \A i \in 1 .. 4 : i = 1 \/ i = 2 \/ i = 3 \/ i = 4
    OBVIOUS
  <2>2. IsSeq(a) /\ Len(a) = 4 /\ a[1] = "eax" /\ a[2] = "ecx" /\ a[3] = "edx" /\ a[4] = "ebx"
    BY Lists, Zenon
  <2>3. 5 + 1 = 6 /\ 5 + 2 = 7 /\ 5 + 3 = 8 /\ 5 + 4 = 9 /\ 5 \in Nat
    OBVIOUS
  <2> HIDE DEF a
  <2>4. \A i \in 1 .. 4 : Item(a[i], regs[a[i]], 4) = FrameItem(c, 5 + i)
    <3>1. /\ FrameItem(c, 6) = Item("eax", regs["eax"], 4)
          /\ FrameItem(c, 7) = Item("ecx", regs["ecx"], 4)
          /\ FrameItem(c, 8) = Item("edx", regs["edx"], 4)
          /\ FrameItem(c, 9) = Item("ebx", regs["ebx"], 4)
      BY <1>1, FrameItems, Zenon
    <3> QED BY <2>1, <2>2, <2>3, <3>1, Zenon
  <2>5. At(f, s1, cs, 5 + Len(a))
    BY <1>1, <2>2, <2>3, <2>4, PushedRegs, Zenon
  <2> QED BY <2>2, <2>3, <2>5, Zenon
<1> HIDE DEF s1
<1>4. At(f, s2, cs, 10)
  <2>1. 9 + 1 = 10 /\ 9 \in Nat
    OBVIOUS
  <2>2. esp = FrameItem(c, 9 + 1)
    BY <2>1, FrameItems, Zenon
  <2> HIDE DEF esp
  <2> QED BY <1>3, <2>1, <2>2, PushedItem, Zenon
<1> HIDE DEF s2
<1>5. At(f, s3, cs, 13)
  <2>1. \A i \in 1 .. 3 : i = 1 \/ i = 2 \/ i = 3
    OBVIOUS
  <2>2. IsSeq(b) /\ Len(b) = 3 /\ b[1] = "ebp" /\ b[2] = "esi" /\ b[3] = "edi"
    BY Lists, Zenon
  <2>3. 10 + 1 = 11 /\ 10 + 2 = 12 /\ 10 + 3 = 13 /\ 10 \in Nat
    OBVIOUS
  <2> HIDE DEF b
  <2>4. \A i \in 1 .. 3 : Item(b[i], regs[b[i]], 4) = FrameItem(c, 10 + i)
    <3>1. /\ FrameItem(c, 11) = Item("ebp", regs["ebp"], 4)
          /\ FrameItem(c, 12) = Item("esi", regs["esi"], 4)
          /\ FrameItem(c, 13) = Item("edi", regs["edi"], 4)
      BY <1>1, FrameItems, Zenon
    <3> QED BY <2>1, <2>2, <2>3, <3>1, Zenon
  <2>5. At(f, s3, cs, 10 + Len(b))
    BY <1>4, <2>2, <2>3, <2>4, PushedRegs, Zenon
  <2> QED BY <2>2, <2>3, <2>5, Zenon
<1> HIDE DEF s3
<1>6. At(f, s4, cs, 17)
  <2>1. \A i \in 1 .. 4 : i = 1 \/ i = 2 \/ i = 3 \/ i = 4
    OBVIOUS
  <2>2. /\ IsSeq(SegRegs) /\ Len(SegRegs) = 4
        /\ SegRegs[1] = "gs" /\ SegRegs[2] = "fs" /\ SegRegs[3] = "es" /\ SegRegs[4] = "ds"
    BY Lists, Zenon
  <2>3. 13 + 1 = 14 /\ 13 + 2 = 15 /\ 13 + 3 = 16 /\ 13 + 4 = 17 /\ 13 \in Nat
    OBVIOUS
  <2>4. \A i \in 1 .. 4 : Item(SegRegs[i], regs[SegRegs[i]], 2) = FrameItem(c, 13 + i)
    <3>1. /\ FrameItem(c, 14) = Item("gs", regs["gs"], 2)
          /\ FrameItem(c, 15) = Item("fs", regs["fs"], 2)
          /\ FrameItem(c, 16) = Item("es", regs["es"], 2)
          /\ FrameItem(c, 17) = Item("ds", regs["ds"], 2)
      BY <1>1, FrameItems, Zenon
    <3> QED BY <2>1, <2>2, <2>3, <3>1, Zenon
  <2>5. At(f, s4, cs, 13 + Len(SegRegs))
    BY <1>5, <2>2, <2>3, <2>4, PushedRegs, Zenon
  <2> QED BY <2>2, <2>3, <2>5, Zenon
<1>7. Len(s4) = c.sp + 17
  BY <1>6, Zenon DEF At
<1> HIDE DEF s4
<1>8. At(f, s4 \o <<arg, ret>>, cs, 19)
  <2>1. 17 + 1 = 18 /\ 17 + 2 = 19 /\ 17 \in Nat
    OBVIOUS
  <2>2. arg = FrameItem(c, 18) /\ ret = FrameItem(c, 19)
    BY <1>7, FrameItems, Zenon
  <2> HIDE DEF arg, ret
  <2>3. At(f, s4 \o <<arg, ret>>, cs, 17 + 2)
    BY <1>6, <2>1, <2>2, PushedPair, Zenon
  <2> QED BY <2>1, <2>3, Zenon
<1>9. Restored(c, pc', regs')
  BY <1>2, Zenon DEF Restored
<1>10. At(f, s4 \o <<arg, ret>>, cs, Height(pc'))
  BY <1>2, <1>8, Heights, Zenon
<1>11. pc' \in Interruptible /\ IsFile(regs') /\ intr' \in BOOLEAN /\ pc # "task"
  BY <1>0, <1>1, <1>2, FileFacts, Zenon DEF Interruptible
<1> QED BY <1>2, <1>9, <1>10, <1>11, ServingStep, Zenon DEF cs, f

\* The handler returns to _alltraps.
LEMMA HandlerReturnKeeps == ASSUME TrapInv, HandlerReturn PROVE TrapInv'
<1> DEFINE s == stk[cpu]
           cs == ctx[cpu]
           c == cs[Len(cs)]
           f == task[cpu]
           z == SubSeq(s, 1, Len(s) - 1)
<1>0. pc # "task" /\ pc # "stub" /\ pc \in {"handler", "switched"}
  BY Zenon DEF HandlerReturn
<1>1. c.sp \in Nat /\ At(f, s, cs, 19) /\ intr \in BOOLEAN
  <2>1. /\ c.sp \in Nat /\ At(f, s, cs, TopHeight(pc, c)) /\ TopHeight(pc, c) = Height(pc)
        /\ intr \in BOOLEAN
    BY <1>0, Serving, Zenon
  <2>2. Height(pc) = 19
    BY <1>0, Heights, Zenon
  <2> HIDE DEF s, cs, f
  <2> QED BY <2>1, <2>2, Zenon
<1>2. /\ stk' = [stk EXCEPT ![cpu] = z] /\ pc' = s[Len(s)].value[2]
      /\ cpu' = cpu /\ intr' = (IF pc = "switched" THEN TRUE ELSE intr) /\ regs' = KernelRegs
      /\ ctx' = ctx /\ task' = task
  BY Zenon DEF HandlerReturn, Front, Last
<1> HIDE DEF s, cs, f
<1>3. s[Len(s)] = FrameItem(c, 19) /\ At(f, z, cs, 18)
  <2>1. 19 \in Nat /\ 19 \in 1 .. 19 /\ 1 \in 0 .. 19 /\ 19 - 1 = 18
    OBVIOUS
  <2>2. Len(s) = c.sp + 19
    BY <1>1, <2>1, Cut
  <2>3. \A i \in 1 .. 19 : s[c.sp + i] = FrameItem(c, i)
    BY <1>1, <2>1, Cut
  <2>4. \A n \in 0 .. 19 : At(f, SubSeq(s, 1, Len(s) - n), cs, 19 - n)
    BY <1>1, <2>1, Cut, Zenon
  <2> QED BY <2>1, <2>2, <2>3, <2>4, Zenon
<1>4. pc' = "leave"
  <2>1. FrameItem(c, 19).value[2] = "leave"
    <3>1. FrameItem(c, 19) = Item("ret", Code("leave"), 4)
      BY FrameItems, Zenon
    <3>2. Item("ret", Code("leave"), 4).value[2] = "leave"
      BY Zenon DEF Item, Code
    <3> QED BY <3>1, <3>2, Zenon
  <2> QED BY <1>2, <1>3, <2>1, Zenon
<1>5. At(f, z, cs, Height(pc')) /\ Restored(c, pc', regs') /\ pc' \in Interruptible
  BY <1>3, <1>4, Heights, Zenon DEF Restored, Interruptible
<1>6. IsFile(regs') /\ intr' \in BOOLEAN
  BY <1>1, <1>2, FileFacts, Zenon
<1> HIDE DEF z
<1> QED BY <1>0, <1>2, <1>5, <1>6, ServingStep, Zenon DEF cs, f

\* The argument of the handler points to the struct.
LEMMA PopArgKeeps == ASSUME TrapInv, PopArg PROVE TrapInv'
<1> DEFINE s == stk[cpu]
           cs == ctx[cpu]
           c == cs[Len(cs)]
           f == task[cpu]
           z == SubSeq(s, 1, Len(s) - 1)
<1>0. pc # "task" /\ pc # "stub" /\ pc = "leave"
  BY Zenon DEF PopArg
<1>1. c.sp \in Nat /\ At(f, s, cs, 18) /\ intr \in BOOLEAN /\ IsFile(regs)
  <2>1. /\ c.sp \in Nat /\ At(f, s, cs, TopHeight(pc, c)) /\ TopHeight(pc, c) = Height(pc)
        /\ intr \in BOOLEAN /\ IsFile(regs)
    BY <1>0, Serving, Zenon
  <2>2. Height(pc) = 18
    BY <1>0, Heights, Zenon
  <2> HIDE DEF s, cs, f
  <2> QED BY <2>1, <2>2, Zenon
<1>2. /\ stk' = [stk EXCEPT ![cpu] = SubSeq(s, 1, s[Len(s)].value[2])]
      /\ cpu' = cpu /\ intr' = intr /\ regs' = regs /\ pc' = "segs" /\ ctx' = ctx /\ task' = task
  BY Zenon DEF PopArg, Last
<1> HIDE DEF s, cs, f
<1>3. s[Len(s)] = FrameItem(c, 18) /\ At(f, z, cs, 17) /\ Len(s) = c.sp + 18
  <2>1. 18 \in Nat /\ 18 \in 1 .. 18 /\ 1 \in 0 .. 18 /\ 18 - 1 = 17
    OBVIOUS
  <2>2. Len(s) = c.sp + 18
    BY <1>1, <2>1, Cut
  <2>3. \A i \in 1 .. 18 : s[c.sp + i] = FrameItem(c, i)
    BY <1>1, <2>1, Cut
  <2>4. \A n \in 0 .. 18 : At(f, SubSeq(s, 1, Len(s) - n), cs, 18 - n)
    BY <1>1, <2>1, Cut, Zenon
  <2> QED BY <2>1, <2>2, <2>3, <2>4, Zenon
<1>4. s[Len(s)].value[2] = Len(s) - 1
  <2>1. FrameItem(c, 18).value[2] = c.sp + 17
    <3>1. FrameItem(c, 18) = Item("arg", Num(c.sp + 17), 4)
      BY FrameItems, Zenon
    <3>2. Item("arg", Num(c.sp + 17), 4).value[2] = c.sp + 17
      BY Zenon DEF Item, Num
    <3> QED BY <3>1, <3>2, Zenon
  <2>2. c.sp + 17 = Len(s) - 1
    BY <1>1, <1>3
  <2> QED BY <1>3, <2>1, <2>2, Zenon
<1>5. At(f, z, cs, Height(pc')) /\ Restored(c, pc', regs') /\ pc' \in Interruptible
  BY <1>2, <1>3, Heights, Zenon DEF Restored, Interruptible
<1>6. IsFile(regs') /\ intr' \in BOOLEAN /\ stk' = [stk EXCEPT ![cpu] = z]
  BY <1>1, <1>2, <1>4, Zenon
<1> HIDE DEF z
<1> QED BY <1>0, <1>2, <1>5, <1>6, ServingStep, Zenon DEF cs, f

\* The segment registers are popped.
LEMMA PopSegsKeeps == ASSUME TrapInv, PopSegs PROVE TrapInv'
<1> DEFINE s == stk[cpu]
           cs == ctx[cpu]
           c == cs[Len(cs)]
           f == task[cpu]
           rs == <<"ds", "es", "fs", "gs">>
           z == SubSeq(s, 1, Len(s) - 4)
<1>0. pc # "task" /\ pc # "stub" /\ pc = "segs"
  BY Zenon DEF PopSegs
<1>1. c.sp \in Nat /\ At(f, s, cs, 17) /\ intr \in BOOLEAN
  <2>1. /\ c.sp \in Nat /\ At(f, s, cs, TopHeight(pc, c)) /\ TopHeight(pc, c) = Height(pc)
        /\ intr \in BOOLEAN
    BY <1>0, Serving, Zenon
  <2>2. Height(pc) = 17
    BY <1>0, Heights, Zenon
  <2> HIDE DEF s, cs, f
  <2> QED BY <2>1, <2>2, Zenon
<1>2. /\ stk' = [stk EXCEPT ![cpu] = z] /\ regs' = PopRegs(s, rs, regs)
      /\ cpu' = cpu /\ intr' = intr /\ pc' = "popal" /\ ctx' = ctx /\ task' = task
  <2>1. Reverse(SegRegs) = rs
    BY RegNames, Zenon
  <2> HIDE DEF rs
  <2> QED BY <2>1, Zenon DEF PopSegs, Drop
<1> HIDE DEF s, cs, f
<1>3. Len(s) = c.sp + 17 /\ At(f, z, cs, 13)
      /\ s[c.sp + 14] = FrameItem(c, 14) /\ s[c.sp + 15] = FrameItem(c, 15)
      /\ s[c.sp + 16] = FrameItem(c, 16) /\ s[c.sp + 17] = FrameItem(c, 17)
  <2>1. 17 \in Nat /\ 4 \in 0 .. 17 /\ 17 - 4 = 13
    OBVIOUS
  <2>2. Len(s) = c.sp + 17
    BY <1>1, <2>1, Cut
  <2>3. \A i \in 1 .. 17 : s[c.sp + i] = FrameItem(c, i)
    BY <1>1, <2>1, Cut
  <2>4. \A n \in 0 .. 17 : At(f, SubSeq(s, 1, Len(s) - n), cs, 17 - n)
    BY <1>1, <2>1, Cut, Zenon
  <2>5. At(f, z, cs, 13)
    BY <2>1, <2>4, Zenon
  <2>6. 14 \in 1 .. 17 /\ 15 \in 1 .. 17 /\ 16 \in 1 .. 17 /\ 17 \in 1 .. 17
    OBVIOUS
  <2> QED BY <2>2, <2>3, <2>5, <2>6, Zenon
<1>4. /\ Distinct(rs) /\ Len(rs) = 4
      /\ rs[1] = "ds" /\ rs[2] = "es" /\ rs[3] = "fs" /\ rs[4] = "gs"
  <2>1. rs \in Seq({"ds", "es", "fs", "gs"})
    OBVIOUS
  <2>2. IsSeq(rs)
    BY <2>1, SeqSelf, Zenon
  <2>3. Len(rs) = 4 /\ rs[1] = "ds" /\ rs[2] = "es" /\ rs[3] = "fs" /\ rs[4] = "gs"
    OBVIOUS
  <2> HIDE DEF rs
  <2>4. \A i \in 1 .. 4 : i = 1 \/ i = 2 \/ i = 3 \/ i = 4
    OBVIOUS
  <2>5. \A i, j \in 1 .. 4 : rs[i] = rs[j] => i = j
    BY <2>3, <2>4, Zenon
  <2> QED BY <2>2, <2>3, <2>5, Zenon DEF Distinct
<1> HIDE DEF rs
<1>5. ASSUME NEW k \in 1 .. 4
      PROVE  PopRegs(s, rs, regs)[rs[k]] = s[c.sp + (18 - k)].value
  <2>1. rs[k] \in Regs
    BY <1>4, RegNames
  <2>2. PopRegs(s, rs, regs)[rs[k]] = s[Len(s) + 1 - k].value
    <3>1. Distinct(rs) /\ k \in 1 .. Len(rs)
      BY <1>4, Zenon
    <3> QED BY <2>1, <3>1, PopInto, Zenon
  <2>3. Len(s) + 1 - k = c.sp + (18 - k)
    <3>1. Len(s) = c.sp + 17 /\ c.sp \in Nat
      BY <1>1, <1>3, Zenon
    <3>2. k \in 1 .. 17 /\ 17 \in Nat /\ 17 + 1 - k = 18 - k
      OBVIOUS
    <3> DEFINE a == c.sp
    <3>3. (a + 17) + 1 - k = a + (17 + 1 - k) /\ 17 + 1 - k \in 1 .. 17
      <4> HIDE DEF a
      <4>1. a \in Nat
        BY <3>1, Zenon DEF a
      <4> QED BY <3>2, <4>1, FromTop, Zenon
    <3> HIDE DEF a
    <3>4. Len(s) = a + 17 /\ c.sp = a
      BY <3>1, Zenon DEF a
    <3> QED BY <3>2, <3>3, <3>4, Zenon
  <2> QED BY <2>2, <2>3, Zenon
<1>6. /\ regs'["ds"] = s[c.sp + 17].value /\ regs'["es"] = s[c.sp + 16].value
      /\ regs'["fs"] = s[c.sp + 15].value /\ regs'["gs"] = s[c.sp + 14].value
  <2>1. /\ 1 \in 1 .. 4 /\ 2 \in 1 .. 4 /\ 3 \in 1 .. 4 /\ 4 \in 1 .. 4
        /\ 18 - 1 = 17 /\ 18 - 2 = 16 /\ 18 - 3 = 15 /\ 18 - 4 = 14
    OBVIOUS
  <2> QED BY <1>2, <1>4, <1>5, <2>1, Zenon
<1>7. /\ FrameItem(c, 14).value = c.regs["gs"] /\ FrameItem(c, 15).value = c.regs["fs"]
      /\ FrameItem(c, 16).value = c.regs["es"] /\ FrameItem(c, 17).value = c.regs["ds"]
  BY FrameValues, Zenon
<1>8. Restored(c, pc', regs')
  <2>1. \A r \in Range(SegRegs) : r = "ds" \/ r = "es" \/ r = "fs" \/ r = "gs"
    BY RegNames, Zenon
  <2>2. \A r \in Range(SegRegs) : regs'[r] = c.regs[r]
    BY <1>3, <1>6, <1>7, <2>1, Zenon
  <2> QED BY <1>2, <2>2, Zenon DEF Restored
<1>9. At(f, z, cs, Height(pc')) /\ pc' \in Interruptible
  BY <1>2, <1>3, Heights, Zenon DEF Interruptible
<1>10. IsFile(regs') /\ intr' \in BOOLEAN
  BY <1>1, <1>2, FileFacts, Zenon
<1> HIDE DEF z
<1> QED BY <1>0, <1>2, <1>8, <1>9, <1>10, ServingStep, Zenon DEF cs, f

\* The general registers are popped.
LEMMA PopalKeeps == ASSUME TrapInv, Popal PROVE TrapInv'
<1> DEFINE s == stk[cpu]
           cs == ctx[cpu]
           c == cs[Len(cs)]
           f == task[cpu]
           rs == <<"edi", "esi", "ebp", "esp", "ebx", "edx", "ecx", "eax">>
           z == SubSeq(s, 1, Len(s) - 8)
<1>0. pc # "task" /\ pc # "stub" /\ pc = "popal"
  BY Zenon DEF Popal
<1>1. /\ c.sp \in Nat /\ At(f, s, cs, 13) /\ intr \in BOOLEAN /\ Restored(c, pc, regs)
      /\ IsContext(c)
  <2>1. /\ c.sp \in Nat /\ At(f, s, cs, TopHeight(pc, c)) /\ TopHeight(pc, c) = Height(pc)
        /\ intr \in BOOLEAN /\ Restored(c, pc, regs) /\ IsContext(c)
    BY <1>0, Serving, Zenon
  <2>2. Height(pc) = 13
    BY <1>0, Heights, Zenon
  <2> HIDE DEF s, cs, f
  <2> QED BY <2>1, <2>2, Zenon
<1>2. /\ stk' = [stk EXCEPT ![cpu] = z] /\ regs' = PopRegs(s, rs, regs)
      /\ cpu' = cpu /\ intr' = intr /\ pc' = "iret" /\ ctx' = ctx /\ task' = task
  BY Zenon DEF Popal, Drop
<1> HIDE DEF s, cs, f
<1>3. Len(s) = c.sp + 13 /\ At(f, z, cs, 5) /\ \A i \in 1 .. 13 : s[c.sp + i] = FrameItem(c, i)
  <2>1. 13 \in Nat /\ 8 \in 0 .. 13 /\ 13 - 8 = 5
    OBVIOUS
  <2>2. Len(s) = c.sp + 13
    BY <1>1, <2>1, Cut
  <2>3. \A i \in 1 .. 13 : s[c.sp + i] = FrameItem(c, i)
    BY <1>1, <2>1, Cut
  <2>4. \A n \in 0 .. 13 : At(f, SubSeq(s, 1, Len(s) - n), cs, 13 - n)
    BY <1>1, <2>1, Cut, Zenon
  <2>5. At(f, z, cs, 5)
    BY <2>1, <2>4, Zenon
  <2> QED BY <2>2, <2>3, <2>5, Zenon
<1>4. /\ Distinct(rs) /\ Len(rs) = 8
      /\ rs[1] = "edi" /\ rs[2] = "esi" /\ rs[3] = "ebp" /\ rs[4] = "esp"
      /\ rs[5] = "ebx" /\ rs[6] = "edx" /\ rs[7] = "ecx" /\ rs[8] = "eax"
  <2>1. rs \in Seq({"edi", "esi", "ebp", "esp", "ebx", "edx", "ecx", "eax"})
    OBVIOUS
  <2>2. IsSeq(rs)
    BY <2>1, SeqSelf, Zenon
  <2>3. /\ Len(rs) = 8
        /\ rs[1] = "edi" /\ rs[2] = "esi" /\ rs[3] = "ebp" /\ rs[4] = "esp"
        /\ rs[5] = "ebx" /\ rs[6] = "edx" /\ rs[7] = "ecx" /\ rs[8] = "eax"
    OBVIOUS
  <2> HIDE DEF rs
  <2>4. \A i \in 1 .. 8 : i = 1 \/ i = 2 \/ i = 3 \/ i = 4 \/ i = 5 \/ i = 6 \/ i = 7 \/ i = 8
    OBVIOUS
  <2>5. \A i, j \in 1 .. 8 : rs[i] = rs[j] => i = j
    BY <2>3, <2>4, Zenon
  <2> QED BY <2>2, <2>3, <2>5, Zenon DEF Distinct
<1> HIDE DEF rs
<1>5. ASSUME NEW k \in 1 .. 8, rs[k] \in Regs
      PROVE  regs'[rs[k]] = FrameItem(c, 14 - k).value
  <2>2. PopRegs(s, rs, regs)[rs[k]] = s[Len(s) + 1 - k].value
    <3>1. Distinct(rs) /\ k \in 1 .. Len(rs)
      BY <1>4, Zenon
    <3> QED BY <1>5, <3>1, PopInto, Zenon
  <2>3. Len(s) + 1 - k = c.sp + (14 - k) /\ 14 - k \in 1 .. 13
    <3>1. Len(s) = c.sp + 13 /\ c.sp \in Nat
      BY <1>1, <1>3, Zenon
    <3>2. k \in 1 .. 13 /\ 13 \in Nat /\ 13 + 1 - k = 14 - k
      OBVIOUS
    <3> DEFINE a == c.sp
    <3>3. (a + 13) + 1 - k = a + (13 + 1 - k) /\ 13 + 1 - k \in 1 .. 13
      <4> HIDE DEF a
      <4>1. a \in Nat
        BY <3>1, Zenon DEF a
      <4> QED BY <3>2, <4>1, FromTop, Zenon
    <3> HIDE DEF a
    <3>4. Len(s) = a + 13 /\ c.sp = a
      BY <3>1, Zenon DEF a
    <3> QED BY <3>2, <3>3, <3>4, Zenon
  <2> QED BY <1>2, <1>3, <2>2, <2>3, Zenon
<1>6. /\ regs'["edi"] = c.regs["edi"] /\ regs'["esi"] = c.regs["esi"]
      /\ regs'["ebp"] = c.regs["ebp"] /\ regs'["ebx"] = c.regs["ebx"]
      /\ regs'["edx"] = c.regs["edx"] /\ regs'["ecx"] = c.regs["ecx"]
      /\ regs'["eax"] = c.regs["eax"]
  <2>2. /\ FrameItem(c, 6).value = c.regs["eax"] /\ FrameItem(c, 7).value = c.regs["ecx"]
        /\ FrameItem(c, 8).value = c.regs["edx"] /\ FrameItem(c, 9).value = c.regs["ebx"]
        /\ FrameItem(c, 11).value = c.regs["ebp"] /\ FrameItem(c, 12).value = c.regs["esi"]
        /\ FrameItem(c, 13).value = c.regs["edi"]
    BY FrameValues, Zenon
  <2>3. /\ 14 - 1 = 13 /\ 14 - 2 = 12 /\ 14 - 3 = 11 /\ 14 - 5 = 9 /\ 14 - 6 = 8
        /\ 14 - 7 = 7 /\ 14 - 8 = 6
        /\ 1 \in 1 .. 8 /\ 2 \in 1 .. 8 /\ 3 \in 1 .. 8 /\ 5 \in 1 .. 8 /\ 6 \in 1 .. 8
        /\ 7 \in 1 .. 8 /\ 8 \in 1 .. 8
    OBVIOUS
  <2>4. /\ rs[1] \in Regs /\ rs[2] \in Regs /\ rs[3] \in Regs /\ rs[5] \in Regs
        /\ rs[6] \in Regs /\ rs[7] \in Regs /\ rs[8] \in Regs
    BY <1>4, RegNames, Zenon
  <2>5. regs'[rs[1]] = FrameItem(c, 13).value
    BY <1>5, <2>3, <2>4, Zenon
  <2>6. regs'[rs[2]] = FrameItem(c, 12).value
    BY <1>5, <2>3, <2>4, Zenon
  <2>7. regs'[rs[3]] = FrameItem(c, 11).value
    BY <1>5, <2>3, <2>4, Zenon
  <2>9. regs'[rs[5]] = FrameItem(c, 9).value
    BY <1>5, <2>3, <2>4, Zenon
  <2>10. regs'[rs[6]] = FrameItem(c, 8).value
    BY <1>5, <2>3, <2>4, Zenon
  <2>11. regs'[rs[7]] = FrameItem(c, 7).value
    BY <1>5, <2>3, <2>4, Zenon
  <2>12. regs'[rs[8]] = FrameItem(c, 6).value
    BY <1>5, <2>3, <2>4, Zenon
  <2> QED BY <1>4, <2>2, <2>5, <2>6, <2>7, <2>9, <2>10, <2>11, <2>12, Zenon
<1>7. \A r \in {"gs", "fs", "es", "ds"} : regs'[r] = c.regs[r]
  <2> SUFFICES ASSUME NEW r \in {"gs", "fs", "es", "ds"} PROVE regs'[r] = c.regs[r]
    OBVIOUS
  <2>1. r \in Regs /\ r \in Range(SegRegs)
    BY RegNames, Zenon
  <2>2. \A k \in 1 .. 8 : rs[k] # r
    <3>1. \A k \in 1 .. 8 : k = 1 \/ k = 2 \/ k = 3 \/ k = 4 \/ k = 5 \/ k = 6 \/ k = 7 \/ k = 8
      OBVIOUS
    <3> QED BY <1>4, <3>1, Zenon
  <2>3. PopRegs(s, rs, regs)[r] = regs[r]
    <3>1. Distinct(rs) /\ \A k \in 1 .. Len(rs) : rs[k] # r
      BY <1>4, <2>2, Zenon
    <3> QED BY <2>1, <3>1, PopOther
  <2>4. regs[r] = c.regs[r]
    BY <1>0, <1>1, <2>1, Zenon DEF Restored
  <2> QED BY <1>2, <2>3, <2>4, Zenon
<1>8. IsFile(regs') /\ IsFile(c.regs)
  BY <1>1, <1>2, FileFacts, Zenon DEF IsContext
<1>9. regs' = c.regs
  <2>1. \A r \in Regs : regs'[r] = c.regs[r]
    BY <1>6, <1>7, RegNames, Zenon
  <2> QED BY <1>8, <2>1, Zenon DEF IsFile
<1>10. Restored(c, pc', regs')
  BY <1>2, <1>9, Zenon DEF Restored
<1>11. At(f, z, cs, Height(pc')) /\ pc' \in Interruptible /\ intr' \in BOOLEAN
  BY <1>1, <1>2, <1>3, Heights, Zenon DEF Interruptible
<1> HIDE DEF z
<1> QED BY <1>0, <1>2, <1>8, <1>10, <1>11, ServingStep, Zenon DEF cs, f

\* The interrupted code continues.
LEMMA IretKeeps == ASSUME TrapInv, Iret PROVE TrapInv'
<1> DEFINE s == stk[cpu]
           cs == ctx[cpu]
           c == cs[Len(cs)]
           f == task[cpu]
           y == SubSeq(s, 1, Len(s) - 2)
           z == SubSeq(y, 1, Len(y) - 3)
           ds == SubSeq(cs, 1, Len(cs) - 1)
<1>0. pc # "task" /\ pc # "stub" /\ pc = "iret"
  BY Zenon DEF Iret
<1>1. c.sp \in Nat /\ At(f, s, cs, 5) /\ Restored(c, pc, regs) /\ IsContext(c) /\ IsFile(regs)
  <2>1. /\ c.sp \in Nat /\ At(f, s, cs, TopHeight(pc, c)) /\ TopHeight(pc, c) = Height(pc)
        /\ Restored(c, pc, regs) /\ IsContext(c) /\ IsFile(regs)
    BY <1>0, Serving, Zenon
  <2>2. Height(pc) = 5
    BY <1>0, Heights, Zenon
  <2> HIDE DEF s, cs, f
  <2> QED BY <2>1, <2>2, Zenon
<1>2. /\ stk' = [stk EXCEPT ![cpu] = z] /\ ctx' = [ctx EXCEPT ![cpu] = ds]
      /\ pc' = y[Len(y)].value[2] /\ intr' = y[Len(y) - 2].value[2]
      /\ cpu' = cpu /\ regs' = regs /\ task' = task
  BY Zenon DEF Iret, Drop, Front, Last
<1> HIDE DEF s, cs, f
<1>3. At(f, y, cs, 3)
  <2>1. 5 \in Nat /\ 2 \in 0 .. 5 /\ 5 - 2 = 3
    OBVIOUS
  <2>2. \A n \in 0 .. 5 : At(f, SubSeq(s, 1, Len(s) - n), cs, 5 - n)
    BY <1>1, <2>1, Cut, Zenon
  <2> QED BY <2>1, <2>2, Zenon
<1> HIDE DEF y
<1>4. At(f, z, cs, 0) /\ y[Len(y)] = FrameItem(c, 3) /\ y[Len(y) - 2] = FrameItem(c, 1)
  <2>1. 3 \in Nat /\ 3 \in 0 .. 3 /\ 3 - 3 = 0 /\ 3 \in 1 .. 3 /\ 1 \in 1 .. 3
    OBVIOUS
  <2>2. Len(y) = c.sp + 3
    BY <1>3, <2>1, Cut
  <2>3. \A i \in 1 .. 3 : y[c.sp + i] = FrameItem(c, i)
    BY <1>3, <2>1, Cut
  <2>4. \A n \in 0 .. 3 : At(f, SubSeq(y, 1, Len(y) - n), cs, 3 - n)
    BY <1>3, <2>1, Cut, Zenon
  <2>5. Len(y) - 2 = c.sp + 1
    BY <1>1, <2>2
  <2>6. At(f, z, cs, 0)
    BY <2>1, <2>4, Zenon
  <2> QED BY <2>1, <2>2, <2>3, <2>5, <2>6, Zenon
<1>5. pc' = c.pc /\ intr' = c.intr /\ regs' = c.regs
  <2>1. FrameItem(c, 3).value[2] = c.pc /\ FrameItem(c, 1).value[2] = c.intr
    BY FrameValues, Zenon
  <2>2. regs = c.regs
    BY <1>0, <1>1, Zenon DEF Restored
  <2> QED BY <1>2, <1>4, <2>1, <2>2, Zenon
<1>6. Chain(f, z, ds) /\ Runs(pc', intr', regs', f, z, ds)
  <2>1. Chain(f, z, ds) /\ Runs(c.pc, c.intr, c.regs, f, z, ds)
    BY <1>4, ChainPop, Zenon
  <2> QED BY <1>5, <2>1, Zenon
<1>7. IsFile(regs') /\ intr' \in BOOLEAN
  BY <1>1, <1>2, <1>5, Zenon DEF IsContext
<1>8. task' = [task EXCEPT ![cpu] = f]
  BY <1>2, Same, Zenon DEF f
<1> HIDE DEF z, ds
<1> QED BY <1>2, <1>6, <1>7, <1>8, LocalStep, Zenon

\* SwitchReg changes stacks.
LEMMA ThreadSwitchKeeps == ASSUME TrapInv, NEW u \in Threads, ThreadSwitch(u) PROVE TrapInv'
<1> DEFINE y == PushRegs(Append(stk[cpu], Item("ret", Code("switched"), 4)), Callee, regs, 4)
           w == stk[u]
           z == SubSeq(w, 1, Len(w) - 5)
           p == w[Len(w) - 4].value[2]
           file == PopRegs(w, Reverse(Callee), regs)
           g == IF p = "task" THEN file ELSE task[u]
<1>1. /\ pc = "handler" /\ u # cpu /\ cpu' = u /\ ctx' = ctx
      /\ stk' = [stk EXCEPT ![cpu] = y, ![u] = z] /\ regs' = file /\ pc' = p /\ intr' = TRUE
      /\ task' = IF p = "task" THEN [task EXCEPT ![u] = file] ELSE task
  BY Zenon DEF ThreadSwitch, SwitchReg, Drop
<1>2. Chain(task[cpu], y, ctx[cpu]) /\ Waits(y, ctx[cpu])
  <2>1. pc # "task" /\ pc # "stub"
    BY <1>1, Zenon
  <2> DEFINE cs == ctx[cpu]
             c == cs[Len(cs)]
             s == stk[cpu]
             f == task[cpu]
  <2>2. At(f, s, cs, TopHeight(pc, c)) /\ TopHeight(pc, c) = Height(pc)
    BY <2>1, Serving, Zenon
  <2> HIDE DEF cs, s, f
  <2>3. At(f, s, cs, 19)
    BY <1>1, <2>2, Heights, Zenon
  <2>4. LET x == PushRegs(Append(s, Item("ret", Code("switched"), 4)), Callee, regs, 4)
        IN  Chain(f, x, cs) /\ Waits(x, cs)
    BY <2>3, SwitchedOut, Zenon
  <2> QED BY <2>4, Zenon DEF cs, s, f
<1>3. Chain(g, z, ctx[u]) /\ Runs(p, TRUE, file, g, z, ctx[u])
  <2>1. Chain(task[u], w, ctx[u]) /\ Waits(w, ctx[u])
    BY <1>1, Zenon DEF TrapInv
  <2> HIDE DEF file, w
  <2> QED BY <2>1, SwitchedIn, Zenon
<1>4. IsFile(file)
  BY FileFacts, Zenon
<1> HIDE DEF y, z, p, file
<1>5. /\ stk' = [t \in Threads |-> IF t = u THEN z ELSE IF t = cpu THEN y ELSE stk[t]]
      /\ task' = [t \in Threads |-> IF t = u THEN g ELSE task[t]]
      /\ ctx' = [t \in Threads |-> ctx[t]]
  <2>1. /\ stk = [t \in Threads |-> stk[t]] /\ ctx = [t \in Threads |-> ctx[t]]
        /\ task = [t \in Threads |-> task[t]]
    BY Zenon DEF TrapInv
  <2>2. stk' = [t \in Threads |-> IF t = u THEN z ELSE IF t = cpu THEN y ELSE stk[t]]
    BY <1>1, <2>1, Zenon
  <2>3. task' = [t \in Threads |-> IF t = u THEN g ELSE task[t]]
    BY <1>1, <2>1, Zenon
  <2> QED BY <1>1, <2>1, <2>2, <2>3, Zenon
<1> HIDE DEF g, w
<1>6. cpu \in Threads
  BY Zenon DEF TrapInv
<1>7. /\ stk'[u] = z /\ task'[u] = g /\ stk'[cpu] = y /\ task'[cpu] = task[cpu]
      /\ \A t \in Threads \ {u, cpu} : stk'[t] = stk[t] /\ task'[t] = task[t]
      /\ \A t \in Threads : ctx'[t] = ctx[t]
  BY <1>1, <1>5, <1>6, Zenon
<1>8. \A t \in Threads : Chain(task'[t], stk'[t], ctx'[t])
  <2> TAKE t \in Threads
  <2>1. CASE t = u
    BY <1>3, <1>7, <2>1, Zenon
  <2>2. CASE t = cpu
    BY <1>2, <1>7, <2>2, Zenon
  <2>3. CASE t \notin {u, cpu}
    BY <1>7, <2>3, Zenon DEF TrapInv
  <2> QED BY <2>1, <2>2, <2>3, Zenon
<1>9. \A t \in Threads \ {cpu'} : Waits(stk'[t], ctx'[t])
  <2> TAKE t \in Threads \ {cpu'}
  <2>1. CASE t = cpu
    BY <1>2, <1>7, <2>1, Zenon
  <2>2. CASE t # cpu
    BY <1>1, <1>7, <2>2, Zenon DEF TrapInv
  <2> QED BY <2>1, <2>2, Zenon
<1>10. Runs(pc', intr', regs', task'[cpu'], stk'[cpu'], ctx'[cpu'])
  BY <1>1, <1>3, <1>7, Zenon
<1>11. /\ stk' = [t \in Threads |-> stk'[t]] /\ ctx' = [t \in Threads |-> ctx'[t]]
       /\ task' = [t \in Threads |-> task'[t]]
  BY <1>5, Zenon
<1>12. cpu' \in Threads /\ (IsFile(regs))' /\ intr' \in BOOLEAN
  BY <1>1, <1>4, Zenon DEF IsFile
<1> QED BY <1>8, <1>9, <1>10, <1>11, <1>12, Zenon DEF TrapInv

-----------------------------------------------------------------------------
\* Every step keeps the stacks made of frames.
LEMMA NextTrap == TrapInv /\ [Next]_vars => TrapInv'
<1> SUFFICES ASSUME TrapInv, [Next]_vars PROVE TrapInv'
  OBVIOUS
<1>1. CASE UNCHANGED vars
  BY <1>1, Zenon DEF vars, TrapInv, IsFile
<1>2. ASSUME NEW v \in Vectors, Interrupt(v) PROVE TrapInv'
  BY <1>2, InterruptKeeps, Zenon
<1>3. ASSUME NEW u \in Threads, ThreadSwitch(u) PROVE TrapInv'
  BY <1>3, ThreadSwitchKeeps, Zenon
<1> QED BY <1>1, <1>2, <1>3, WorkKeeps, StubKeeps, AllTrapsKeeps, HandlerReturnKeeps, PopArgKeeps,
           PopSegsKeeps, PopalKeeps, IretKeeps, Zenon DEF Next

\* TrapInv holds in every state.
LEMMA TrapInvariant == Spec => []TrapInv
BY InitTrap, NextTrap, PTL DEF Spec

\* For any threads, vectors and depth of nesting: the registers and the stack of
\* a task are as it left them whenever its own code runs.
THEOREM TasksUndisturbed == Spec => []TaskUndisturbed
<1>1. TrapInv => TaskUndisturbed
  BY Zenon DEF TrapInv, Runs, TaskUndisturbed
<1> QED BY <1>1, TrapInvariant, PTL

\* For any threads, vectors and depth of nesting: a task runs with interrupts
\* enabled.
THEOREM TasksPreemptible == Spec => []TaskPreemptible
<1>1. TrapInv => TaskPreemptible
  BY Zenon DEF TrapInv, Runs, TaskPreemptible
<1> QED BY <1>1, TrapInvariant, PTL

\* For any threads, vectors and depth of nesting: the pointer a handler gets
\* leads to the IntrReg of the interrupt it serves.
THEOREM HandlersSeeIntrReg == Spec => []HandlerSeesIntrReg
<1>1. TrapInv => HandlerSeesIntrReg
  <2> SUFFICES ASSUME TrapInv, pc = "handler" PROVE HandlerSeesIntrReg
    BY Zenon DEF HandlerSeesIntrReg
  <2> DEFINE s == stk[cpu]
             cs == ctx[cpu]
             c == cs[Len(cs)]
             f == task[cpu]
             p == s[Len(s) - 1].value[2]
  <2>1. c.sp \in Nat /\ At(f, s, cs, 19) /\ Last(cs) = c
    <3>1. pc # "task" /\ pc # "stub"
      OBVIOUS
    <3>2. /\ c.sp \in Nat /\ At(f, s, cs, TopHeight(pc, c)) /\ TopHeight(pc, c) = Height(pc)
          /\ Last(cs) = c
      BY <3>1, Serving, Zenon
    <3> HIDE DEF s, cs, f
    <3> QED BY <3>2, Heights, Zenon
  <2> HIDE DEF s, cs, f
  <2>2. 19 \in Nat /\ 18 \in 1 .. 19
    OBVIOUS
  <2>3. Len(s) = c.sp + 19
    BY <2>1, <2>2, Cut
  <2>4. \A i \in 1 .. 19 : s[c.sp + i] = FrameItem(c, i)
    BY <2>1, <2>2, Cut
  <2>5. p = c.sp + 17
    <3>1. Len(s) - 1 = c.sp + 18
      BY <2>1, <2>3
    <3>2. FrameItem(c, 18) = Item("arg", Num(c.sp + 17), 4)
      BY FrameItems, Zenon
    <3>3. Item("arg", Num(c.sp + 17), 4).value[2] = c.sp + 17
      BY Zenon DEF Item, Num
    <3> QED BY <2>2, <2>4, <3>1, <3>2, <3>3, Zenon
  <2>6. ASSUME NEW k \in 1 .. 17
        PROVE  s[p + 1 - k] = Item(IntrReg[k][1], FieldOf(c, IntrReg[k][1]), IntrReg[k][2])
    <3>1. 18 - k \in 1 .. 19
      OBVIOUS
    <3>2. p + 1 - k = c.sp + (18 - k)
      <4> DEFINE a == c.sp
      <4>1. a \in Nat /\ p = a + 17
        BY <2>1, <2>5, Zenon
      <4> HIDE DEF a, p
      <4>2. p + 1 - k = a + (18 - k)
        BY <4>1
      <4> QED BY <4>2, Zenon DEF a
    <3>3. s[c.sp + (18 - k)] = FrameItem(c, 18 - k)
      BY <2>4, <3>1, Zenon
    <3> QED BY <3>2, <3>3, FieldItems, Zenon
  <2>7. Len(IntrReg) = 17
    BY Zenon DEF IntrReg
  <2> QED BY <2>1, <2>6, <2>7, Zenon DEF HandlerSeesIntrReg, s, cs
<1> QED BY <1>1, TrapInvariant, PTL

=============================================================================
