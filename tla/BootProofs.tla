----------------------------- MODULE BootProofs -----------------------------
(***************************************************************************)
(* Proofs about the parts of the boot: PagingInit maps what it should, for *)
(* tables of any size, any split of the directory and any contents of      *)
(* memory before it runs; for any set of devices, gates and handlers agree,*)
(* no interrupt stays in service, and a line of the PIC is open only when  *)
(* its interrupt has a handler.                                            *)
(***************************************************************************)
EXTENDS PagingBoot, Interrupts, TLAPS

-----------------------------------------------------------------------------
(* PagingBoot.                                                             *)

\* What the entries of the directory, of the temporary table and of the d-th
\* table of the direct mapping area have to be.
DirEntry(k) ==
    IF k = 0 THEN [access |-> 3, addr |-> 2]
    ELSE IF k < kUPdeNum THEN [access |-> 6, addr |-> 0]
    ELSE IF k < kUPdeNum + kKPdeDirectMappingNum
      THEN [access |-> 3, addr |-> 3 + k - kUPdeNum]
    ELSE [access |-> 2, addr |-> 0]

DirUpTo(n) == \A k \in Index : k < n => mem[1][k] = DirEntry(k)
TempUpTo(n) == \A t \in Index : t < n => mem[2][t] = [access |-> 3, addr |-> t]
TableUpTo(d, n) ==
    \A t \in Index : t < n => mem[3 + d][t] = [access |-> 3, addr |-> d * kPdeNum + t]
TablesUpTo(m) == \A d \in 0 .. kKPdeDirectMappingNum - 1 : d < m => TableUpTo(d, kPdeNum)

PagingTypeOK ==
    /\ cr \in [{0, 4} -> SUBSET {5, 31}]
    /\ mem \in [Frames -> [Index -> Entry]]
    /\ i \in Nat /\ j \in Nat /\ pt_addr \in Nat /\ page_addr \in Nat
    /\ pc \in {"switch", "temp", "temp_fill", "user", "direct", "fill", "dynamic", "pg", "done"}

\* How far each loop has come.  i runs through three loops, pt_addr and
\* page_addr follow it.
AtTemp == pt_addr = 2 /\ DirUpTo(1) /\ j <= kPdeNum /\ TempUpTo(j)
AtUser == i \in 1 .. kUPdeNum /\ DirUpTo(i)
AtDirect ==
    /\ i \in kUPdeNum .. kUPdeNum + kKPdeDirectMappingNum /\ DirUpTo(i)
    /\ pt_addr = 3 + i - kUPdeNum
    /\ page_addr = (i - kUPdeNum) * kPdeNum
    /\ TablesUpTo(i - kUPdeNum)
AtFill ==
    /\ i \in kUPdeNum .. kUPdeNum + kKPdeDirectMappingNum - 1 /\ DirUpTo(i + 1)
    /\ j <= kPdeNum
    /\ pt_addr = 3 + i - kUPdeNum
    /\ page_addr = (i - kUPdeNum) * kPdeNum + j
    /\ TablesUpTo(i - kUPdeNum) /\ TableUpTo(i - kUPdeNum, j)
AtDynamic == i \in kUPdeNum + kKPdeDirectMappingNum .. kPdeNum /\ DirUpTo(i)
AtEnd == DirUpTo(kPdeNum) /\ 5 \notin cr[4]
TempFilled == TempUpTo(kPdeNum)
TablesFilled == TablesUpTo(kKPdeDirectMappingNum)

Progress ==
    /\ pc # "switch" => cr3 = 1
    /\ pc = "temp_fill" => AtTemp
    /\ pc \in {"user", "direct", "fill", "dynamic", "pg", "done"} => TempFilled
    /\ pc = "user" => AtUser
    /\ pc = "direct" => AtDirect
    /\ pc = "fill" => AtFill
    /\ pc \in {"dynamic", "pg", "done"} => TablesFilled
    /\ pc = "dynamic" => AtDynamic
    /\ pc \in {"pg", "done"} => AtEnd
    /\ 31 \in cr[0] => pc = "done"

PagingInv == PagingTypeOK /\ Progress

\* The physical addresses the code computes from the virtual ones.
LEMMA PhysicalAddresses ==
  /\ k_pd = 1
  /\ DirectMappingPhysAddr(kKPt) = 3
  /\ DirectMappingPhysAddr(kKPt - 1) = 2
<1>1. kKVirtualPage \in Int
  BY PagingAssumption DEF kKVirtualPage, kPteMaxNum
<1> QED BY <1>1 DEF k_pd, DirectMappingPhysAddr, kKPt, kKPd

\* A write of one entry.
LEMMA WriteEntry ==
  ASSUME NEW f \in Frames, NEW k \in Index, NEW e \in Entry,
         mem \in [Frames -> [Index -> Entry]],
         mem' = [mem EXCEPT ![f][k] = e]
  PROVE  /\ mem' \in [Frames -> [Index -> Entry]]
         /\ \A g \in Frames, l \in Index :
              mem'[g][l] = IF g = f /\ l = k THEN e ELSE mem[g][l]
OBVIOUS

\* The frames of the directory, of the temporary table and of the others.
LEMMA FrameFacts ==
  /\ 1 \in Frames /\ 2 \in Frames
  /\ \A d \in 0 .. kKPdeDirectMappingNum - 1 : 3 + d \in Frames
  /\ 0 \in Index
BY PagingAssumption DEF Frames, Index

\* The sizes of the tables and of the areas.
LEMMA PagingSizes ==
  /\ kPdeNum \in Nat /\ kUPdeNum \in Nat /\ kKPdeDirectMappingNum \in Nat
  /\ kUPdeNum >= 1
  /\ kUPdeNum + kKPdeDirectMappingNum <= kPdeNum
BY PagingAssumption

\* One more entry of the directory is as it has to be.
LEMMA DirGrows ==
  ASSUME NEW n \in Index, DirUpTo(n),
         \A l \in Index : mem'[1][l] = IF l = n THEN DirEntry(n) ELSE mem[1][l]
  PROVE  \A k \in Index : k < n + 1 => mem'[1][k] = DirEntry(k)
<1>1. \A k \in Index : k < n + 1 => k = n \/ k < n
  BY PagingSizes DEF Index
<1> QED BY <1>1 DEF DirUpTo

\* A write to the directory leaves the tables as they are.
LEMMA TablesKept ==
  ASSUME NEW m, TablesUpTo(m),
         \A d \in 0 .. kKPdeDirectMappingNum - 1 :
           \A t \in Index : mem'[3 + d][t] = mem[3 + d][t]
  PROVE  \A d \in 0 .. kKPdeDirectMappingNum - 1 : d < m =>
           \A t \in Index : t < kPdeNum => mem'[3 + d][t] = [access |-> 3, addr |-> d * kPdeNum + t]
BY DEF TablesUpTo, TableUpTo

\* PagingInit starts with paging off and with no entry written.
LEMMA PagingInitInv == PagingStart => PagingInv
<1> SUFFICES ASSUME PagingStart PROVE PagingInv
  OBVIOUS
<1>1. PICK g \in Stale : mem = [f \in Frames |-> [k \in Index |-> g]]
  BY DEF PagingStart
<1>2. g \in Entry
  BY <1>1, PagingAssumption DEF Entry
<1>3. mem \in [Frames -> [Index -> Entry]]
  BY <1>1, <1>2
<1>4. PICK bits \in SUBSET {5} : cr = [n \in {0, 4} |-> IF n = 4 THEN bits ELSE {}]
  BY DEF PagingStart
<1>5. \A n \in {0, 4} : (IF n = 4 THEN bits ELSE {}) \in SUBSET {5, 31}
  OBVIOUS
<1>6. cr \in [{0, 4} -> SUBSET {5, 31}]
  BY <1>4, <1>5
<1>7. cr[0] = {}
  BY <1>4
<1> QED BY <1>3, <1>6, <1>7 DEF PagingStart, PagingInv, PagingTypeOK, Progress

\* A step of PagingInit preserves the progress of its loops.
LEMMA PagingStepInv == PagingInv /\ [PagingStep]_paging => PagingInv'
<1> SUFFICES ASSUME PagingTypeOK, Progress, [PagingStep]_paging
             PROVE  PagingTypeOK' /\ Progress'
  BY DEF PagingInv
<1>1. CASE SwitchStep
  <2>1. /\ cr3' = 1 /\ pc = "switch" /\ pc' = "temp"
        /\ UNCHANGED <<cr, mem, i, j, pt_addr, page_addr>>
    BY <1>1, PhysicalAddresses DEF SwitchStep, SwitchPd, k_pd
  <2> QED BY <2>1 DEF PagingTypeOK, Progress
<1>2. CASE TempPde
  <2>1. /\ pt_addr' = 2 /\ j' = 0 /\ pc = "temp" /\ pc' = "temp_fill"
        /\ mem' = [mem EXCEPT ![1][0] = [access |-> 3, addr |-> 2]]
        /\ UNCHANGED <<cr, cr3, i, page_addr>>
    BY <1>2, PhysicalAddresses, Zenon DEF TempPde, SetPde, kKPdeWritePresentAccess
  <2>2. [access |-> 3, addr |-> 2] \in Entry /\ mem \in [Frames -> [Index -> Entry]]
    BY DEF Entry, PagingTypeOK
  <2>3. mem' \in [Frames -> [Index -> Entry]] /\ mem'[1][0] = [access |-> 3, addr |-> 2]
    BY <2>1, <2>2, FrameFacts, WriteEntry
  <2>4. PagingTypeOK'
    BY <2>1, <2>3 DEF PagingTypeOK
  <2>5. AtTemp'
    BY <2>1, <2>3, PagingSizes DEF AtTemp, DirUpTo, TempUpTo, DirEntry, Index
  <2> QED BY <2>1, <2>4, <2>5 DEF Progress
<1>3. CASE TempFill
  <2>1. /\ pc = "temp_fill" /\ pc' = pc /\ j < kPdeNum /\ j' = j + 1
        /\ SetPte(pt_addr, j, 3, j)
        /\ UNCHANGED <<cr, cr3, i, pt_addr, page_addr>>
    BY <1>3 DEF TempFill, kKPteWritePresentAccess, kPteMaxNum
  <2>2. AtTemp
    BY <2>1 DEF Progress
  <2>3. /\ [access |-> 3, addr |-> j] \in Entry /\ j \in Index /\ j \in Nat
        /\ mem \in [Frames -> [Index -> Entry]]
    BY <2>1, PagingSizes DEF Entry, Index, PagingTypeOK
  <2>4. mem' = [mem EXCEPT ![2][j] = [access |-> 3, addr |-> j]]
    BY <2>1, <2>2 DEF AtTemp, SetPte
  <2>5. /\ mem' \in [Frames -> [Index -> Entry]]
        /\ \A g \in Frames, l \in Index :
             mem'[g][l] = IF g = 2 /\ l = j THEN [access |-> 3, addr |-> j] ELSE mem[g][l]
    BY <2>3, <2>4, FrameFacts, WriteEntry
  <2>6. PagingTypeOK'
    BY <2>1, <2>5 DEF PagingTypeOK
  <2>7. AtTemp'
    <3>1. DirUpTo(1)'
      <4>1. \A l \in Index : mem'[1][l] = mem[1][l]
        BY <2>5, FrameFacts
      <4> QED BY <2>2, <4>1 DEF AtTemp, DirUpTo
    <3>2. TempUpTo(j)'
      BY <2>1, <2>2, <2>3, <2>5, FrameFacts, PagingSizes DEF AtTemp, TempUpTo, Index
    <3> QED BY <2>1, <2>2, <2>3, <3>1, <3>2, PagingSizes DEF AtTemp
  <2> QED BY <2>1, <2>6, <2>7 DEF Progress
<1>4. CASE TempDone
  <2>1. /\ i' = 1 /\ pc = "temp_fill" /\ pc' = "user" /\ j >= kPdeNum
        /\ UNCHANGED <<cr, cr3, mem, j, pt_addr, page_addr>>
    BY <1>4 DEF TempDone, kPteMaxNum
  <2>2. AtTemp /\ PagingTypeOK'
    BY <2>1 DEF Progress, PagingTypeOK
  <2>3. AtUser' /\ TempFilled'
    <3>1. j = kPdeNum
      BY <2>1, <2>2, PagingSizes DEF AtTemp, PagingTypeOK
    <3> QED BY <2>1, <2>2, <3>1, PagingSizes
            DEF AtTemp, AtUser, TempFilled, DirUpTo, TempUpTo
  <2> QED BY <2>1, <2>2, <2>3 DEF Progress
<1>5. CASE UserPde
  <2> DEFINE e == [access |-> 6, addr |-> 0]
  <2>1. /\ pc = "user" /\ pc' = pc /\ i < kUPdeNum /\ i' = i + 1
        /\ mem' = [mem EXCEPT ![1][i] = e]
        /\ UNCHANGED <<cr, cr3, j, pt_addr, page_addr>>
    BY <1>5, PhysicalAddresses DEF UserPde, SetPde, kUPdeWriteAbsentAccess, kPdeAbsentAddr
  <2>2. AtUser /\ TempFilled /\ i \in Nat /\ mem \in [Frames -> [Index -> Entry]]
    BY <2>1 DEF Progress, PagingTypeOK
  <2>3. e \in Entry /\ i \in Index /\ e = DirEntry(i)
    BY <2>1, <2>2, PagingSizes DEF Entry, Index, AtUser, DirEntry
  <2> HIDE DEF e
  <2>4. /\ mem' \in [Frames -> [Index -> Entry]]
        /\ \A g \in Frames, l \in Index :
             mem'[g][l] = IF g = 1 /\ l = i THEN e ELSE mem[g][l]
    BY <2>1, <2>2, <2>3, FrameFacts, WriteEntry
  <2>5. PagingTypeOK'
    BY <2>1, <2>4 DEF PagingTypeOK
  <2>6. AtUser'
    <3>1. DirUpTo(i)
      BY <2>2 DEF AtUser
    <3>2. DirUpTo(i)'
      <4>1. \A l \in Index : mem'[1][l] = IF l = i THEN DirEntry(i) ELSE mem[1][l]
        BY <2>3, <2>4, FrameFacts
      <4>2. \A k \in Index : k < i + 1 => mem'[1][k] = DirEntry(k)
        BY <2>3, <3>1, <4>1, DirGrows
      <4> QED BY <2>1, <4>2 DEF DirUpTo
    <3> QED BY <2>1, <2>2, <3>2, PagingSizes DEF AtUser
  <2>7. TempFilled'
    BY <2>2, <2>4, FrameFacts DEF TempFilled, TempUpTo
  <2> QED BY <2>1, <2>5, <2>6, <2>7 DEF Progress
<1>6. CASE UserDone
  <2>1. /\ pc = "user" /\ pc' = "direct" /\ i >= kUPdeNum /\ pt_addr' = 3 /\ page_addr' = 0
        /\ UNCHANGED <<cr, cr3, mem, i, j>>
    BY <1>6, PhysicalAddresses DEF UserDone
  <2>2. AtUser /\ TempFilled /\ PagingTypeOK'
    BY <2>1 DEF Progress, PagingTypeOK
  <2>3. i = kUPdeNum /\ i' = kUPdeNum
    BY <2>1, <2>2, PagingSizes DEF AtUser
  <2>4. AtDirect'
    <3>1. (i' - kUPdeNum) * kPdeNum = 0 /\ i' - kUPdeNum = 0
      BY <2>3, PagingSizes
    <3>2. TablesUpTo(i - kUPdeNum)'
      BY <3>1 DEF TablesUpTo
    <3>3. DirUpTo(i)'
      BY <2>1, <2>2 DEF AtUser, DirUpTo
    <3> QED BY <2>1, <2>3, <3>1, <3>2, <3>3, PagingSizes DEF AtDirect
  <2>5. TempFilled'
    BY <2>1, <2>2 DEF TempFilled, TempUpTo
  <2> QED BY <2>1, <2>2, <2>4, <2>5 DEF Progress
<1>7. CASE DirectPde
  <2> DEFINE e == [access |-> 3, addr |-> pt_addr]
  <2>1. /\ pc = "direct" /\ pc' = "fill" /\ j' = 0
        /\ i < kUPdeNum + kKPdeDirectMappingNum
        /\ mem' = [mem EXCEPT ![1][i] = e]
        /\ UNCHANGED <<cr, cr3, i, pt_addr, page_addr>>
    <3>1. kKPdeDirectMappingNum + kUPdeNum = kUPdeNum + kKPdeDirectMappingNum
      BY PagingSizes
    <3> QED BY <1>7, <3>1, PhysicalAddresses DEF DirectPde, SetPde, kKPdeWritePresentAccess
  <2>2. /\ AtDirect /\ TempFilled /\ i \in Nat /\ pt_addr \in Nat
        /\ mem \in [Frames -> [Index -> Entry]]
    BY <2>1 DEF Progress, PagingTypeOK
  <2>3. e \in Entry /\ i \in Index /\ e = DirEntry(i)
    BY <2>1, <2>2, PagingSizes DEF Entry, Index, AtDirect, DirEntry
  <2> HIDE DEF e
  <2>4. /\ mem' \in [Frames -> [Index -> Entry]]
        /\ \A g \in Frames, l \in Index :
             mem'[g][l] = IF g = 1 /\ l = i THEN e ELSE mem[g][l]
    BY <2>1, <2>2, <2>3, FrameFacts, WriteEntry
  <2>5. PagingTypeOK'
    BY <2>1, <2>4 DEF PagingTypeOK
  <2>6. AtFill'
    <3>1. DirUpTo(i) /\ TablesUpTo(i - kUPdeNum)
      BY <2>2 DEF AtDirect
    <3>2. DirUpTo(i + 1)'
      <4>1. \A l \in Index : mem'[1][l] = IF l = i THEN DirEntry(i) ELSE mem[1][l]
        BY <2>3, <2>4, FrameFacts
      <4>2. \A k \in Index : k < i + 1 => mem'[1][k] = DirEntry(k)
        BY <2>3, <3>1, <4>1, DirGrows
      <4> QED BY <2>1, <4>2 DEF DirUpTo
    <3>3. TablesUpTo(i - kUPdeNum)'
      <4>1. \A d \in 0 .. kKPdeDirectMappingNum - 1 :
              \A t \in Index : mem'[3 + d][t] = mem[3 + d][t]
        BY <2>4, FrameFacts, PagingSizes
      <4> QED BY <2>1, <3>1, <4>1, TablesKept DEF TablesUpTo, TableUpTo
    <3>4. TableUpTo(i - kUPdeNum, j)'
      BY <2>1 DEF TableUpTo, Index
    <3>5. /\ i \in kUPdeNum .. kUPdeNum + kKPdeDirectMappingNum - 1
          /\ page_addr = (i - kUPdeNum) * kPdeNum + 0
          /\ pt_addr = 3 + i - kUPdeNum
      BY <2>1, <2>2, PagingSizes DEF AtDirect
    <3> QED BY <2>1, <3>2, <3>3, <3>4, <3>5, PagingSizes DEF AtFill
  <2>7. TempFilled'
    BY <2>2, <2>4, FrameFacts DEF TempFilled, TempUpTo
  <2> QED BY <2>1, <2>5, <2>6, <2>7 DEF Progress
<1>8. CASE DirectFill
  <2> DEFINE e == [access |-> 3, addr |-> page_addr]
             d == i - kUPdeNum
  <2>1. /\ pc = "fill" /\ pc' = pc /\ j < kPdeNum /\ j' = j + 1
        /\ page_addr' = page_addr + 1
        /\ mem' = [mem EXCEPT ![pt_addr][j] = e]
        /\ UNCHANGED <<cr, cr3, i, pt_addr>>
    BY <1>8, Zenon DEF DirectFill, SetPte, kKPteWritePresentAccess, kPteMaxNum
  <2>2. /\ AtFill /\ TempFilled /\ i \in Nat /\ j \in Nat /\ page_addr \in Nat
        /\ mem \in [Frames -> [Index -> Entry]]
    BY <2>1 DEF Progress, PagingTypeOK
  <2>3. /\ pt_addr = 3 + d /\ page_addr = d * kPdeNum + j
        /\ d \in 0 .. kKPdeDirectMappingNum - 1
        /\ i \in kUPdeNum .. kUPdeNum + kKPdeDirectMappingNum - 1
    BY <2>2, PagingSizes DEF AtFill
  <2>4. j \in Index /\ 3 + d \in Frames /\ 3 + d # 1 /\ 3 + d # 2
    <3>1. j \in Index
      BY <2>1, <2>2, PagingSizes DEF Index
    <3>2. 3 + d \in Frames
      BY <2>3, FrameFacts
    <3> QED BY <2>3, <3>1, <3>2, PagingSizes
  <2>5. e \in Entry /\ e = [access |-> 3, addr |-> d * kPdeNum + j]
    BY <2>2, <2>3 DEF Entry
  <2> HIDE DEF e
  <2>6. /\ mem' \in [Frames -> [Index -> Entry]]
        /\ \A g \in Frames, l \in Index :
             mem'[g][l] = IF g = 3 + d /\ l = j THEN e ELSE mem[g][l]
    <3>1. mem' = [mem EXCEPT ![3 + d][j] = e]
      BY <2>1, <2>3
    <3> HIDE DEF d
    <3> QED BY <2>2, <2>4, <2>5, <3>1, WriteEntry
  <2>7. PagingTypeOK'
    BY <2>1, <2>2, <2>6 DEF PagingTypeOK
  <2>8. AtFill'
    <3>1. DirUpTo(i + 1)'
      BY <2>1, <2>2, <2>4, <2>6, FrameFacts DEF AtFill, DirUpTo, DirEntry
    <3>2. TablesUpTo(d)'
      <4>1. TablesUpTo(d)
        BY <2>2 DEF AtFill
      <4>2. d' = d
        BY <2>1
      <4> HIDE DEF d
      <4> QED BY <2>3, <2>4, <2>6, <4>1, <4>2, FrameFacts DEF TablesUpTo, TableUpTo
    <3>3. TableUpTo(d, j)'
      <4>1. \A t \in Index : t < j + 1 => t = j \/ t < j
        BY <2>2, PagingSizes DEF Index
      <4>2. \A t \in Index : mem'[3 + d][t] = IF t = j THEN e ELSE mem[3 + d][t]
        BY <2>4, <2>6
      <4>3. \A t \in Index : t < j => mem[3 + d][t] = [access |-> 3, addr |-> d * kPdeNum + t]
        BY <2>2 DEF AtFill, TableUpTo
      <4>4. d' = d /\ j' = j + 1
        BY <2>1
      <4>5. \A t \in Index : t < j + 1 => mem'[3 + d][t] = [access |-> 3, addr |-> d * kPdeNum + t]
        BY <2>5, <4>1, <4>2, <4>3
      <4> QED BY <4>4, <4>5 DEF TableUpTo
    <3>4. page_addr' = d * kPdeNum + (j + 1) /\ j + 1 <= kPdeNum
      BY <2>1, <2>2, <2>3, PagingSizes
    <3> QED BY <2>1, <2>3, <3>1, <3>2, <3>3, <3>4 DEF AtFill
  <2>9. TempFilled'
    BY <2>2, <2>4, <2>6, FrameFacts DEF TempFilled, TempUpTo
  <2> QED BY <2>1, <2>7, <2>8, <2>9 DEF Progress
<1>9. CASE DirectNext
  <2> DEFINE d == i - kUPdeNum
  <2>1. /\ pc = "fill" /\ pc' = "direct" /\ j >= kPdeNum /\ i' = i + 1
        /\ pt_addr' = pt_addr + 1
        /\ UNCHANGED <<cr, cr3, mem, j, page_addr>>
    BY <1>9 DEF DirectNext, kPteMaxNum
  <2>2. AtFill /\ TempFilled /\ i \in Nat /\ j \in Nat /\ pt_addr \in Nat /\ PagingTypeOK'
    BY <2>1 DEF Progress, PagingTypeOK
  <2>3. /\ j = kPdeNum /\ d \in 0 .. kKPdeDirectMappingNum - 1 /\ i' - kUPdeNum = d + 1
        /\ i' \in kUPdeNum .. kUPdeNum + kKPdeDirectMappingNum
        /\ pt_addr' = 3 + i' - kUPdeNum
    BY <2>1, <2>2, PagingSizes DEF AtFill
  <2>4. page_addr' = (i' - kUPdeNum) * kPdeNum
    <3>1. page_addr' = (i - kUPdeNum) * kPdeNum + kPdeNum
      BY <2>1, <2>2, <2>3 DEF AtFill
    <3>2. (d + 1) * kPdeNum = d * kPdeNum + kPdeNum
      BY <2>3, PagingSizes
    <3> QED BY <2>3, <3>1, <3>2
  <2>5. TablesUpTo(i - kUPdeNum)'
    <3>1. TablesUpTo(d) /\ TableUpTo(d, kPdeNum)
      BY <2>2, <2>3 DEF AtFill
    <3>2. TablesUpTo(d + 1)
      <4>1. \A m \in 0 .. kKPdeDirectMappingNum - 1 : m < d + 1 => m < d \/ m = d
        BY <2>3, PagingSizes
      <4> HIDE DEF d
      <4> QED BY <3>1, <4>1 DEF TablesUpTo
    <3> QED BY <2>1, <2>3, <3>2 DEF TablesUpTo, TableUpTo
  <2>6. DirUpTo(i)' /\ TempFilled'
    BY <2>1, <2>2 DEF AtFill, TempFilled, DirUpTo, TempUpTo
  <2>7. AtDirect'
    BY <2>3, <2>4, <2>5, <2>6 DEF AtDirect
  <2> QED BY <2>1, <2>2, <2>6, <2>7 DEF Progress
<1>10. CASE DirectDone
  <2>1. /\ pc = "direct" /\ pc' = "dynamic" /\ i >= kKPdeDirectMappingNum + kUPdeNum
        /\ UNCHANGED <<cr, cr3, mem, i, j, pt_addr, page_addr>>
    BY <1>10 DEF DirectDone
  <2>2. AtDirect /\ TempFilled /\ PagingTypeOK'
    BY <2>1 DEF Progress, PagingTypeOK
  <2>3. /\ i = kUPdeNum + kKPdeDirectMappingNum /\ i - kUPdeNum = kKPdeDirectMappingNum
        /\ i \in kUPdeNum + kKPdeDirectMappingNum .. kPdeNum
    BY <2>1, <2>2, PagingSizes DEF AtDirect
  <2>4. TablesFilled'
    BY <2>1, <2>2, <2>3 DEF AtDirect, TablesFilled, TablesUpTo, TableUpTo
  <2>5. AtDynamic' /\ TempFilled'
    BY <2>1, <2>2, <2>3 DEF AtDirect, AtDynamic, TempFilled, DirUpTo, TempUpTo
  <2> QED BY <2>1, <2>2, <2>4, <2>5 DEF Progress
<1>11. CASE DynamicPde
  <2> DEFINE e == [access |-> 2, addr |-> 0]
  <2>1. /\ pc = "dynamic" /\ pc' = pc /\ i' = i + 1 /\ i < kPdeNum
        /\ mem' = [mem EXCEPT ![1][i] = e]
        /\ UNCHANGED <<cr, cr3, j, pt_addr, page_addr>>
    BY <1>11, PhysicalAddresses DEF DynamicPde, SetPde, kKPdeWriteAbsentAccess, kPdeAbsentAddr
  <2>2. /\ AtDynamic /\ TempFilled /\ TablesFilled /\ i \in Nat
        /\ mem \in [Frames -> [Index -> Entry]]
    BY <2>1 DEF Progress, PagingTypeOK
  <2>3. e \in Entry /\ i \in Index /\ e = DirEntry(i)
    BY <2>1, <2>2, PagingSizes DEF Entry, Index, AtDynamic, DirEntry
  <2> HIDE DEF e
  <2>4. /\ mem' \in [Frames -> [Index -> Entry]]
        /\ \A g \in Frames, l \in Index :
             mem'[g][l] = IF g = 1 /\ l = i THEN e ELSE mem[g][l]
    BY <2>1, <2>2, <2>3, FrameFacts, WriteEntry
  <2>5. PagingTypeOK'
    BY <2>1, <2>4 DEF PagingTypeOK
  <2>6. AtDynamic'
    <3>1. DirUpTo(i)
      BY <2>2 DEF AtDynamic
    <3>2. DirUpTo(i)'
      <4>1. \A l \in Index : mem'[1][l] = IF l = i THEN DirEntry(i) ELSE mem[1][l]
        BY <2>3, <2>4, FrameFacts
      <4>2. \A k \in Index : k < i + 1 => mem'[1][k] = DirEntry(k)
        BY <2>3, <3>1, <4>1, DirGrows
      <4> QED BY <2>1, <4>2 DEF DirUpTo
    <3> QED BY <2>1, <2>2, <3>2, PagingSizes DEF AtDynamic
  <2>7. TempFilled'
    BY <2>2, <2>4, FrameFacts DEF TempFilled, TempUpTo
  <2>8. TablesFilled'
    <3>1. \A d \in 0 .. kKPdeDirectMappingNum - 1 :
            \A t \in Index : mem'[3 + d][t] = mem[3 + d][t]
      BY <2>4, FrameFacts, PagingSizes
    <3> QED BY <2>2, <3>1, TablesKept DEF TablesFilled, TablesUpTo, TableUpTo
  <2> QED BY <2>1, <2>5, <2>6, <2>7, <2>8 DEF Progress
<1>12. CASE ClearPae
  <2>1. /\ pc = "dynamic" /\ pc' = "pg" /\ i >= kPdeNum
        /\ cr' = [cr EXCEPT ![4] = @ \ {5}]
        /\ UNCHANGED <<cr3, mem, i, j, pt_addr, page_addr>>
    BY <1>12 DEF ClearPae, clear_cr
  <2>2. AtDynamic /\ TempFilled /\ TablesFilled /\ cr \in [{0, 4} -> SUBSET {5, 31}]
    BY <2>1 DEF Progress, PagingTypeOK
  <2>3. cr' \in [{0, 4} -> SUBSET {5, 31}] /\ 5 \notin cr'[4] /\ cr'[0] = cr[0]
    BY <2>1, <2>2
  <2>4. PagingTypeOK'
    BY <2>1, <2>3 DEF PagingTypeOK
  <2>5. AtEnd'
    <3>1. i = kPdeNum
      BY <2>1, <2>2, PagingSizes DEF AtDynamic
    <3> QED BY <2>1, <2>2, <2>3, <3>1 DEF AtDynamic, AtEnd, DirUpTo
  <2>6. TablesFilled' /\ TempFilled'
    BY <2>1, <2>2 DEF TempFilled, TempUpTo, TablesFilled, TablesUpTo, TableUpTo
  <2> QED BY <2>1, <2>3, <2>4, <2>5, <2>6 DEF Progress
<1>13. CASE OpenPaging
  <2>1. /\ pc = "pg" /\ pc' = "done"
        /\ cr' = [cr EXCEPT ![0] = @ \cup {31}]
        /\ UNCHANGED <<cr3, mem, i, j, pt_addr, page_addr>>
    BY <1>13 DEF OpenPaging, set_cr
  <2>2. AtEnd /\ TempFilled /\ TablesFilled /\ cr \in [{0, 4} -> SUBSET {5, 31}]
    BY <2>1 DEF Progress, PagingTypeOK
  <2>3. cr' \in [{0, 4} -> SUBSET {5, 31}] /\ cr'[4] = cr[4]
    BY <2>1, <2>2
  <2>4. PagingTypeOK'
    BY <2>1, <2>3 DEF PagingTypeOK
  <2>5. AtEnd'
    BY <2>1, <2>2, <2>3 DEF AtEnd, DirUpTo
  <2>6. TablesFilled' /\ TempFilled'
    BY <2>1, <2>2 DEF TempFilled, TempUpTo, TablesFilled, TablesUpTo, TableUpTo
  <2> QED BY <2>1, <2>4, <2>5, <2>6 DEF Progress
<1>14. CASE UNCHANGED paging
  <2>1. UNCHANGED <<cr, cr3, mem, pc, i, j, pt_addr, page_addr>>
    BY <1>14 DEF paging
  <2>2. /\ AtTemp' = AtTemp /\ AtUser' = AtUser /\ AtDirect' = AtDirect
        /\ AtFill' = AtFill /\ AtDynamic' = AtDynamic /\ AtEnd' = AtEnd
        /\ TempFilled' = TempFilled /\ TablesFilled' = TablesFilled
    BY <2>1 DEF AtTemp, AtUser, AtDirect, AtFill, AtDynamic, AtEnd, TempFilled,
                TablesFilled, DirUpTo, TempUpTo, TablesUpTo, TableUpTo
  <2> QED BY <2>1, <2>2 DEF PagingTypeOK, Progress
<1> QED
  BY <1>1, <1>2, <1>3, <1>4, <1>5, <1>6, <1>7, <1>8, <1>9, <1>10, <1>11, <1>12,
     <1>13, <1>14 DEF PagingStep

\* With every entry in place, the processor translates as it should.
LEMMA ProgressMaps == PagingInv => (PagingOn => Mapped)
<1> SUFFICES ASSUME PagingInv, PagingOn PROVE
      /\ 5 \notin cr[4]
      /\ \A d \in Index, t \in Index :
           Translate(d, t) =
             IF d = 0 THEN t
             ELSE IF d \in kUPdeNum .. kUPdeNum + kKPdeDirectMappingNum - 1
               THEN (d - kUPdeNum) * kPteMaxNum + t
             ELSE Absent
  BY DEF Mapped
<1>1. /\ cr3 = 1 /\ 5 \notin cr[4]
      /\ DirUpTo(kPdeNum) /\ TempUpTo(kPdeNum) /\ TablesUpTo(kKPdeDirectMappingNum)
  BY DEF PagingInv, Progress, PagingOn, AtEnd, TempFilled, TablesFilled
<1>2. ASSUME NEW d \in Index, NEW t \in Index
      PROVE  Translate(d, t) =
               IF d = 0 THEN t
               ELSE IF d \in kUPdeNum .. kUPdeNum + kKPdeDirectMappingNum - 1
                 THEN (d - kUPdeNum) * kPteMaxNum + t
               ELSE Absent
  <2>1. mem[cr3][d] = DirEntry(d)
    BY <1>1, PagingAssumption DEF DirUpTo, Index
  <2>2. CASE d = 0
    <3>1. mem[2][t] = [access |-> 3, addr |-> t]
      BY <1>1, PagingAssumption DEF TempUpTo, Index
    <3> QED BY <2>1, <2>2, <3>1 DEF DirEntry, Translate, Present
  <2>3. CASE d # 0 /\ d \in kUPdeNum .. kUPdeNum + kKPdeDirectMappingNum - 1
    <3> DEFINE n == d - kUPdeNum
    <3>1. n \in 0 .. kKPdeDirectMappingNum - 1
      BY <2>3, PagingAssumption DEF Index
    <3>2. mem[3 + n][t] = [access |-> 3, addr |-> n * kPdeNum + t]
      <4> HIDE DEF n
      <4>1. TableUpTo(n, kPdeNum)
        <5>1. n < kKPdeDirectMappingNum
          BY <3>1, PagingAssumption
        <5> QED BY <1>1, <3>1, <5>1 DEF TablesUpTo
      <4>2. t < kPdeNum
        BY PagingAssumption DEF Index
      <4> QED BY <4>1, <4>2, Zenon DEF TableUpTo
    <3>3. DirEntry(d) = [access |-> 3, addr |-> 3 + n]
      BY <2>3, PagingAssumption DEF DirEntry, Index
    <3> QED BY <2>1, <2>3, <3>2, <3>3 DEF Translate, Present, kPteMaxNum
  <2>4. CASE d # 0 /\ d \notin kUPdeNum .. kUPdeNum + kKPdeDirectMappingNum - 1
    <3>1. DirEntry(d).access \in {2, 6}
      BY <2>4, PagingAssumption DEF DirEntry, Index
    <3> QED BY <2>1, <2>4, <3>1 DEF Translate, Present
  <2> QED BY <2>2, <2>3, <2>4
<1> QED BY <1>1, <1>2

\* PagingInit, from any contents of memory, leaves the mapping the kernel
\* relies on, for tables and areas of any size.
THEOREM PagingMaps == PagingSpec => MappedRight
<1> QED BY PagingInitInv, PagingStepInv, ProgressMaps, PTL DEF PagingSpec, MappedRight

-----------------------------------------------------------------------------
(* Interrupts.                                                             *)

\* What the tables and the controllers keep true together: GateHasHandler is
\* what makes a delivered interrupt reach a handler, which sends the EOI, and
\* EoiSent what lets a handler that sent it first return without another.
EoiSent ==
    running # NULL => Booted /\ (intr_handler[running] \in EoiFirst => isr = {})

Invariant == TypeOK /\ GateHasHandler /\ AllAcknowledged /\ EoiSent

\* RegIntrHandler, granted or refused, and RemoveIntrHandler change a gate and
\* its handler together.
LEMMA TablesAgree ==
  ASSUME TypeOK, GateHasHandler, NEW v \in Vectors, NEW h \in Handlers,
         RegIntrHandler(v, h) \/ RemoveIntrHandler(v)
  PROVE  /\ IntrVecMap' \subseteq {BitOf(w) : w \in Vectors}
         /\ intr_handler' \in [Vectors -> Handlers \cup {NULL}]
         /\ idt' \subseteq Vectors
         /\ GateHasHandler'
<1>1. CASE RegIntrHandler(v, h)
  <2>1. CASE IsBitmapSet(IntrVecMap, v)
    BY <1>1, <2>1 DEF RegIntrHandler, tables, TypeOK, GateHasHandler
  <2>2. CASE ~ IsBitmapSet(IntrVecMap, v)
    <3>1. /\ IntrVecMap' = IntrVecMap \cup {BitOf(v)}
          /\ intr_handler' = [intr_handler EXCEPT ![v] = h]
          /\ idt' = idt \cup {v}
      BY <1>1, <2>2 DEF RegIntrHandler, EnableIdt, SetBitmap
    <3>2. GateHasHandler'
      BY <3>1, DevicesAssumption DEF TypeOK, GateHasHandler
    <3> QED BY <3>1, <3>2 DEF TypeOK
  <2> QED BY <2>1, <2>2
<1>2. CASE RemoveIntrHandler(v)
  BY <1>2 DEF RemoveIntrHandler, DisableIdt, ClearBitmap, TypeOK, GateHasHandler
<1> QED BY <1>1, <1>2

\* An EOI ends services, and begins none.
LEMMA EoiShrinks == \A s, v : SendEoi(s, v) \subseteq s
BY DEF SendEoi, Eoi

\* With nothing but one IRQ in service, SendEoi of its vector leaves nothing, on
\* either controller, even when an exception's EOI came before it.
LEMMA EoiEndsService ==
  ASSUME NEW v \in MasterIrqs \cup SlaveIrqs, NEW s \in SUBSET {v, MasterLine(v)}
  PROVE  SendEoi(s, v) = {}
<1>1. /\ MasterIrqs = 32 .. 39 /\ SlaveIrqs = 40 .. 47 /\ Cascade = 34
      /\ kSIcw2 = 40
  BY DEF MasterIrqs, SlaveIrqs, Cascade, kSIcw2, kMIcw2
<1>2. ASSUME NEW x \in Nat, NEW t \in SUBSET {x} PROVE Eoi(t) = {}
  <2>1. \A w \in t : w = x
    BY Zenon
  <2>2. ~ (x < x)
    OBVIOUS
  <2>3. Eoi(t) \subseteq {}
    BY <2>1, <2>2, Zenon DEF Eoi
  <2> QED BY <2>3, Zenon
<1>3. CASE v \in MasterIrqs
  <2>1. MasterLine(v) = v /\ v \in 32 .. 39
    BY <1>1, <1>3 DEF MasterLine
  <2>2. v \in Nat /\ ~ (v >= kSIcw2) /\ v \notin SlaveIrqs
    BY <1>1, <2>1
  <2>3. /\ s \cap MasterIrqs \in SUBSET {v}
        /\ s \cap SlaveIrqs = {}
    BY <2>1, <2>2, Zenon
  <2>4. Eoi(s \cap MasterIrqs) = {}
    BY <1>2, <2>2, <2>3, Zenon
  <2> QED BY <2>2, <2>3, <2>4 DEF SendEoi
<1>4. CASE v \in SlaveIrqs
  <2>1. MasterLine(v) = Cascade
    BY <1>4 DEF MasterLine
  <2>2. /\ v \in Nat /\ v >= kSIcw2 /\ v \notin MasterIrqs
        /\ Cascade \in Nat /\ Cascade \in MasterIrqs /\ Cascade \notin SlaveIrqs
    BY <1>1, <1>4
  <2>3. /\ s \cap MasterIrqs \in SUBSET {Cascade}
        /\ s \cap SlaveIrqs \in SUBSET {v}
    BY <2>1, <2>2, Zenon
  <2>4. Eoi(s \cap MasterIrqs) = {} /\ Eoi(s \cap SlaveIrqs) = {}
    BY <1>2, <2>2, <2>3, Zenon
  <2> QED BY <2>2, <2>4 DEF SendEoi
<1> QED BY <1>3, <1>4

\* Before IntrInit registers anything no gate is present, and nothing is in
\* service.
LEMMA InitInvariant == Init => Invariant
BY DevicesAssumption
   DEF Init, IdtInit, PicInit, Invariant, TypeOK, GateHasHandler, AllAcknowledged, EoiSent,
       kIdtExcNum

\* Each statement of kernel_start, each interrupt and each exception keeps the
\* invariant.
LEMMA NextInvariant == Invariant /\ [Next]_vars => Invariant'
<1> SUFFICES ASSUME Invariant, [Next]_vars PROVE Invariant'
  OBVIOUS
<1> USE DEF Invariant
<1>v. /\ \A v \in 0 .. kIdtExcNum : v \in Vectors
      /\ {kPfVec, kSyscallVec, kIdeVec, kTimerVec, kKeyboardVec} \subseteq Vectors
      /\ boot \in Int
  BY DEF TypeOK, Vectors, kIdtExcNum, kIdtEntryNum, kPfVec, kSyscallVec, kIdeVec,
         kTimerVec, kKeyboardVec
<1>h. {"ExcHandler", "PfHandler", "Syscall", "IdeHandler", "TimerHandler",
       "KeyboardHandler"} \subseteq Handlers
  BY DEF Handlers
\* A step that changes the tables by registering or removing one vector, and
\* of the controllers at most the masks.
<1>t. ASSUME NEW v \in Vectors, NEW h \in Handlers,
             RegIntrHandler(v, h) \/ RemoveIntrHandler(v),
             imr' \subseteq imr, UNCHANGED <<irr, isr, running>>,
             boot' = boot + 1, boot' \in 0 .. kIdtExcNum + 7
      PROVE  Invariant'
  <2>1. running = NULL
    BY <1>t, <1>v DEF EoiSent, Booted, kIdtExcNum
  <2> QED BY <1>t, <2>1, TablesAgree DEF TypeOK, AllAcknowledged, EoiSent
<1>a. ASSUME NEW k \in 0 .. 6, At(k)
      PROVE  boot' = boot + 1 /\ boot' \in 0 .. kIdtExcNum + 7
  BY <1>a, <1>v DEF At, kIdtExcNum
<1>1. CASE ExcVectors
  <2>1. boot \in Vectors /\ boot' = boot + 1 /\ boot' \in 0 .. kIdtExcNum + 7
    BY <1>1 DEF ExcVectors, TypeOK, Vectors, kIdtExcNum, kIdtEntryNum
  <2> QED BY <1>1, <1>h, <1>t, <2>1 DEF ExcVectors, pic
<1>2. CASE RemovePf
  BY <1>2, <1>v, <1>h, <1>t, <1>a DEF RemovePf, pic
<1>3. CASE RegPf
  BY <1>3, <1>v, <1>h, <1>t, <1>a DEF RegPf, pic
<1>4. CASE SyscallInit
  BY <1>4, <1>v, <1>h, <1>t, <1>a DEF SyscallInit, pic
<1>n. ASSUME NoDevice, boot' = boot + 1, boot' \in 0 .. kIdtExcNum + 7
      PROVE  Invariant'
  <2>1. running = NULL
    BY <1>n, <1>v DEF EoiSent, Booted, kIdtExcNum
  <2> QED BY <1>n, <2>1 DEF NoDevice, tables, pic, TypeOK, GateHasHandler,
                            AllAcknowledged, EoiSent
<1>5. CASE IdeInit
  <2>1. CASE Install(kIdeVec, "IdeHandler")
    BY <1>5, <2>1, <1>v, <1>h, <1>t, <1>a DEF IdeInit, Install, EnableIrq
  <2> QED BY <1>5, <2>1, <1>n, <1>a DEF IdeInit
<1>6. CASE TimerInit
  BY <1>6, <1>v, <1>h, <1>t, <1>a DEF TimerInit, Install, EnableIrq
<1>7. CASE KeyboardInit
  <2>1. CASE Install(kKeyboardVec, "KeyboardHandler")
    BY <1>7, <2>1, <1>v, <1>h, <1>t, <1>a DEF KeyboardInit, Install, EnableIrq
  <2> QED BY <1>7, <2>1, <1>n, <1>a DEF KeyboardInit
<1>8. CASE Sti
  BY <1>8, <1>n, <1>a DEF Sti, NoDevice
<1>9. ASSUME NEW v \in Devices, Raise(v) PROVE Invariant'
  BY <1>9 DEF Raise, tables, TypeOK, GateHasHandler, AllAcknowledged, EoiSent, Booted
<1>d. \A v \in Devices : v \in MasterIrqs \cup SlaveIrqs /\ v \in Vectors /\ v # NULL
  BY DevicesAssumption
     DEF Vectors, MasterIrqs, SlaveIrqs, kIdtEntryNum, kSIcw2, kMIcw2
<1>10. ASSUME NEW v \in Devices, Irq(v) PROVE Invariant'
  <2>1. intr_handler[v] # NULL /\ running' = v /\ isr = {}
    BY <1>10, <1>d DEF Irq, GateHasHandler, AllAcknowledged
  <2>2. isr' \subseteq {v, MasterLine(v)}
    BY <1>10, <2>1, EoiShrinks DEF Irq
  <2>3. intr_handler[v] \in EoiFirst => isr' = {}
    BY <1>10, <1>d, <2>1, EoiEndsService DEF Irq
  <2>4. {v, MasterLine(v)} \subseteq MasterIrqs \cup SlaveIrqs
    BY <1>d DEF MasterLine, MasterIrqs, SlaveIrqs, Cascade, kSIcw2, kMIcw2
  <2>5. TypeOK'
    BY <1>10, <2>1, <2>2, <2>4 DEF Irq, tables, TypeOK
  <2>6. AllAcknowledged' /\ EoiSent'
    BY <1>10, <1>d, <2>1, <2>2, <2>3 DEF Irq, tables, AllAcknowledged, EoiSent, Booted
  <2> QED BY <1>10, <2>5, <2>6 DEF Irq, tables, GateHasHandler
<1>r. ASSUME NEW v \in Devices, Return(v) PROVE Invariant'
  <2>1. running # NULL /\ isr \in SUBSET {v, MasterLine(v)}
    BY <1>r, <1>d DEF Return, AllAcknowledged
  <2>2. isr' = {}
    BY <1>r, <1>d, <2>1, EoiEndsService DEF Return, EoiSent
  <2> QED BY <1>r, <2>2 DEF Return, tables, TypeOK, GateHasHandler, AllAcknowledged, EoiSent
<1>11. ASSUME NEW v \in 0 .. kIdtExcNum - 1, Exception(v) PROVE Invariant'
  <2>1. isr' \subseteq isr
    BY <1>11, EoiShrinks DEF Exception
  <2> QED BY <1>11, <2>1 DEF Exception, tables, TypeOK, GateHasHandler, AllAcknowledged,
                             EoiSent, Booted
<1>12. CASE UNCHANGED vars
  BY <1>12 DEF vars, TypeOK, GateHasHandler, AllAcknowledged, EoiSent, Booted
<1> QED BY <1>1, <1>2, <1>3, <1>4, <1>5, <1>6, <1>7, <1>8, <1>9, <1>10, <1>r, <1>11,
           <1>12 DEF Next, Kernel

\* The tables and the controllers keep their invariant from boot on.
THEOREM InvariantHolds == Spec => []Invariant
BY InitInvariant, NextInvariant, PTL DEF Spec

\* The tables and the controllers hold what they can hold.
THEOREM TypesHold == Spec => []TypeOK
BY InvariantHolds, PTL DEF Invariant

\* A gate is present exactly when its vector has a handler.
THEOREM GatesAndHandlersAgree == Spec => []GateHasHandler
BY InvariantHolds, PTL DEF Invariant

\* Every interrupt of every device is acknowledged on both controllers by the end
\* of its handler, and no other service is there for a stray EOI to end.
THEOREM EveryInterruptAcknowledged == Spec => []AllAcknowledged
BY InvariantHolds, PTL DEF Invariant

-----------------------------------------------------------------------------
(* OpenIrqHasHandler needs to know which bits of the bitmap can be set when *)
(* a driver registers its vector.                                           *)

Own == {<<kTimerVec, "TimerHandler">>, <<kKeyboardVec, "KeyboardHandler">>,
        <<kIdeVec, "IdeHandler">>}

DriverBits ==
    /\ BitOf(kIdeVec) \in IntrVecMap => boot > kIdtExcNum + 3
    /\ BitOf(kTimerVec) \in IntrVecMap => boot > kIdtExcNum + 4
    /\ BitOf(kKeyboardVec) \in IntrVecMap => boot > kIdtExcNum + 5

Irqs == MasterIrqs \cup SlaveIrqs

OpenRight ==
    \A v \in Irqs \ (imr \cup {Cascade}) : v \in idt /\ <<v, intr_handler[v]>> \in Own

OpenInv == Invariant /\ DriverBits /\ OpenRight

\* The vectors of the drivers share a bit neither with each other nor with an
\* exception nor with the system call.
LEMMA BitsDiffer ==
  /\ \A v \in 0 .. 31 : \A w \in {kIdeVec, kTimerVec, kKeyboardVec} : BitOf(v) # BitOf(w)
  /\ \A w \in {kIdeVec, kTimerVec, kKeyboardVec} : BitOf(kSyscallVec) # BitOf(w)
  /\ BitOf(kIdeVec) # BitOf(kTimerVec)
  /\ BitOf(kIdeVec) # BitOf(kKeyboardVec)
  /\ BitOf(kTimerVec) # BitOf(kKeyboardVec)
<1>1. \A v \in 0 .. 31 : v \div (SizeofInt * 8) = 0
  BY DEF SizeofInt
<1>2. \A w \in {46, 32, 33} : w \div (SizeofInt * 8) = 1
  BY DEF SizeofInt
<1>3. 128 \div (SizeofInt * 8) = 4
  BY DEF SizeofInt
<1>4. 46 % SizeofInt = 2 /\ 32 % SizeofInt = 0 /\ 33 % SizeofInt = 1
  BY DEF SizeofInt
<1> QED BY <1>1, <1>2, <1>3, <1>4 DEF BitOf, kIdeVec, kTimerVec, kKeyboardVec, kSyscallVec

\* At the start every IRQ is masked and no bit is set.
LEMMA InitOpen == Init => OpenInv
BY InitInvariant DEF Init, PicInit, OpenInv, DriverBits, OpenRight, Irqs

\* Registering a vector that is no IRQ opens nothing and sets no driver's bit.
LEMMA OtherVector ==
  ASSUME OpenInv, NEW v \in 0 .. 31 \cup {kSyscallVec}, NEW h,
         RegIntrHandler(v, h) \/ RemoveIntrHandler(v),
         UNCHANGED imr, boot' = boot + 1
  PROVE  DriverBits' /\ OpenRight'
<1>1. /\ BitOf(v) # BitOf(kIdeVec) /\ BitOf(v) # BitOf(kTimerVec)
      /\ BitOf(v) # BitOf(kKeyboardVec)
  BY BitsDiffer
<1>2. boot \in Int /\ kIdtExcNum = 32
  BY DEF OpenInv, Invariant, TypeOK, kIdtExcNum
<1>3. v \notin Irqs /\ Irqs \subseteq Vectors
  BY DEF Irqs, MasterIrqs, SlaveIrqs, kMIcw2, kSIcw2, kSyscallVec, Vectors, kIdtEntryNum
<1>4. IntrVecMap' \subseteq IntrVecMap \cup {BitOf(v)}
  BY DEF RegIntrHandler, RemoveIntrHandler, SetBitmap, ClearBitmap, tables
<1>5. \A w \in Irqs : (w \in idt' <=> w \in idt) /\ intr_handler'[w] = intr_handler[w]
  BY <1>3 DEF RegIntrHandler, RemoveIntrHandler, EnableIdt, DisableIdt, tables, OpenInv,
              Invariant, TypeOK
<1>6. DriverBits'
  BY <1>1, <1>2, <1>4 DEF OpenInv, DriverBits
<1> QED BY <1>5, <1>6 DEF OpenInv, OpenRight

\* A driver's registration is granted: its bit is free.
LEMMA DriverVector ==
  ASSUME OpenInv, NEW v \in {kIdeVec, kTimerVec, kKeyboardVec}, NEW h, <<v, h>> \in Own,
         BitOf(v) \notin IntrVecMap, Install(v, h)
  PROVE  OpenRight' /\ IntrVecMap' = IntrVecMap \cup {BitOf(v)}
<1>1. v \in Irqs /\ Irqs \subseteq Vectors
  BY DEF Irqs, MasterIrqs, SlaveIrqs, kMIcw2, kSIcw2, Vectors, kIdtEntryNum, kIdeVec,
         kTimerVec, kKeyboardVec
<1>2. /\ IntrVecMap' = IntrVecMap \cup {BitOf(v)}
      /\ intr_handler' = [intr_handler EXCEPT ![v] = h]
      /\ idt' = idt \cup {v}
      /\ imr' = imr \ {v}
  BY DEF Install, RegIntrHandler, EnableIdt, EnableIrq, SetBitmap, IsBitmapSet
<1>3. intr_handler \in [Vectors -> Handlers \cup {NULL}]
  BY DEF OpenInv, Invariant, TypeOK
<1>4. ASSUME NEW w \in Irqs, w \notin imr', w # Cascade
      PROVE  w \in idt' /\ <<w, intr_handler'[w]>> \in Own
  <2>1. CASE w = v
    <3>1. intr_handler'[w] = h
      BY <1>1, <1>2, <1>3, <2>1
    <3> QED BY <1>2, <2>1, <3>1
  <2>2. CASE w # v
    <3>1. intr_handler'[w] = intr_handler[w]
      BY <1>1, <1>2, <1>3, <2>2
    <3> QED BY <1>2, <1>4, <2>2, <3>1 DEF OpenInv, OpenRight
  <2> QED BY <2>1, <2>2
<1> QED BY <1>2, <1>4 DEF OpenRight

\* Each statement of kernel_start finds the bit of the vector it registers free,
\* and opens an IRQ together with its handler.
LEMMA NextOpen == OpenInv /\ [Next]_vars => OpenInv'
<1> SUFFICES ASSUME OpenInv, [Next]_vars PROVE DriverBits' /\ OpenRight'
  BY NextInvariant DEF OpenInv
<1>e. kIdtExcNum = 32 /\ kPfVec = 14 /\ boot \in 0 .. 39
  BY DEF OpenInv, Invariant, TypeOK, kIdtExcNum, kPfVec
<1>s. ASSUME UNCHANGED tables, imr' = imr, boot' \in {boot, boot + 1}
      PROVE  DriverBits' /\ OpenRight'
  BY <1>s, <1>e DEF OpenInv, DriverBits, OpenRight, tables
<1>o. /\ <<kTimerVec, "TimerHandler">> \in Own
      /\ <<kKeyboardVec, "KeyboardHandler">> \in Own
      /\ <<kIdeVec, "IdeHandler">> \in Own
  BY DEF Own
<1>1. CASE ExcVectors
  <2>1. boot \in 0 .. 31
    BY <1>1, <1>e DEF ExcVectors
  <2> QED BY <1>1, <2>1, OtherVector DEF ExcVectors, pic
<1>2. CASE RemovePf
  BY <1>2, <1>e, OtherVector DEF RemovePf, pic, At
<1>3. CASE RegPf
  BY <1>3, <1>e, OtherVector DEF RegPf, pic, At
<1>4. CASE SyscallInit
  BY <1>4, <1>e, OtherVector DEF SyscallInit, pic, At
<1>5. CASE IdeInit
  <2>1. boot = 35 /\ boot' = 36
    BY <1>5, <1>e DEF IdeInit, At
  <2>2. CASE Install(kIdeVec, "IdeHandler")
    <3>1. BitOf(kIdeVec) \notin IntrVecMap
      BY <2>1, <1>e DEF OpenInv, DriverBits
    <3>2. OpenRight' /\ IntrVecMap' = IntrVecMap \cup {BitOf(kIdeVec)}
      BY <1>o, <2>2, <3>1, DriverVector
    <3> QED BY <2>1, <1>e, <3>2, BitsDiffer DEF OpenInv, DriverBits
  <2>3. CASE NoDevice
    BY <2>1, <2>3, <1>s DEF NoDevice, pic
  <2> QED BY <1>5, <2>2, <2>3 DEF IdeInit
<1>6. CASE TimerInit
  <2>1. boot = 36 /\ boot' = 37
    BY <1>6, <1>e DEF TimerInit, At
  <2>2. BitOf(kTimerVec) \notin IntrVecMap
    BY <2>1, <1>e DEF OpenInv, DriverBits
  <2>3. OpenRight' /\ IntrVecMap' = IntrVecMap \cup {BitOf(kTimerVec)}
    BY <1>o, <1>6, <2>2, DriverVector DEF TimerInit
  <2> QED BY <2>1, <1>e, <2>3, BitsDiffer DEF OpenInv, DriverBits
<1>7. CASE KeyboardInit
  <2>1. boot = 37 /\ boot' = 38
    BY <1>7, <1>e DEF KeyboardInit, At
  <2>2. CASE Install(kKeyboardVec, "KeyboardHandler")
    <3>1. BitOf(kKeyboardVec) \notin IntrVecMap
      BY <2>1, <1>e DEF OpenInv, DriverBits
    <3>2. OpenRight' /\ IntrVecMap' = IntrVecMap \cup {BitOf(kKeyboardVec)}
      BY <1>o, <2>2, <3>1, DriverVector
    <3> QED BY <2>1, <1>e, <3>2, BitsDiffer DEF OpenInv, DriverBits
  <2>3. CASE NoDevice
    BY <2>1, <2>3, <1>s DEF NoDevice, pic
  <2> QED BY <1>7, <2>2, <2>3 DEF KeyboardInit
<1>8. CASE Sti
  BY <1>8, <1>s DEF Sti, pic, At
<1>9. ASSUME NEW v, Raise(v) \/ Irq(v) \/ Return(v) \/ Exception(v)
      PROVE  DriverBits' /\ OpenRight'
  BY <1>9, <1>s DEF Raise, Irq, Return, Exception
<1>10. CASE UNCHANGED vars
  BY <1>10, <1>s DEF vars, tables
<1> QED BY <1>1, <1>2, <1>3, <1>4, <1>5, <1>6, <1>7, <1>8, <1>9, <1>10 DEF Next, Kernel

\* What holds of open IRQs all along holds once interrupts are on.
LEMMA OpenImplies == OpenInv => OpenIrqHasHandler
BY DEF OpenInv, OpenRight, OpenIrqHasHandler, Own, Irqs

\* No registration of a driver is refused and no IRQ is left open without its
\* handler.
THEOREM OpenIrqsHandled == Spec => []OpenIrqHasHandler
BY InitOpen, NextOpen, OpenImplies, PTL DEF Spec

=============================================================================
