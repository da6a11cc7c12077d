----------------------------- MODULE Processes ------------------------------
(***************************************************************************)
(* Process control blocks: process/process.c, with UPdClone of             *)
(* memory/paging.c.                                                        *)
(*                                                                         *)
(* The blocks are words of memory, because ProcManagerInit walks its pool  *)
(* with a pointer to ListNode, which is one word long, where it means the  *)
(* next Pcb, and the blocks overlap.  A pointer is the number of the word  *)
(* it points to; a value is a sequence so that words of all kinds compare. *)
(***************************************************************************)
EXTENDS Integers, Sequences

CONSTANTS
  kProcInitNum,  \* blocks in the pool
  kUPdeNum,      \* entries of a page directory for user space
  kPdeNum        \* all entries of a page directory

\* The members of Pcb, in words.
pid == 0
page_dir == 1
state == 2
code_addr == 3
code_size == 4
data_addr == 5
data_size == 6
father == 7
left == 8
right == 9
node == 10
thread_list == 11
PcbSize == 12

NULL == <<>>
Ptr(w) == <<"pointer", w>>
Num(n) == <<"number", n>>
Dir(n) == <<"directory", n>>

pcb_list == 1
k_pcb == pcb_list + kProcInitNum * PcbSize
free_proc_list == k_pcb + PcbSize
Words == pcb_list .. free_proc_list

\* What ReqBytes(sizeof(Pcb)) returned held: it is not cleared.
Garbage(w) == Num(1000 + w)

VARIABLES
  word,  \* the words of memory
  dirs,  \* the page directories: sequence of functions index -> [write, pt]
  wild,  \* control left the modelled code through a pointer that is not one
  made   \* the blocks CreateProc returned

vars == <<word, dirs, wild, made>>

-----------------------------------------------------------------------------
\* ListAdd(list, n) and ListRemove(list) on the word where a node is.
ListAdd(w, list, n) == [w EXCEPT ![n] = w[list], ![list] = Ptr(n)]

\* One turn of the loop of ProcManagerInit for the block at p.
InitPcb(w, p, number) ==
    [ListAdd(w, free_proc_list, p + node) EXCEPT
       ![p + pid] = Num(number), ![p + thread_list] = NULL, ![p + left] = NULL,
       ![p + right] = NULL, ![p + father] = NULL, ![p + page_dir] = NULL]

\* The pool after n turns: 'cur++' moves on by one word.
Pool[n \in 0 .. kProcInitNum] ==
    IF n = 0
      THEN [w \in Words |-> IF w = free_proc_list THEN Ptr(w) ELSE Garbage(w)]
      ELSE InitPcb(Pool[n - 1], pcb_list + n - 1, kProcInitNum - (n - 1))

ProcManagerInit ==
    word = [Pool[kProcInitNum] EXCEPT
              ![k_pcb + pid] = Num(0), ![k_pcb + node] = NULL, ![k_pcb + page_dir] = Dir(1),
              ![k_pcb + thread_list] = Ptr(k_pcb + thread_list), ![k_pcb + father] = NULL,
              ![k_pcb + left] = NULL, ![k_pcb + right] = NULL, ![k_pcb + state] = <<"RUN">>]

Init ==
    /\ ProcManagerInit
    /\ dirs = << [k \in 0 .. kPdeNum - 1 |-> [write |-> TRUE, pt |-> k]] >>
    /\ wild = FALSE
    /\ made = {}

-----------------------------------------------------------------------------
\* UPdClone(new directory, directory d): the user half of d loses its R/W
\* flag, then all of it is copied.
UPdClone(d) ==
    LET readonly == [k \in DOMAIN dirs[d] |->
                       IF k < kUPdeNum THEN [dirs[d][k] EXCEPT !.write = FALSE] ELSE dirs[d][k]]
    IN  dirs' = Append([dirs EXCEPT ![d] = readonly], readonly)

IsPtr(v) == v # NULL /\ v[1] = "pointer" /\ v[2] \in Words

\* The words on the way from list to the end, w[list] first.
Chain(w, list) ==
    LET next[n \in 0 .. PcbSize * kProcInitNum] ==
          IF n = 0 THEN list
          ELSE IF next[n - 1] # 0 /\ IsPtr(w[next[n - 1]]) THEN w[next[n - 1]][2] ELSE 0
    IN  next

\* AddSon: the last node from list on gets the son as its successor.
AddSon(w, son, list) ==
    LET c == Chain(w, list)
        last == CHOOSE n \in DOMAIN c : c[n] # 0 /\ (n + 1 \in DOMAIN c => c[n + 1] = 0)
    IN  [w EXCEPT ![c[last]] = Ptr(son)]

\* The walk of AddSon ends at a word that is NULL.
Ends(w, list) == \E n \in DOMAIN Chain(w, list) : Chain(w, list)[n] # 0 /\ w[Chain(w, list)[n]] = NULL

\* The words of new_pcb up to the call of UPdClone: ListRemove takes it off the
\* free list and clears its link, then its members are set.
Taken(w, p) ==
    [w EXCEPT ![free_proc_list] = w[p + node], ![p + node] = NULL, ![p + state] = <<"WAIT">>,
              ![p + thread_list] = Ptr(p + thread_list), ![p + page_dir] = Dir(Len(dirs) + 1)]

\* The words after AddSon: the rest of new_pcb is copied from the father, one
\* member after the other.
Copied(w, p, f) ==
    LET w1 == [w EXCEPT ![p + node] = NULL]
        w2 == [w1 EXCEPT ![p + code_addr] = w1[f + code_addr]]
        w3 == [w2 EXCEPT ![p + code_size] = w2[f + code_size]]
        w4 == [w3 EXCEPT ![p + data_addr] = w3[f + data_addr]]
    IN  [w4 EXCEPT ![p + data_size] = w4[f + data_size]]

\* CreateProc(f) when the head of the free list is a node of the pool, and the
\* father's page_dir and its list of sons are what they should be.
CreateProc(f) ==
    LET p == word[free_proc_list][2] - node
        w1 == Taken(word, p)
        w2 == [w1 EXCEPT ![p + father] = Ptr(f)]
    IN  /\ ~wild
        /\ IsPtr(word[free_proc_list]) /\ word[free_proc_list] # Ptr(free_proc_list)
        /\ IF w1[f + page_dir] \in {Dir(n) : n \in DOMAIN dirs} /\ Ends(w2, f + left)
             THEN /\ word' = Copied(AddSon(w2, p + right, f + left), p, f)
                  /\ UPdClone(w1[f + page_dir][2])
                  /\ made' = made \cup {p}
                  /\ UNCHANGED wild
             ELSE wild' = TRUE /\ UNCHANGED <<word, dirs, made>>

\* CreateProc with a free list that holds something else: IsListEmpty only
\* compares with the list itself.
CreateProcWild ==
    /\ ~wild
    /\ ~IsPtr(word[free_proc_list])
    /\ wild' = TRUE
    /\ UNCHANGED <<word, dirs, made>>

Next == CreateProcWild \/ \E f \in made \cup {k_pcb} : CreateProc(f)

Spec == Init /\ [][Next]_vars

-----------------------------------------------------------------------------
\* "Runtime constants. So after creating process, it never changes unless
\* calling 'exec'" (process.h:44): a step that creates a process leaves the
\* code and the data of the others as they are.
RuntimeConstants ==
    [][\A p \in made : \A m \in code_addr .. data_size : word'[p + m] = word[p + m]]_vars

=============================================================================
