----------------------------- MODULE BlockPool ------------------------------
(***************************************************************************)
(* What direct_mapping_allocator.h promises its callers: ReqBytes returns  *)
(* an area of the requested size that overlaps nothing reserved and no     *)
(* area still in use, or 0; RelBytes gives one area back.                  *)
(***************************************************************************)
EXTENDS Integers

CONSTANTS Sizes, Reserved, Area

VARIABLES held   \* the size requested at each address in use

Overlap(a, n, b, k) == a < b + k /\ b < a + n

Init == held = [a \in {} |-> 0]

Req(a, n) ==
    /\ a + n <= Area
    /\ \A b \in DOMAIN held : ~ Overlap(a, n, b, held[b])
    /\ held' = [b \in DOMAIN held \cup {a} |-> IF b = a THEN n ELSE held[b]]

Rel(a) == held' = [b \in DOMAIN held \ {a} |-> held[b]]

Next ==
    \/ \E a \in Reserved .. Area - 1, n \in Sizes : Req(a, n)
    \/ \E a \in DOMAIN held : Rel(a)

Spec == Init /\ [][Next]_held

=============================================================================
