----------------------------- MODULE MCLlamaPool -----------------------------
(* Small instances of LlamaPool for TLC.                                   *)
EXTENDS LlamaPool

CONSTANTS m0, m1, m2

(* Requests differ by what they ask for only: one order of them stands for *)
(* all (a symmetry that liveness checking allows).                         *)
Rank(t) == (CASE job[t] = "chat" -> 0 [] job[t] = "load" -> 4 [] OTHER -> 8)
             + (CASE want[t] = m0 -> 0 [] want[t] = m1 -> 1 [] want[t] = m2 -> 2 [] OTHER -> 3)
Sorted == \A t, u \in Task : t < u => Rank(t) <= Rank(u)

MCInit == Init /\ Sorted

MCSpec == MCInit /\ [][Next]_vars /\ Fairness
=============================================================================
