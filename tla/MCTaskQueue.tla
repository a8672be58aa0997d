---------------------------- MODULE MCTaskQueue ----------------------------
(* Three tasks, one of them urgent, for an owner and two thieves; the      *)
(* first array has room for one, so that the second task replaces it.      *)
EXTENDS TaskQueue, TLC

CONSTANTS thief1, thief2, i1, i2, urgent

MCThieves == {thief1, thief2}
MCItems == {i1, i2, urgent}
MCPriorityOf == [i \in MCItems |-> IF i = urgent THEN 0 ELSE 1]
MCSymmetry == Permutations(MCThieves) \cup Permutations({i1, i2})
=============================================================================
