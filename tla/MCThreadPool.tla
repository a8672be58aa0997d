---------------------------- MODULE MCThreadPool ----------------------------
(* Instances of ThreadPool: two clients submit three tasks, and one of     *)
(* these submits another when it runs, possibly while the pool is destroyed.*)
EXTENDS ThreadPool

CONSTANTS w1, w2, w3, p1, p2, t1, t2, t3, t4

MCWorkers == {w1, w2, w3}
MCClients == {p1, p2}
MCTasks == {t1, t2, t3, t4}
MCCalls == [x \in MCClients \cup MCTasks |-> CASE x = p1 -> {t1}
                                               [] x = p2 -> {t2, t4}
                                               [] x = t1 -> {t3}
                                               [] OTHER  -> {}]
=============================================================================
