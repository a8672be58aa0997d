--------------------------- MODULE MCKqueueServer ---------------------------
(* Model values for KqueueServer; objects are named by their connection.    *)
(* The constructor takes two arrivals, so of five connections three reach   *)
(* the loop: two on two descriptors, and one when none is left; or two that *)
(* are taken for descriptor 0, and another between them.                    *)
EXTENDS KqueueServer, TLC

CONSTANTS c1, c2, c3, c4, c5

MCConns == {c1, c2, c3, c4, c5}
MCFds == {4, 5}
\* Bounds on the connections waiting to be accepted, and on the peers that
\* hang up; handlers may close the other clients.
Backlog == Len(acceptQ) <= 3
HangUps == Cardinality({c \in Conns : peer[c] \notin {"new", "up"}}) <= 1

Symmetry == Permutations(MCConns)
=============================================================================
