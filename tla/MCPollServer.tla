---------------------------- MODULE MCPollServer ----------------------------
(* Instances of PollServer: more connections than descriptors, so that one   *)
(* is reused while events of its former owner may be pending, and           *)
(* connections wait while none is free.                                     *)
EXTENDS PollServer, TLC

CONSTANTS c1, c2, c3

MCConns == {c1, c2, c3}
MCTwoConns == {c1, c2}
MCFds == {5, 6}
MCOneFd == {5}
NoFaults == {}
SendFaults == {"send"}
OptionFaults == {"setsockopt"}
AllFaults == FaultKinds
Always1 == {1}
OneOrFail == {1, -1}
Symmetry == Permutations(Conns)
=============================================================================
