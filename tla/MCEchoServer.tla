---------------------------- MODULE MCEchoServer ----------------------------
(* Three connections on two descriptors: numbers are reused.                *)
EXTENDS EchoServer

CONSTANTS c1, c2, c3, f1, f2

MCConns == {c1, c2, c3}
MCFds == {f1, f2}
=============================================================================
