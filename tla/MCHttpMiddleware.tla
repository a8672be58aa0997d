-------------------------- MODULE MCHttpMiddleware --------------------------
(* Three connections on two descriptors: numbers are reused and accept()   *)
(* may find none free.                                                     *)
EXTENDS HttpMiddleware

CONSTANTS c1, c2, c3, f1, f2

MCConns == {c1, c2, c3}
MCFds == {f1, f2}
=============================================================================
