----------------------------- MODULE MCExecutor -----------------------------
(* Two workers; a task with two successors, so that one is cached and one   *)
(* queued; epochs wrap, since they start next to their end.                 *)
EXTENDS Executor, TLC

CONSTANTS a, b, c

TwoWorkers == {1, 2}
MCCallers == {1, 2, Owner}
Fork == (a :> <<b, c>>) @@ (b :> <<>>) @@ (c :> <<>>)
MCNodes == {a, b, c}
OnceTwice == <<1, 2>>
=============================================================================
