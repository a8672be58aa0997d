------------------------------ MODULE TaskPool ------------------------------
(***************************************************************************)
(* What a thread pool promises: tasks start in the order in which they were *)
(* submitted, each runs exactly once, at most Capacity at a time, and the   *)
(* pool is gone only when everything submitted has run.                     *)
(***************************************************************************)
EXTENDS Naturals, Sequences, FiniteSets

CONSTANTS Tasks,     \* tasks that may be submitted, each at most once
          Capacity   \* how many run at a time

VARIABLES queue,     \* submitted, not started
          running,   \* started, not finished
          ran,       \* finished
          gone       \* the pool has been destroyed

vars == <<queue, running, ran, gone>>

Init == queue = <<>> /\ running = {} /\ ran = {} /\ gone = FALSE

Queued == {queue[i] : i \in DOMAIN queue}

Submit(t) ==
  /\ ~gone
  /\ t \notin Queued \cup running \cup ran
  /\ queue' = Append(queue, t)
  /\ UNCHANGED <<running, ran, gone>>

Start ==
  /\ queue # <<>>
  /\ Cardinality(running) < Capacity
  /\ queue' = Tail(queue)
  /\ running' = running \cup {Head(queue)}
  /\ UNCHANGED <<ran, gone>>

Finish(t) ==
  /\ t \in running
  /\ running' = running \ {t}
  /\ ran' = ran \cup {t}
  /\ UNCHANGED <<queue, gone>>

Destroy ==
  /\ queue = <<>> /\ running = {}
  /\ gone' = TRUE
  /\ UNCHANGED <<queue, running, ran>>

Next == Start \/ Destroy \/ \E t \in Tasks : Submit(t) \/ Finish(t)

Spec == Init /\ [][Next]_vars

FairSpec == Spec /\ WF_vars(Start) /\ \A t \in Tasks : WF_vars(Finish(t))
=============================================================================
