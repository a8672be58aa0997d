----------------------------- MODULE ConnService -----------------------------
(***************************************************************************)
(* What the shipped server promises to peers that do not reset: connections *)
(* are admitted while there is room, what a peer asks is answered, and a    *)
(* connection is released only after its peer has hung up and everything it *)
(* asked before has been answered.  PollServer is shown to implement it.    *)
(***************************************************************************)
EXTENDS Naturals, FiniteSets

CONSTANTS Conns,    \* connections
          Capacity  \* how many can be served at a time

VARIABLES phase,    \* life of a connection
          hungUp,   \* whether its peer will send no more
          pending,  \* chunks sent and not answered
          answered  \* responses

vars == <<phase, hungUp, pending, answered>>

Init ==
  /\ phase = [c \in Conns |-> "new"]
  /\ hungUp = [c \in Conns |-> FALSE]
  /\ pending = [c \in Conns |-> 0]
  /\ answered = [c \in Conns |-> 0]

Served == {c \in Conns : phase[c] = "served"}
Attached(c) == phase[c] \in {"waiting", "served"} /\ ~hungUp[c]

Arrive(c) ==
  /\ phase[c] = "new"
  /\ phase' = [phase EXCEPT ![c] = "waiting"]
  /\ UNCHANGED <<hungUp, pending, answered>>

Ask(c) ==
  /\ Attached(c)
  /\ pending' = [pending EXCEPT ![c] = @ + 1]
  /\ UNCHANGED <<phase, hungUp, answered>>

HangUp(c) ==
  /\ Attached(c)
  /\ hungUp' = [hungUp EXCEPT ![c] = TRUE]
  /\ UNCHANGED <<phase, pending, answered>>

Admit(c) ==
  /\ phase[c] = "waiting"
  /\ Cardinality(Served) < Capacity
  /\ phase' = [phase EXCEPT ![c] = "served"]
  /\ UNCHANGED <<hungUp, pending, answered>>

\* One response answers every chunk that was received with it.
Answer(c) ==
  /\ phase[c] = "served"
  /\ \E n \in 1..pending[c] : pending' = [pending EXCEPT ![c] = @ - n]
  /\ answered' = [answered EXCEPT ![c] = @ + 1]
  /\ UNCHANGED <<phase, hungUp>>

Release(c) ==
  /\ phase[c] = "served" /\ hungUp[c] /\ pending[c] = 0
  /\ phase' = [phase EXCEPT ![c] = "released"]
  /\ UNCHANGED <<hungUp, pending, answered>>

Next == \E c \in Conns : \/ Arrive(c) \/ Ask(c) \/ HangUp(c)
                         \/ Admit(c) \/ Answer(c) \/ Release(c)

Spec == Init /\ [][Next]_vars

Fairness == /\ WF_vars(\E c \in Conns : Admit(c))
            /\ \A c \in Conns : WF_vars(Answer(c)) /\ WF_vars(Release(c))

FairSpec == Spec /\ Fairness
=============================================================================
