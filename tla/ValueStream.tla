---------------------------- MODULE ValueStream ----------------------------
(* What a generator promises: the values of its body one by one, then the  *)
(* end or the exception of the body, and nothing after it.                  *)
EXTENDS Sequences, Naturals

CONSTANT Bodies  \* records [values, throws]: what a coroutine may yield

VARIABLES body, delivered, failed

streamVars == <<body, delivered, failed>>

Init == body \in Bodies /\ delivered = <<>> /\ failed = FALSE

\* The next value, while there is one.
Deliver ==
  /\ ~failed
  /\ Len(delivered) < Len(body.values)
  /\ delivered' = Append(delivered, body.values[Len(delivered) + 1])
  /\ UNCHANGED <<body, failed>>

\* The exception, after the last value.
Fail ==
  /\ ~failed /\ body.throws
  /\ Len(delivered) = Len(body.values)
  /\ failed' = TRUE
  /\ UNCHANGED <<body, delivered>>

Next == Deliver \/ Fail

Spec == Init /\ [][Next]_streamVars
=============================================================================
