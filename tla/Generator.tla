------------------------------ MODULE Generator ------------------------------
(***************************************************************************)
(* Socket/Generator.hpp: a coroutine frame behind a handle, the promise's  *)
(* value_ and exception_, and the full_ cache of the Generator objects      *)
(* that share the handle.  Generator has a destructor and no copy           *)
(* constructor of its own, so a copy shares the handle.  Habits are what    *)
(* the caller does besides "while (gen) use(gen())".                        *)
(***************************************************************************)
EXTENDS Naturals, Sequences

CONSTANTS
  Uses,     \* records [body, habits]; a body is a record [values, range, throws]:
            \* what the coroutine yields, of which values, and how it ends
  Objects,  \* Generator objects
  First,    \* the one the coroutine call returns
  Indeterminate \* value_ before the first yield

ASSUME UsesAssumption ==
  \A u \in Uses : /\ u.body.values \in Seq(u.body.range) /\ u.body.throws \in BOOLEAN
                   /\ Indeterminate \notin u.body.range
                   /\ u.habits \subseteq {"blind", "catches", "copies"}
ASSUME FirstAssumption == First \in Objects

VARIABLES
  habits,     \* the caller's
  body,       \* the coroutine
  pos,        \* co_yields it has executed
  frame,      \* "suspended", "final" (done() is true) or "destroyed"
  value_,     \* promise: last value yielded
  exception_, \* promise: an exception was stored
  full_,      \* per object: the value of fill() is still cached
  alive,      \* objects whose destructor has not run
  said,       \* per object: result of its last operator bool, or "nothing"
  delivered,  \* history: values returned by operator()
  failed,     \* history: the exception reached the caller
  broken      \* history: a finished or destroyed frame was resumed or destroyed

vars == <<habits, body, pos, frame, value_, exception_, full_, alive, said, delivered, failed, broken>>
promise == <<habits, body, pos, frame, value_, exception_>>

Init ==
  /\ \E u \in Uses : habits = u.habits /\ body = u.body
  /\ pos = 0 /\ frame = "suspended"
  /\ value_ = Indeterminate /\ exception_ = FALSE
  /\ full_ = [o \in Objects |-> FALSE]
  /\ alive = {First}
  /\ said = [o \in Objects |-> "nothing"]
  /\ delivered = <<>> /\ failed = FALSE /\ broken = FALSE

-----------------------------------------------------------------------------
\* h_(): runs to the next co_yield or off the end, where final_suspend
\* stops, after unhandled_exception if the body throws.
Resume ==
  /\ frame = "suspended"
  /\ UNCHANGED <<habits, body>>
  /\ \/ /\ pos < Len(body.values)
        /\ pos' = pos + 1 /\ value_' = body.values[pos + 1]
        /\ UNCHANGED <<frame, exception_>>
     \/ /\ pos = Len(body.values)
        /\ frame' = "final" /\ exception_' = body.throws
        /\ UNCHANGED <<pos, value_>>

\* The caller stops at an exception unless it catches and goes on.
MayCall(o) ==
  /\ o \in alive /\ ~broken
  /\ failed => "catches" \in habits

\* fill() finds a value, or resumes the coroutine and gets one or its end.
FillCached(o) == full_[o] /\ UNCHANGED promise
FillResumed(o) == ~full_[o] /\ Resume /\ ~exception_'

\* fill() rethrows: full_ stays FALSE.
Throws(o) ==
  /\ MayCall(o)
  /\ ~full_[o] /\ Resume /\ exception_'
  /\ failed' = TRUE
  /\ UNCHANGED <<full_, alive, said, delivered, broken>>

\* fill() resumes a coroutine that is done or whose frame is gone: undefined.
Breaks(o) ==
  /\ MayCall(o)
  /\ ~full_[o] /\ frame # "suspended"
  /\ broken' = TRUE
  /\ UNCHANGED <<promise, full_, alive, said, delivered, failed>>

\* Faulty variant: bool does not set full_, so it resumes each time.
Bool_NotCached(o) ==
  /\ MayCall(o) /\ (FillCached(o) \/ FillResumed(o))
  /\ said' = [said EXCEPT ![o] = IF frame' = "final" THEN "FALSE" ELSE "TRUE"]
  /\ UNCHANGED <<full_, alive, delivered, failed, broken>>

\* operator bool
Bool(o) ==
  /\ MayCall(o) /\ (FillCached(o) \/ FillResumed(o))
  /\ full_' = [full_ EXCEPT ![o] = TRUE]
  /\ said' = [said EXCEPT ![o] = IF frame' = "final" THEN "FALSE" ELSE "TRUE"]
  /\ UNCHANGED <<alive, delivered, failed, broken>>

\* Faulty variant: the cache is left full.
Get_KeepsFull(o) ==
  /\ MayCall(o) /\ ("blind" \in habits \/ said[o] = "TRUE")
  /\ FillCached(o) \/ FillResumed(o)
  /\ full_' = [full_ EXCEPT ![o] = TRUE]
  /\ said' = [said EXCEPT ![o] = "nothing"]
  /\ delivered' = Append(delivered, value_')
  /\ UNCHANGED <<alive, failed, broken>>

\* operator(): the value is moved out; for the numbers in use it stays.
Get(o) ==
  /\ MayCall(o) /\ ("blind" \in habits \/ said[o] = "TRUE")
  /\ FillCached(o) \/ FillResumed(o)
  /\ full_' = [full_ EXCEPT ![o] = FALSE]
  /\ said' = [said EXCEPT ![o] = "nothing"]
  /\ delivered' = Append(delivered, value_')
  /\ UNCHANGED <<alive, failed, broken>>

\* The implicit copy constructor copies h_ and full_.
Copy(o, p) ==
  /\ "copies" \in habits /\ ~broken
  /\ o \in alive /\ p \notin alive
  /\ alive' = alive \cup {p}
  /\ full_' = [full_ EXCEPT ![p] = full_[o]]
  /\ said' = [said EXCEPT ![p] = said[o]]
  /\ UNCHANGED <<promise, delivered, failed, broken>>

\* ~Generator destroys the frame, whoever else holds the handle.
Destroy(o) ==
  /\ o \in alive /\ ~broken
  /\ alive' = alive \ {o}
  /\ frame' = "destroyed"
  /\ broken' = (frame = "destroyed")
  /\ UNCHANGED <<habits, body, pos, value_, exception_, full_, said, delivered, failed>>

Next ==
  \/ \E o \in Objects : Throws(o) \/ Breaks(o) \/ Bool(o) \/ Get(o) \/ Destroy(o)
  \/ \E o, p \in Objects : Copy(o, p)

Spec == Init /\ [][Next]_vars

-----------------------------------------------------------------------------
Bodies == {u.body : u \in Uses}
Careful == habits = {}

\* A caller that asks before it gets, stops at an exception and makes no
\* copies never resumes or destroys a coroutine that has ended
\* (Generator.hpp 43-72).
NeverBroken == Careful => ~broken

\* To such a caller the generator is a stream: nothing is skipped, repeated or
\* invented, and an exception comes after the last value (52-72).  Nothing is
\* promised to others.
Stream == INSTANCE ValueStream WITH
  delivered <- IF Careful THEN delivered ELSE <<>>,
  failed <- Careful /\ failed
ImplementsStream == Stream!Spec
=============================================================================
