------------------------------ MODULE Notifier ------------------------------
(***************************************************************************)
(* taskflow/core/notifier.hpp: the event count that the executor's workers  *)
(* sleep on.  One word, _state, holds an epoch, the number of threads in    *)
(* pre-wait and the top of a stack of waiters.  Steps are single atomic     *)
(* operations, in a sequentially consistent order; a load and the           *)
(* compare-exchange after it are one step where nothing is read in between. *)
(* Locals that nothing reads again are reset.                               *)
(* npc[t] says where in a call of the notifier thread t is; the caller's    *)
(* module starts a call, and goes on when npc[t] is "out" again.            *)
(***************************************************************************)
EXTENDS Integers, FiniteSets

CONSTANTS
  Waiters,   \* threads that own a Waiter
  Callers,   \* threads that call notify: all of them
  EpochMod,  \* epochs are counted modulo this number: 2^32
  None       \* a null Waiter*, kStackMask

ASSUME NotifierAssumption ==
  /\ IsFiniteSet(Waiters) /\ Waiters \subseteq Callers /\ None \notin Callers
  /\ EpochMod \in Nat /\ EpochMod > 2 * Cardinality(Waiters)

VARIABLES
  _state,  \* [epoch, waiters, stack]
  next,    \* per waiter: Waiter::next
  epoch,   \* per waiter: the epoch that lets it pass, from the ticket of prepare_wait
  signal,  \* per waiter: Waiter::state
  npc,     \* per thread: "out" of the notifier, or its place in a call
  seen,    \* per thread: notify's local copy of _state
  hold,    \* per thread: wnext, then the waiter to wake next
  all,     \* per thread: the argument of notify
  times    \* per thread: calls of notify(false) that notify_n has yet to make

notifierVars == <<_state, next, epoch, signal, npc, seen, hold, all, times>>
waiting == <<next, epoch, signal>>
notifying == <<seen, hold, all, times>>

Nothing == [epoch |-> 0, waiters |-> 0, stack |-> None]

\* The epoch starts close to its overflow.
NotifierInit ==
  /\ _state = [Nothing EXCEPT !.epoch = (EpochMod - 1 - 2 * Cardinality(Waiters)) % EpochMod]
  /\ next = [w \in Waiters |-> None]
  /\ epoch = [w \in Waiters |-> 0]
  /\ signal = [w \in Waiters |-> "kNotSignaled"]
  /\ npc = [t \in Callers |-> "out"]
  /\ seen = [t \in Callers |-> Nothing]
  /\ hold = [t \in Callers |-> None]
  /\ all = [t \in Callers |-> FALSE]
  /\ times = [t \in Callers |-> 0]

NGoto(t, where) == npc' = [npc EXCEPT ![t] = where]

\* int64_t(a - b) of two epochs: negative, zero or positive.
Lag(a, b) == LET d == (a - b) % EpochMod IN IF 2 * d < EpochMod THEN d ELSE d - EpochMod

-----------------------------------------------------------------------------
\* fetch_add of a pre-waiter; the old value is the ticket.
PrepareWait(w) ==
  /\ epoch' = [epoch EXCEPT ![w] = (_state.epoch + _state.waiters) % EpochMod]
  /\ _state' = [_state EXCEPT !.waiters = @ + 1]
  /\ UNCHANGED <<next, signal, npc, notifying>>

\* The thread calls cancel_wait, or commit_wait, which clears its signal.
CancelWait(w) == NGoto(w, "cancel") /\ UNCHANGED <<_state, waiting, notifying>>
CommitWait(w) ==
  /\ NGoto(w, "commit") /\ signal' = [signal EXCEPT ![w] = "kNotSignaled"]
  /\ UNCHANGED <<_state, next, epoch, notifying>>

Forget(w) == epoch' = [epoch EXCEPT ![w] = 0]

Turn(w) == Lag(_state.epoch, epoch[w])

\* Already notified: the epoch has passed the ticket.
Notified(w) ==
  /\ npc[w] \in {"cancel", "commit"} /\ Turn(w) > 0
  /\ NGoto(w, "out") /\ Forget(w)
  /\ UNCHANGED <<_state, next, signal, notifying>>

LeavePrewait(s) == [s EXCEPT !.waiters = @ - 1, !.epoch = (@ + 1) % EpochMod]

CancelInTurn(w) ==
  /\ npc[w] = "cancel" /\ Turn(w) = 0
  /\ _state' = LeavePrewait(_state)
  /\ NGoto(w, "out") /\ Forget(w)
  /\ UNCHANGED <<next, signal, notifying>>

\* Faulty variant: whoever is first commits, out of the order of tickets.
CommitInTurn_AnyTurn(w) ==
  /\ npc[w] = "commit" /\ Turn(w) <= 0
  /\ next' = [next EXCEPT ![w] = _state.stack]
  /\ _state' = [LeavePrewait(_state) EXCEPT !.stack = w]
  /\ NGoto(w, "park") /\ Forget(w)
  /\ UNCHANGED <<signal, notifying>>

\* In the order of the tickets: leave pre-wait and push.
CommitInTurn(w) ==
  /\ npc[w] = "commit" /\ Turn(w) = 0
  /\ next' = [next EXCEPT ![w] = _state.stack]
  /\ _state' = [LeavePrewait(_state) EXCEPT !.stack = w]
  /\ NGoto(w, "park") /\ Forget(w)
  /\ UNCHANGED <<signal, notifying>>

\* _park: sleeps unless it has been signalled already.
Park(w) ==
  /\ npc[w] = "park"
  /\ \/ /\ signal[w] = "kNotSignaled"
        /\ signal' = [signal EXCEPT ![w] = "kWaiting"] /\ NGoto(w, "parked")
     \/ signal[w] = "kSignaled" /\ NGoto(w, "out") /\ UNCHANGED signal
  /\ UNCHANGED <<_state, next, epoch, notifying>>

Unparked(w) ==
  /\ npc[w] = "parked" /\ signal[w] # "kWaiting" /\ NGoto(w, "out")
  /\ UNCHANGED <<_state, waiting, notifying>>

-----------------------------------------------------------------------------
\* The thread calls notify(a), or notify_n(n).
Notify(t, a) ==
  /\ NGoto(t, "load") /\ all' = [all EXCEPT ![t] = a] /\ times' = [times EXCEPT ![t] = 0]
  /\ UNCHANGED <<_state, waiting, seen, hold>>

NotifyN(t, n) ==
  /\ NGoto(t, "load")
  /\ all' = [all EXCEPT ![t] = n >= Cardinality(Waiters)]
  /\ times' = [times EXCEPT ![t] = IF n >= Cardinality(Waiters) THEN 0 ELSE n - 1]
  /\ UNCHANGED <<_state, waiting, seen, hold>>

\* End of a notify; its locals are dead.
Leave(t) ==
  /\ NGoto(t, IF times[t] > 0 THEN "load" ELSE "out")
  /\ times' = [times EXCEPT ![t] = IF @ > 0 THEN @ - 1 ELSE 0]
  /\ all' = [all EXCEPT ![t] = FALSE]
  /\ seen' = [seen EXCEPT ![t] = Nothing] /\ hold' = [hold EXCEPT ![t] = None]

NobodyWaits(s) == s.stack = None /\ s.waiters = 0

\* state = _state.load(), and again after a compare-exchange that failed.
LoadNobody(t) ==
  /\ npc[t] = "load" /\ NobodyWaits(_state) /\ Leave(t)
  /\ UNCHANGED <<_state, waiting>>

\* To pop, the top waiter's next is read between the load and the exchange.
Load(t) ==
  /\ npc[t] = "load" /\ ~all[t] /\ _state.waiters = 0 /\ _state.stack # None
  /\ seen' = [seen EXCEPT ![t] = _state] /\ NGoto(t, "readNext")
  /\ UNCHANGED <<_state, waiting, hold, all, times>>

ReadNext(t) ==
  /\ npc[t] = "readNext"
  /\ hold' = [hold EXCEPT ![t] = next[seen[t].stack]]
  /\ NGoto(t, "exchange")
  /\ UNCHANGED <<_state, waiting, seen, all, times>>

Unchanged(t) == _state = seen[t]

ExchangeFails(t) ==
  /\ npc[t] = "exchange" /\ ~Unchanged(t) /\ NGoto(t, "load")
  /\ hold' = [hold EXCEPT ![t] = None] /\ seen' = [seen EXCEPT ![t] = Nothing]
  /\ UNCHANGED <<_state, waiting, all, times>>

\* Everyone in pre-wait is let pass and the whole stack is taken, ...
NotifyAll(t) ==
  /\ npc[t] = "load" /\ all[t] /\ ~NobodyWaits(_state)
  /\ _state' = [Nothing EXCEPT !.epoch = (_state.epoch + _state.waiters) % EpochMod]
  /\ \/ _state.stack = None /\ Leave(t)
     \/ /\ _state.stack # None
        /\ hold' = [hold EXCEPT ![t] = _state.stack] /\ NGoto(t, "unpark")
        /\ UNCHANGED <<seen, all, times>>
  /\ UNCHANGED waiting

\* ... or one in pre-wait is, ...
NotifyPrewait(t) ==
  /\ npc[t] = "load" /\ ~all[t] /\ _state.waiters > 0
  /\ _state' = LeavePrewait(_state)
  /\ Leave(t)
  /\ UNCHANGED waiting

\* ... or the top of the stack is popped.
NotifyPop(t) ==
  /\ npc[t] = "exchange" /\ Unchanged(t)
  /\ _state' = [seen[t] EXCEPT !.stack = hold[t]]
  /\ hold' = [hold EXCEPT ![t] = seen[t].stack]
  /\ NGoto(t, "detach")
  /\ UNCHANGED <<waiting, seen, all, times>>

\* Faulty variant: w->next is kept.
Detach_Skipped(t) ==
  /\ npc[t] = "detach"
  /\ NGoto(t, "unpark")
  /\ UNCHANGED <<_state, waiting, notifying>>

\* w->next = nullptr: only w is to be woken.
Detach(t) ==
  /\ npc[t] = "detach"
  /\ next' = [next EXCEPT ![hold[t]] = None]
  /\ NGoto(t, "unpark")
  /\ UNCHANGED <<_state, epoch, signal, notifying>>

\* _unpark, one waiter of the list: next is read first, since the waiter may
\* push itself again as soon as it is signalled.
Unpark(t) ==
  /\ npc[t] = "unpark"
  /\ signal' = [signal EXCEPT ![hold[t]] = "kSignaled"]
  /\ \/ next[hold[t]] = None /\ Leave(t)
     \/ /\ next[hold[t]] # None
        /\ hold' = [hold EXCEPT ![t] = next[hold[t]]]
        /\ UNCHANGED <<npc, seen, all, times>>
  /\ UNCHANGED <<_state, next, epoch>>

\* A step of thread t inside the notifier.
NotifierStep(t) ==
  \/ /\ t \in Waiters
     /\ Notified(t) \/ CancelInTurn(t) \/ CommitInTurn(t) \/ Park(t) \/ Unparked(t)
  \/ LoadNobody(t) \/ Load(t) \/ ReadNext(t) \/ ExchangeFails(t) \/ NotifyAll(t)
  \/ NotifyPrewait(t) \/ NotifyPop(t) \/ Detach(t) \/ Unpark(t)

-----------------------------------------------------------------------------
\* The waiters linked from w: what every set that has w and is closed under
\* next contains.
Closed(S) == \A v \in S : next[v] \in S \cup {None}
Linked(w) ==
  {v \in Waiters : w # None /\ \A S \in SUBSET Waiters : w \in S /\ Closed(S) => v \in S}
Asleep == {w \in Waiters : npc[w] \in {"park", "parked"} /\ signal[w] # "kSignaled"}
Held(t) == IF npc[t] = "unpark" THEN Linked(hold[t]) ELSE {hold[t]}

(* Every thread that has committed to sleep is either linked from _state or *)
(* in the hands of one notifier, never lost and never in two lists: the     *)
(* stack has no ABA problem (lines 184-214 and the comment of 198-201).     *)
SleepersHeld ==
  LET wakers == {t \in Callers : npc[t] \in {"detach", "unpark"}}
  IN  /\ Linked(_state.stack) \cup UNION {Held(t) : t \in wakers} = Asleep
      /\ \A t \in wakers : Linked(_state.stack) \cap Held(t) = {}
      /\ \A s, t \in wakers : s # t => Held(s) \cap Held(t) = {}
=============================================================================
