----------------------------- MODULE TaskQueue -----------------------------
(***************************************************************************)
(* taskflow/core/tsq.hpp: the queue of a worker, which pushes and pops at   *)
(* the bottom while thieves steal at the top and ask whether it is empty.   *)
(* One step per load, store or exchange that another thread can tell, in    *)
(* one order for all of them; what only the owner writes it reads with the  *)
(* step that needs it.                                                      *)
(***************************************************************************)
EXTENDS Integers, Sequences, SequencesExt

CONSTANTS
  Owner, Thieves,  \* threads
  Items,           \* tasks, each pushed at most once
  MaxPriority,     \* TF_MAX_PRIORITY
  PriorityOf,      \* the priority each is pushed with
  Capacity,        \* argument of the constructor, a power of two
  Null             \* nullptr

Threads == Thieves \cup {Owner}
Levels == 0 .. MaxPriority - 1

ASSUME ThreadsAssumption == Owner \notin Thieves
ASSUME ItemsAssumption == Null \notin Items
ASSUME LevelsAssumption == MaxPriority \in Nat \ {0} /\ PriorityOf \in [Items -> Levels]
ASSUME CapacityAssumption == Capacity \in Nat \ {0}

VARIABLES
  _top, _bottom,  \* per priority
  arrays,   \* per priority: the arrays made so far, records [C, S]; the last
            \* one is _array, the others are _garbage
  pc,       \* per thread
  level,    \* per thread: the priority its call has reached
  t_, b_,   \* per thread: what it loaded of _top and _bottom
  a_,       \* per thread: which of the arrays it loaded
  item,     \* per thread: the task it pushes or hopes to take
  pushed,   \* history: tasks whose push has begun
  taken,    \* history: per thread, the tasks its calls have returned
  refused,  \* history: the owner's last call is a pop that returned nullptr
  before    \* history: per thread, the tasks there when its empty() began

shared == <<_top, _bottom, arrays>>
locals == <<pc, level, t_, b_, a_, item>>
history == <<pushed, taken, refused, before>>
vars == <<shared, locals, history>>

EmptyArray(c) == [C |-> c, S |-> [i \in 0 .. c - 1 |-> Null]]
_array(p) == Last(arrays[p])
\* S[i & M], M being C - 1.
Slot(arr, i) == arr.S[i % arr.C]

Init ==
  /\ _top = [p \in Levels |-> 0] /\ _bottom = [p \in Levels |-> 0]
  /\ arrays = [p \in Levels |-> <<EmptyArray(Capacity)>>]
  /\ pc = [w \in Threads |-> "idle"] /\ level = [w \in Threads |-> 0]
  /\ t_ = [w \in Threads |-> 0] /\ b_ = [w \in Threads |-> 0]
  /\ a_ = [w \in Threads |-> 1] /\ item = [w \in Threads |-> Null]
  /\ pushed = {} /\ taken = [w \in Threads |-> {}] /\ refused = FALSE
  /\ before = [w \in Threads |-> {}]

Goto(w, place) == pc' = [pc EXCEPT ![w] = place]

\* A call returns, and its locals are gone.
Return(w) ==
  /\ Goto(w, "idle") /\ level' = [level EXCEPT ![w] = 0]
  /\ t_' = [t_ EXCEPT ![w] = 0] /\ b_' = [b_ EXCEPT ![w] = 0]
  /\ a_' = [a_ EXCEPT ![w] = 1] /\ item' = [item EXCEPT ![w] = Null]

\* The next priority, at place, or the end of the loop over priorities.
NextLevel(w, place) ==
  \/ level[w] + 1 \notin Levels /\ Return(w)
  \/ /\ level[w] + 1 \in Levels /\ level' = [level EXCEPT ![w] = @ + 1] /\ Goto(w, place)
     /\ t_' = [t_ EXCEPT ![w] = 0] /\ b_' = [b_ EXCEPT ![w] = 0]
     /\ a_' = [a_ EXCEPT ![w] = 1] /\ item' = [item EXCEPT ![w] = Null]

Takes(w, x) == taken' = [taken EXCEPT ![w] = @ \cup {x}]

\* What the queue holds: up to _bottom as it is outside of a pop, for a thief
\* may still take the task that a pop has laid its hand on.
End(p) ==
  IF pc[Owner] \in {"popTop", "popExchange", "restore"} /\ level[Owner] = p
  THEN _bottom[p] + 1 ELSE _bottom[p]
Content(p) == [i \in 1 .. End(p) - _top[p] |-> Slot(_array(p), _top[p] + i - 1)]
Contents == UNION {ToSet(Content(p)) : p \in Levels}

-----------------------------------------------------------------------------
\* Faulty variant: one task too many fits.
PushFull_Late(p) == _array(p).C < _bottom[p] - _top[p]

\* push(x, p), by the owner.
PushFull(p) == _array(p).C - 1 < _bottom[p] - _top[p]

Push(x) ==
  /\ pc[Owner] = "idle" /\ x \in Items \ pushed
  /\ pushed' = pushed \cup {x} /\ refused' = FALSE
  /\ item' = [item EXCEPT ![Owner] = x]
  /\ LET p == PriorityOf[x]
     IN  /\ level' = [level EXCEPT ![Owner] = p]
         /\ b_' = [b_ EXCEPT ![Owner] = _bottom[p]]
         /\ t_' = [t_ EXCEPT ![Owner] = _top[p]]
         /\ Goto(Owner, IF PushFull(p) THEN "grow" ELSE "store")
  /\ UNCHANGED <<shared, a_, taken, before>>

\* resize_array: twice the room, the tasks from t on at their new places.
Grow ==
  /\ pc[Owner] = "grow" /\ Goto(Owner, "store")
  /\ LET p == level[Owner]
         old == _array(p)
         Copied(k) == {i \in t_[Owner] .. b_[Owner] - 1 : i % (2 * old.C) = k}
         new == [C |-> 2 * old.C,
                 S |-> [k \in 0 .. 2 * old.C - 1 |->
                          IF Copied(k) = {} THEN Null ELSE Slot(old, CHOOSE i \in Copied(k) : TRUE)]]
     IN  arrays' = [arrays EXCEPT ![p] = Append(@, new)]
  /\ UNCHANGED <<_top, _bottom, level, t_, b_, a_, item, history>>

Store ==
  /\ pc[Owner] = "store" /\ Goto(Owner, "publish")
  /\ LET p == level[Owner]
         k == b_[Owner] % _array(p).C
     IN  arrays' = [arrays EXCEPT ![p][Len(arrays[p])].S[k] = item[Owner]]
  /\ UNCHANGED <<_top, _bottom, level, t_, b_, a_, item, history>>

Publish ==
  /\ pc[Owner] = "publish"
  /\ _bottom' = [_bottom EXCEPT ![level[Owner]] = b_[Owner] + 1]
  /\ Return(Owner)
  /\ UNCHANGED <<_top, arrays, history>>

-----------------------------------------------------------------------------
\* pop(), by the owner: pop(0), pop(1), ... until one returns a task.
PopBottom ==
  /\ pc[Owner] \in {"idle", "pop"} /\ Goto(Owner, "popTop")
  /\ refused' = FALSE
  /\ LET p == level[Owner]
     IN  /\ _bottom' = [_bottom EXCEPT ![p] = @ - 1]
         /\ b_' = [b_ EXCEPT ![Owner] = _bottom[p] - 1]
  /\ UNCHANGED <<_top, arrays, level, t_, a_, item, pushed, taken, before>>

\* Faulty variant: the last task is left to thieves.
PopTop_NotTheLast ==
  /\ pc[Owner] = "popTop"
  /\ LET p == level[Owner]
     IN  \/ /\ _top[p] < b_[Owner]
            /\ Takes(Owner, Slot(_array(p), b_[Owner])) /\ Return(Owner)
         \/ /\ _top[p] >= b_[Owner]
            /\ Goto(Owner, "restore") /\ UNCHANGED <<level, t_, b_, a_, item, taken>>
  /\ UNCHANGED <<shared, pushed, refused, before>>

\* More than one task is left: the newest is the owner's.
PopTop ==
  /\ pc[Owner] = "popTop"
  /\ LET p == level[Owner]
         x == Slot(_array(p), b_[Owner])
     IN  \/ /\ _top[p] < b_[Owner]
            /\ Takes(Owner, x) /\ Return(Owner)
         \/ /\ _top[p] = b_[Owner]
            /\ item' = [item EXCEPT ![Owner] = x] /\ t_' = [t_ EXCEPT ![Owner] = _top[p]]
            /\ Goto(Owner, "popExchange") /\ UNCHANGED <<level, b_, a_, taken>>
         \/ /\ _top[p] > b_[Owner]
            /\ Goto(Owner, "restore") /\ UNCHANGED <<level, t_, b_, a_, item, taken>>
  /\ UNCHANGED <<shared, pushed, refused, before>>

\* The last task goes to whoever moves _top.
PopExchange ==
  /\ pc[Owner] = "popExchange" /\ Goto(Owner, "restore")
  /\ LET p == level[Owner]
     IN  \/ /\ _top[p] = t_[Owner]
            /\ _top' = [_top EXCEPT ![p] = @ + 1]
            /\ Takes(Owner, item[Owner]) /\ UNCHANGED item
         \/ /\ _top[p] # t_[Owner]
            /\ item' = [item EXCEPT ![Owner] = Null] /\ UNCHANGED <<_top, taken>>
  /\ UNCHANGED <<_bottom, arrays, level, t_, b_, a_, pushed, refused, before>>

Restore ==
  /\ pc[Owner] = "restore"
  /\ _bottom' = [_bottom EXCEPT ![level[Owner]] = b_[Owner] + 1]
  /\ \/ item[Owner] # Null /\ Return(Owner) /\ UNCHANGED refused
     \/ /\ item[Owner] = Null /\ NextLevel(Owner, "pop")
        /\ refused' = (level[Owner] + 1 \notin Levels)
  /\ UNCHANGED <<_top, arrays, pushed, taken, before>>

-----------------------------------------------------------------------------
\* steal(), by a thief: steal(0), steal(1), ... until one returns a task.
StealTop(w) ==
  /\ pc[w] \in {"idle", "steal"} /\ Goto(w, "stealBottom")
  /\ t_' = [t_ EXCEPT ![w] = _top[level[w]]]
  /\ UNCHANGED <<shared, level, b_, a_, item, history>>

StealBottom(w) ==
  /\ pc[w] = "stealBottom"
  /\ \/ /\ t_[w] < _bottom[level[w]]
        /\ Goto(w, "stealArray") /\ UNCHANGED <<level, t_, b_, a_, item>>
     \/ t_[w] >= _bottom[level[w]] /\ NextLevel(w, "steal")
  /\ UNCHANGED <<shared, history>>

StealArray(w) ==
  /\ pc[w] = "stealArray" /\ Goto(w, "stealItem")
  /\ a_' = [a_ EXCEPT ![w] = Len(arrays[level[w]])]
  /\ UNCHANGED <<shared, level, t_, b_, item, history>>

\* From an array that may have been replaced in the meantime.
StealItem(w) ==
  /\ pc[w] = "stealItem" /\ Goto(w, "stealExchange")
  /\ item' = [item EXCEPT ![w] = Slot(arrays[level[w]][a_[w]], t_[w])]
  /\ UNCHANGED <<shared, level, t_, b_, a_, history>>

StealExchange(w) ==
  /\ pc[w] = "stealExchange"
  /\ LET p == level[w]
     IN  \/ /\ _top[p] = t_[w]
            /\ _top' = [_top EXCEPT ![p] = @ + 1]
            /\ Takes(w, item[w]) /\ Return(w)
         \/ _top[p] # t_[w] /\ NextLevel(w, "steal") /\ UNCHANGED <<_top, taken>>
  /\ UNCHANGED <<_bottom, arrays, pushed, refused, before>>

-----------------------------------------------------------------------------
\* empty(), by a thief.
EmptyBottom(w) ==
  /\ pc[w] \in {"idle", "empty"} /\ Goto(w, "emptyTop")
  /\ b_' = [b_ EXCEPT ![w] = _bottom[level[w]]]
  /\ before' = IF pc[w] = "idle" THEN [before EXCEPT ![w] = Contents] ELSE before
  /\ UNCHANGED <<shared, level, t_, a_, item, pushed, taken, refused>>

\* Faulty variant: one task is as good as none.
EmptyTop_Almost(w) ==
  /\ pc[w] = "emptyTop"
  /\ IF b_[w] > _top[level[w]] + 1
     THEN Return(w) /\ before' = [before EXCEPT ![w] = {}]
     ELSE IF level[w] + 1 \in Levels
     THEN NextLevel(w, "empty") /\ UNCHANGED before
     ELSE Goto(w, "wasEmpty") /\ UNCHANGED <<level, t_, b_, a_, item, before>>
  /\ UNCHANGED <<shared, pushed, taken, refused>>

\* TRUE after the last priority, and said so; FALSE is forgotten.
EmptyTop(w) ==
  /\ pc[w] = "emptyTop"
  /\ IF b_[w] > _top[level[w]]
     THEN Return(w) /\ before' = [before EXCEPT ![w] = {}]
     ELSE IF level[w] + 1 \in Levels
     THEN NextLevel(w, "empty") /\ UNCHANGED before
     ELSE Goto(w, "wasEmpty") /\ UNCHANGED <<level, t_, b_, a_, item, before>>
  /\ UNCHANGED <<shared, pushed, taken, refused>>

WasEmpty(w) ==
  /\ pc[w] = "wasEmpty" /\ Return(w) /\ before' = [before EXCEPT ![w] = {}]
  /\ UNCHANGED <<shared, pushed, taken, refused>>

-----------------------------------------------------------------------------
Own == (\E x \in Items : Push(x)) \/ Grow \/ Store \/ Publish
         \/ PopBottom \/ PopTop \/ PopExchange \/ Restore
Thief(w) == StealTop(w) \/ StealBottom(w) \/ StealArray(w) \/ StealItem(w) \/ StealExchange(w)
         \/ EmptyBottom(w) \/ EmptyTop(w) \/ WasEmpty(w)

Next == Own \/ \E w \in Thieves : Thief(w)
Spec == Init /\ [][Next]_vars

-----------------------------------------------------------------------------
(* The queue and the threads share the tasks: to the callers, the loads and *)
(* exchanges of tsq.hpp 317-409 add up to a deque on which every operation  *)
(* is one step.                                                             *)
Deque == [p \in Levels |-> Content(p)]
Abstract == INSTANCE WorkQueue WITH deque <- Deque
ImplementsWorkQueue == Abstract!WorkSpec

(* pop() returns nullptr only from an empty queue ("if this operation       *)
(* failed (empty queue)", 223 and 233).                                     *)
NullOnlyWhenEmpty == refused => Contents = {}

(* empty() never overlooks a task that was there when it began, unless it   *)
(* is taken in the meantime or in the owner's hand: what the second look of *)
(* executor.hpp 1341-1362 relies on.                                        *)
InHand ==
  {Slot(_array(p), _bottom[p]) : p \in {q \in Levels : pc[Owner] \in {"popTop", "popExchange"} /\ level[Owner] = q}}
EmptyOverlooksNone ==
  \A w \in Thieves : pc[w] = "wasEmpty" => before[w] \cap Contents \subseteq InHand
=============================================================================
