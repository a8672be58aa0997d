----------------------------- MODULE WorkQueue -----------------------------
(***************************************************************************)
(* What a work-stealing queue promises: its owner adds at one end and takes *)
(* the newest task of the best priority from there, anyone else takes the   *)
(* oldest task of a priority, and every task goes to one of them.           *)
(***************************************************************************)
EXTENDS Integers, Sequences, SequencesExt

CONSTANTS
  Owner, Thieves,  \* threads
  Items,           \* tasks, each pushed at most once
  MaxPriority,     \* priorities are 0 .. MaxPriority - 1, 0 the best
  PriorityOf       \* [Items -> priorities]

VARIABLES
  deque,  \* per priority: its tasks, the oldest first
  taken   \* per thread: the tasks it has taken

workVars == <<deque, taken>>
Levels == 0 .. MaxPriority - 1

WorkInit == deque = [p \in Levels |-> <<>>] /\ taken = [w \in Thieves \cup {Owner} |-> {}]

Takes(w, x) == taken' = [taken EXCEPT ![w] = @ \cup {x}]

Add(x) ==
  /\ \A p \in Levels : x \notin ToSet(deque[p])
  /\ \A w \in DOMAIN taken : x \notin taken[w]
  /\ deque' = [deque EXCEPT ![PriorityOf[x]] = Append(@, x)]
  /\ UNCHANGED taken

TakeNewest(p) ==
  /\ deque[p] # <<>> /\ \A q \in Levels : q < p => deque[q] = <<>>
  /\ Takes(Owner, Last(deque[p]))
  /\ deque' = [deque EXCEPT ![p] = Front(@)]

\* Not of the best priority, as that may have grown after it was looked at.
TakeOldest(w, p) ==
  /\ deque[p] # <<>>
  /\ Takes(w, Head(deque[p]))
  /\ deque' = [deque EXCEPT ![p] = Tail(@)]

WorkNext ==
  \/ \E x \in Items : Add(x)
  \/ \E p \in Levels : TakeNewest(p) \/ \E w \in Thieves : TakeOldest(w, p)

WorkSpec == WorkInit /\ [][WorkNext]_workVars
=============================================================================
