-------------------------- MODULE ThreadPoolProofs --------------------------
(***************************************************************************)
(* Proofs about ThreadPool, for any number of workers, clients and tasks.   *)
(***************************************************************************)
EXTENDS ThreadPool, FiniteSetTheorems, TLAPS

\* Whoever is inside a critical section holds the mutex.
MutexInv ==
  \A th \in Threads : pc[th] \in {"check", "push", "stop"} => queueMutex_ = th

\* A thread has an argument for addTask exactly until it has pushed it.
CallInv ==
  \A th \in Callers : pc[th] \in {"add", "push"} <=> adding[th] # NoTask

\* A worker has a task exactly while it runs one, and only then calls to make.
WorkInv ==
  \A w \in Workers :
    /\ pc[w] \in CallerStates <=> task[w] # NoTask
    /\ pc[w] \notin CallerStates => todo[w] = {}

\* The destructor stops the pool when the clients are done, and no worker
\* returns or sleeps at the wrong time.
StopInv ==
  /\ stop_ <=> pc[Owner] \in {"notifyAll", "join", "joined"}
  /\ pc[Owner] \notin {"construct", "own"} => ClientsDone
  /\ \A w \in Workers : pc[w] = "done" => stop_
  /\ NobodySleepsAfterStop
  /\ pc[Owner] = "joined" => \A w \in Workers : pc[w] = "done"

IInv == TypeOK /\ MutexInv /\ CallInv /\ WorkInv /\ StopInv /\ QueueHasWorker

LEMMA InitIInv == Init => IInv
<1>. SUFFICES ASSUME Init PROVE IInv
  OBVIOUS
<1>. USE ThreadsAssumption, PoolAssumption, CallsAssumption, SpuriousAssumption, TasksAssumption
     DEF Init, Callers, Threads, CallerStates
<1>1. \A w \in Workers : pc[w] = "unborn"
  OBVIOUS
<1>2. \A c \in Clients : pc[c] = "body"
  OBVIOUS
<1>3. pc[Owner] = "construct"
  OBVIOUS
<1>4. TypeOK
  <2>1. pc \in [Threads -> WorkerStates \cup OwnerStates]
    BY Zenon DEF WorkerStates, OwnerStates
  <2>2. todo \in [Callers -> SUBSET Tasks]
    OBVIOUS
  <2>3. adding \in [Callers -> Tasks \cup {NoTask}] /\ task \in [Workers -> Tasks \cup {NoTask}]
    OBVIOUS
  <2>4. \A w \in Workers : pc[w] \in WorkerStates
    BY <1>1 DEF WorkerStates
  <2>5. (\A c \in Clients : pc[c] \in CallerStates) /\ pc[Owner] \in OwnerStates
    BY <1>2, <1>3 DEF OwnerStates
  <2>6. tasks_ \in Seq(Tasks) /\ ran \subseteq Tasks
    OBVIOUS
  <2>8. stop_ \in BOOLEAN
    BY Zenon
  <2>7. queueMutex_ \in Threads \cup {Nobody} /\ spurious \in 0..MaxSpurious
    OBVIOUS
  <2>. QED BY <2>1, <2>2, <2>3, <2>4, <2>5, <2>6, <2>7, <2>8 DEF TypeOK
<1>5. MutexInv BY <1>1, <1>2, <1>3 DEF MutexInv
<1>6. CallInv BY <1>1, <1>2, <1>3 DEF CallInv
<1>7. WorkInv BY <1>1, <1>2, <1>3 DEF WorkInv
<1>8. StopInv BY <1>1, <1>3 DEF StopInv, NobodySleepsAfterStop
<1>9. QueueHasWorker BY DEF QueueHasWorker
<1>. QED BY <1>4, <1>5, <1>6, <1>7, <1>8, <1>9 DEF IInv

LEMMA NextIInv == IInv /\ [Next]_vars => IInv'
<1>. SUFFICES ASSUME IInv, [Next]_vars PROVE IInv'
  OBVIOUS
<1>. USE ThreadsAssumption, PoolAssumption, CallsAssumption, SpuriousAssumption, TasksAssumption
     DEF Callers, Threads, CallerStates, WorkerStates, OwnerStates, IInv, TypeOK, MutexInv, CallInv,
         WorkInv, StopInv, QueueHasWorker, NobodySleepsAfterStop, ClientsDone, Waiting,
         data, Goto, Lock, Unlock
<1>1. ASSUME NEW w \in Workers, StartWorker(w) PROVE IInv'
  BY <1>1 DEF StartWorker
<1>2. CASE Constructed BY <1>2 DEF Constructed
<1>3. CASE Destroy BY <1>3 DEF Destroy
<1>4. CASE StopLock BY <1>4 DEF StopLock
<1>5. CASE Stop BY <1>5 DEF Stop
<1>6. CASE NotifyAll BY <1>6 DEF NotifyAll
<1>7. CASE Join BY <1>7 DEF Join
<1>8. ASSUME NEW th \in Callers, NEW t \in Tasks, AddTask(th, t) PROVE IInv'
  BY <1>8 DEF AddTask
<1>9. ASSUME NEW th \in Callers, AddLock(th) PROVE IInv'
  BY <1>9 DEF AddLock
<1>10. ASSUME NEW th \in Callers, Push(th) PROVE IInv'
  BY <1>10 DEF Push
<1>11. ASSUME NEW th \in Callers, NotifyOne(th) PROVE IInv'
  BY <1>11 DEF NotifyOne
<1>12. ASSUME NEW w \in Workers, WorkerLock(w) PROVE IInv'
  BY <1>12 DEF WorkerLock
<1>13. ASSUME NEW w \in Workers, Wait(w) PROVE IInv'
  BY <1>13 DEF Wait
<1>14. ASSUME NEW w \in Workers, SpuriousWakeup(w) PROVE IInv'
  BY <1>14 DEF SpuriousWakeup
<1>15. ASSUME NEW w \in Workers, Return(w) PROVE IInv'
  BY <1>15 DEF Return
<1>16. ASSUME NEW w \in Workers, Take(w) PROVE IInv'
  BY <1>16 DEF Take
<1>17. ASSUME NEW w \in Workers, TaskReturns(w) PROVE IInv'
  BY <1>17 DEF TaskReturns
<1>18. CASE UNCHANGED vars BY <1>18 DEF vars
<1>. QED
  BY <1>1, <1>2, <1>3, <1>4, <1>5, <1>6, <1>7, <1>8, <1>9, <1>10, <1>11, <1>12, <1>13,
     <1>14, <1>15, <1>16, <1>17, <1>18
     DEF Next, Construct, Destruct, Add, Work, Terminated

LEMMA Inductive == Spec => []IInv
  BY InitIInv, NextIInv, PTL DEF Spec

\* Every step of every thread keeps the state well formed.
THEOREM TypeCorrect == Spec => []TypeOK
  BY Inductive, PTL DEF IInv

\* No worker sleeps through the only notification of the destructor.
THEOREM NoneSleepsAfterStop == Spec => []NobodySleepsAfterStop
  BY Inductive, PTL DEF IInv, StopInv

\* When the destructor returns no submitted task is left behind.
THEOREM Drained == Spec => []DrainedAtJoin
<1>1. IInv => DrainedAtJoin
  BY DEF IInv, TypeOK, CallInv, WorkInv, StopInv, QueueHasWorker, DrainedAtJoin, ClientsDone,
         Running, Callers, Threads, CallerStates
<1>. QED BY <1>1, Inductive, PTL
-----------------------------------------------------------------------------
(* No lost wake-up.  Only five actions can disturb the comparison of the    *)
(* queue with those who come for it; the others are instances of Monotone.  *)

LEMMA CountsAreNat ==
  /\ IsFiniteSet(Coming) /\ Cardinality(Coming) \in Nat
  /\ IsFiniteSet(Notifying) /\ Cardinality(Notifying) \in Nat
<1>1. IsFiniteSet(Callers)
  BY ThreadsAssumption, FS_Union DEF Callers
<1>2. IsFiniteSet(Coming) /\ IsFiniteSet(Notifying)
  BY <1>1, ThreadsAssumption, FS_Subset DEF Coming, Notifying
<1>. QED BY <1>2, FS_CardinalityType

LEMMA CountsAreNatNext ==
  /\ IsFiniteSet(Coming') /\ Cardinality(Coming') \in Nat
  /\ IsFiniteSet(Notifying') /\ Cardinality(Notifying') \in Nat
<1>1. IsFiniteSet(Callers)
  BY ThreadsAssumption, FS_Union DEF Callers
<1>2. IsFiniteSet(Coming') /\ IsFiniteSet(Notifying')
  BY <1>1, ThreadsAssumption, FS_Subset DEF Coming, Notifying
<1>. QED BY <1>2, FS_CardinalityType

LEMMA Monotone ==
  ASSUME NoLostWakeup, TypeOK, tasks_' = tasks_,
         Waiting' # {} => Waiting # {},
         Coming \subseteq Coming', Notifying \subseteq Notifying'
  PROVE  NoLostWakeup'
<1>1. Cardinality(Coming) <= Cardinality(Coming')
  BY CountsAreNatNext, FS_Subset
<1>2. Cardinality(Notifying) <= Cardinality(Notifying')
  BY CountsAreNatNext, FS_Subset
<1>3. Len(tasks_) \in Nat
  BY DEF TypeOK
<1>. QED BY <1>1, <1>2, <1>3, CountsAreNat, CountsAreNatNext DEF NoLostWakeup

LEMMA NextNoLostWakeup == IInv /\ NoLostWakeup /\ [Next]_vars => NoLostWakeup'
<1>. SUFFICES ASSUME IInv, NoLostWakeup, [Next]_vars PROVE NoLostWakeup'
  OBVIOUS
<1>0. TypeOK BY DEF IInv
<1>. USE ThreadsAssumption
     DEF Callers, Threads, Waiting, Coming, Notifying, data, Goto
<1>1. CASE UNCHANGED vars
  BY <1>0, <1>1, Monotone DEF vars
<1>2. ASSUME NEW w \in Workers, StartWorker(w) PROVE NoLostWakeup'
  BY <1>0, <1>2, Monotone DEF StartWorker, TypeOK
<1>3. CASE Constructed \/ Destroy \/ StopLock \/ Stop \/ Join
  BY <1>0, <1>3, Monotone DEF Constructed, Destroy, StopLock, Stop, Join, TypeOK
<1>4. CASE NotifyAll
  <2>1. Waiting' = {}
    BY <1>0, <1>4 DEF NotifyAll, TypeOK
  <2>. QED BY <2>1 DEF NoLostWakeup
<1>5. ASSUME NEW th \in Callers, NEW t \in Tasks, AddTask(th, t) PROVE NoLostWakeup'
  BY <1>0, <1>5, Monotone DEF AddTask, TypeOK
<1>6. ASSUME NEW th \in Callers, AddLock(th) PROVE NoLostWakeup'
  BY <1>0, <1>6, Monotone DEF AddLock, TypeOK
<1>7. ASSUME NEW th \in Callers, Push(th) PROVE NoLostWakeup'
  <2>1. adding[th] \in Tasks /\ Len(tasks_') = Len(tasks_) + 1 /\ Len(tasks_) \in Nat
    BY <1>7 DEF Push, IInv, TypeOK, CallInv
  <2>2. Waiting' = Waiting /\ Coming' = Coming
    BY <1>0, <1>7 DEF Push, TypeOK
  <2>3. Notifying' = Notifying \cup {th} /\ th \notin Notifying
    BY <1>0, <1>7 DEF Push, TypeOK
  <2>4. Cardinality(Notifying') = Cardinality(Notifying) + 1
    BY <2>3, CountsAreNat, FS_AddElement
  <2>. HIDE DEF Waiting, Coming, Notifying
  <2>. QED BY <2>1, <2>2, <2>4, CountsAreNat DEF NoLostWakeup
<1>8. ASSUME NEW th \in Callers, NotifyOne(th) PROVE NoLostWakeup'
  <2>1. CASE Waiting = {}
    <3>1. Waiting' = {}
      BY <1>0, <1>8, <2>1 DEF NotifyOne, TypeOK
    <3>. QED BY <3>1 DEF NoLostWakeup
  <2>2. CASE Waiting # {}
    <3>1. PICK w \in Waiting : pc' = [pc EXCEPT ![th] = "body", ![w] = "acquire"]
      BY <1>8, <2>2 DEF NotifyOne
    <3>2. tasks_' = tasks_ /\ pc[th] = "notify" /\ pc[w] = "waiting" /\ w # th
      BY <1>8, <3>1 DEF NotifyOne
    <3>3. Coming' = Coming \cup {w} /\ w \notin Coming
      BY <1>0, <3>1, <3>2 DEF TypeOK
    <3>4. Notifying' = Notifying \ {th} /\ th \in Notifying
      BY <1>0, <3>1, <3>2 DEF TypeOK
    <3>5. Cardinality(Coming') = Cardinality(Coming) + 1
      BY <3>3, CountsAreNat, FS_AddElement
    <3>6. Cardinality(Notifying') = Cardinality(Notifying) - 1
      BY <3>4, CountsAreNat, FS_RemoveElement, ZenonT(30)
    <3>7. Len(tasks_) \in Nat
      BY <1>0 DEF TypeOK
    <3>. QED BY <2>2, <3>2, <3>5, <3>6, <3>7, CountsAreNat DEF NoLostWakeup
  <2>. QED BY <2>1, <2>2
<1>9. ASSUME NEW w \in Workers, WorkerLock(w) PROVE NoLostWakeup'
  BY <1>0, <1>9, Monotone DEF WorkerLock, TypeOK
<1>10. ASSUME NEW w \in Workers, Wait(w) \/ Return(w) PROVE NoLostWakeup'
  <2>1. Len(tasks_') = 0
    BY <1>10 DEF Wait, Return
  <2>. QED BY <2>1, CountsAreNatNext DEF NoLostWakeup
<1>11. ASSUME NEW w \in Workers, SpuriousWakeup(w) PROVE NoLostWakeup'
  BY <1>0, <1>11, Monotone DEF SpuriousWakeup, TypeOK
<1>12. ASSUME NEW w \in Workers, Take(w) PROVE NoLostWakeup'
  <2>1. Len(tasks_') = Len(tasks_) - 1 /\ Len(tasks_) \in Nat
    BY <1>0, <1>12 DEF Take, TypeOK
  <2>2. Waiting' = Waiting /\ Notifying' = Notifying
    BY <1>0, <1>12 DEF Take, TypeOK
  <2>3. Coming' = Coming \ {w} /\ w \in Coming
    BY <1>0, <1>12 DEF Take, TypeOK
  <2>4. Cardinality(Coming') = Cardinality(Coming) - 1
    BY <2>3, CountsAreNat, FS_RemoveElement
  <2>. HIDE DEF Waiting, Coming, Notifying
  <2>. QED BY <2>1, <2>2, <2>4, CountsAreNat DEF NoLostWakeup
<1>13. ASSUME NEW w \in Workers, TaskReturns(w) PROVE NoLostWakeup'
  BY <1>0, <1>13, Monotone DEF TaskReturns, TypeOK
<1>. QED
  BY <1>1, <1>2, <1>3, <1>4, <1>5, <1>6, <1>7, <1>8, <1>9, <1>10, <1>11, <1>12, <1>13
     DEF Next, Construct, Destruct, Add, Work, Terminated

\* While a worker sleeps, every queued task has a worker on its way or a
\* notification still to come.
THEOREM WakeupsSuffice == Spec => []NoLostWakeup
<1>1. Init => NoLostWakeup
  BY CountsAreNat DEF Init, NoLostWakeup
<1>. QED BY <1>1, Inductive, NextNoLostWakeup, PTL DEF Spec
-----------------------------------------------------------------------------
(* Refinement.  The abstract pool accepts a task once, so it must be shown  *)
(* that a task is in one place only: still to be submitted by one caller,   *)
(* the argument of one call, at one position of the queue, taken by one     *)
(* worker, or finished.                                                     *)

Free(t) == /\ t \notin ran
           /\ \A i \in DOMAIN tasks_ : tasks_[i] # t
           /\ \A w \in Workers : task[w] # t

OncePlaced ==
  /\ \A i, j \in DOMAIN tasks_ : i # j => tasks_[i] # tasks_[j]
  /\ \A v, w \in Workers : v # w /\ task[v] # NoTask => task[v] # task[w]
  /\ \A i \in DOMAIN tasks_ :
        tasks_[i] \notin ran /\ \A w \in Workers : task[w] # tasks_[i]
  /\ \A w \in Workers : task[w] \notin ran

OnceCalled ==
  /\ \A th \in Callers : adding[th] # NoTask => Free(adding[th])
  /\ \A th, x \in Callers : th # x /\ adding[th] # NoTask => adding[th] # adding[x]
  /\ \A th \in Callers : \A t \in todo[th] :
        Free(t) /\ \A x \in Callers : adding[x] # t /\ (x # th => t \notin todo[x])

\* A task that is on its way was given by a client, or by a task that has run
\* or is running; so what a queued task will submit is not on its way yet.
Known(t) == t # NoTask /\ (~Free(t) \/ \E th \in Callers : adding[th] = t \/ t \in todo[th])

OriginInv ==
  \A t \in Tasks : Known(t) =>
    \/ \E c \in Clients : t \in Calls[c]
    \/ \E r \in ran : t \in Calls[r]
    \/ \E w \in Workers : task[w] # NoTask /\ t \in Calls[task[w]]

PlaceInv == OncePlaced /\ OnceCalled /\ OriginInv

LEMMA InitPlaceInv == Init => PlaceInv
<1>. SUFFICES ASSUME Init PROVE PlaceInv
  OBVIOUS
<1>. USE ThreadsAssumption, TasksAssumption, CallsAssumption
     DEF Init, Callers
<1>1. OncePlaced
  BY DEF OncePlaced
<1>2. \A t \in Tasks : Free(t)
  BY DEF Free
<1>3. OnceCalled
  BY <1>2, OneCallerAssumption DEF OnceCalled
<1>4. OriginInv
  BY <1>2 DEF OriginInv, Known
<1>. QED BY <1>1, <1>3, <1>4 DEF PlaceInv

LEMMA AddTaskPlaces ==
  ASSUME IInv, PlaceInv, NEW th \in Callers, NEW t \in Tasks, AddTask(th, t)
  PROVE  PlaceInv'
<1>. USE TasksAssumption DEF AddTask, Goto, IInv, TypeOK, PlaceInv, CallInv
<1>1. OncePlaced' BY DEF OncePlaced
<1>2. \A u : Free(u)' <=> Free(u) BY DEF Free
<1>3. OnceCalled' BY <1>2 DEF OnceCalled
<1>4. \A u \in Tasks : Known(u)' => Known(u) BY <1>2 DEF Known
<1>5. OriginInv' BY <1>4 DEF OriginInv
<1>. QED BY <1>1, <1>3, <1>5

LEMMA PushPlaces ==
  ASSUME IInv, PlaceInv, NEW th \in Callers, Push(th)
  PROVE  PlaceInv'
<1>. USE TasksAssumption DEF Push, Goto, IInv, TypeOK, PlaceInv, CallInv
<1>. DEFINE a == adding[th]  n == Len(tasks_) + 1
<1>0. a \in Tasks /\ Free(a) /\ n \in Nat
  BY DEF OnceCalled
<1>1. /\ DOMAIN tasks_' = 1..n /\ DOMAIN tasks_ = 1..(n - 1)
      /\ tasks_'[n] = a /\ \A i \in 1..(n - 1) : tasks_'[i] = tasks_[i]
  BY <1>0
<1>2. OncePlaced'
  BY <1>0, <1>1 DEF OncePlaced, Free
<1>3. \A u : u # a => (Free(u)' <=> Free(u))
  BY <1>0, <1>1 DEF Free
<1>4. OnceCalled'
  BY <1>0, <1>3 DEF OnceCalled
<1>5. \A u \in Tasks : Known(u)' => Known(u)
  BY <1>0, <1>3 DEF Known
<1>6. OriginInv'
  BY <1>5 DEF OriginInv
<1>. QED BY <1>2, <1>4, <1>6

LEMMA TakePlaces ==
  ASSUME IInv, PlaceInv, NEW w \in Workers, Take(w)
  PROVE  PlaceInv'
<1>. DEFINE h == Head(tasks_)  n == Len(tasks_) - 1
<1>1. /\ h \in Tasks /\ h = tasks_[1] /\ n \in Nat
      /\ DOMAIN tasks_' = 1..n /\ DOMAIN tasks_ = 1..(n + 1)
      /\ \A i \in 1..n : tasks_'[i] = tasks_[i + 1]
  BY DEF Take, IInv, TypeOK
<1>2. /\ task[w] = NoTask /\ task \in [Workers -> Tasks \cup {NoTask}]
      /\ task' = [task EXCEPT ![w] = h] /\ ran' = ran /\ adding' = adding
      /\ todo' = [todo EXCEPT ![w] = Calls[h]] /\ todo \in [Callers -> SUBSET Tasks]
  BY DEF Take, Goto, IInv, TypeOK, WorkInv, CallerStates
<1>3. h \notin ran /\ \A v \in Workers : task[v] # h
  BY <1>1 DEF PlaceInv, OncePlaced
<1>4. OncePlaced'
  <2>1. \A i, j \in DOMAIN tasks_' : i # j => tasks_'[i] # tasks_'[j]
    BY <1>1, SMTT(30) DEF PlaceInv, OncePlaced
  <2>2. \A i \in DOMAIN tasks_' : tasks_'[i] # h
    BY <1>1 DEF PlaceInv, OncePlaced
  <2>3. \A i \in DOMAIN tasks_' :
           tasks_'[i] \notin ran' /\ \A v \in Workers : task'[v] # tasks_'[i]
    BY <1>1, <1>2, <2>2 DEF PlaceInv, OncePlaced
  <2>4. \A v \in Workers : task'[v] \notin ran'
    BY <1>2, <1>3 DEF PlaceInv, OncePlaced
  <2>5. \A u, v \in Workers : u # v /\ task'[u] # NoTask => task'[u] # task'[v]
    BY <1>2, <1>3 DEF PlaceInv, OncePlaced
  <2>. QED BY <2>1, <2>3, <2>4, <2>5 DEF OncePlaced
<1>5. \A u \in Tasks : Free(u)' <=> Free(u)
  <2>. SUFFICES ASSUME NEW u \in Tasks PROVE Free(u)' <=> Free(u)
    OBVIOUS
  <2>1. (\A v \in Workers : task'[v] # u) <=> (u # h /\ \A v \in Workers : task[v] # u)
    BY <1>2, TasksAssumption
  <2>2. (\A i \in DOMAIN tasks_ : tasks_[i] # u) <=>
          (u # h /\ \A i \in DOMAIN tasks_' : tasks_'[i] # u)
    <3>1. \A i \in DOMAIN tasks_ : i # 1 => i - 1 \in 1..n /\ tasks_[i] = tasks_'[i - 1]
      BY <1>1
    <3>. QED BY <1>1, <3>1
  <2>. QED BY <1>2, <2>1, <2>2 DEF Free
<1>6. \A u \in Calls[h] : u \in Tasks /\ ~Known(u)
  <2>. SUFFICES ASSUME NEW u \in Calls[h], Known(u) PROVE FALSE
    BY <1>1, CallsAssumption
  <2>0. u \in Tasks
    BY <1>1, CallsAssumption
  <2>1. PICK x \in Clients \cup Tasks : u \in Calls[x] /\ x # h
    BY <1>1, <1>2, <1>3, <2>0, TasksAssumption DEF PlaceInv, OriginInv, IInv, TypeOK
  <2>. QED BY <1>1, <2>1, OneCallerAssumption
<1>7. \A u \in Calls[h] : Free(u) /\ \A x \in Callers : adding[x] # u /\ u \notin todo[x]
  BY <1>6, TasksAssumption DEF Known
<1>8. OnceCalled'
  <2>1. \A th \in Callers : adding'[th] # NoTask => Free(adding[th])'
    BY <1>2, <1>5 DEF PlaceInv, OnceCalled, IInv, TypeOK
  <2>2. \A th \in Callers : \A t \in todo'[th] :
           Free(t)' /\ \A x \in Callers : adding'[x] # t /\ (x # th => t \notin todo'[x])
    BY <1>1, <1>2, <1>5, <1>6, <1>7 DEF PlaceInv, OnceCalled
  <2>. QED BY <1>2, <2>1, <2>2 DEF PlaceInv, OnceCalled
<1>9. \A u \in Tasks : Known(u)' => Known(u) \/ u \in Calls[h]
  BY <1>2, <1>5 DEF Known
<1>10. OriginInv'
  BY <1>1, <1>2, <1>9, TasksAssumption DEF PlaceInv, OriginInv
<1>. QED BY <1>4, <1>8, <1>10 DEF PlaceInv

LEMMA TaskReturnsPlaces ==
  ASSUME IInv, PlaceInv, NEW w \in Workers, TaskReturns(w)
  PROVE  PlaceInv'
<1>. USE TasksAssumption
     DEF TaskReturns, Goto, IInv, TypeOK, PlaceInv, WorkInv, CallerStates
<1>0. task[w] \in Tasks
  OBVIOUS
<1>1. OncePlaced'
  BY <1>0 DEF OncePlaced
<1>2. \A u \in Tasks : Free(u)' <=> Free(u)
  BY <1>0 DEF Free
<1>3. OnceCalled'
  BY <1>2 DEF OnceCalled
<1>4. \A u \in Tasks : Known(u)' => Known(u)
  BY <1>2 DEF Known
<1>5. OriginInv'
  BY <1>0, <1>4 DEF OriginInv
<1>. QED BY <1>1, <1>3, <1>5
LEMMA NextPlaceInv == IInv /\ PlaceInv /\ [Next]_vars => PlaceInv'
<1>. SUFFICES ASSUME IInv, PlaceInv, [Next]_vars PROVE PlaceInv'
  OBVIOUS
<1>1. CASE UNCHANGED data
  BY <1>1 DEF data, PlaceInv, OncePlaced, OnceCalled, OriginInv, Known, Free
<1>2. CASE \/ UNCHANGED vars \/ Construct \/ Destroy \/ StopLock \/ NotifyAll \/ Join
           \/ \E th \in Callers : AddLock(th) \/ NotifyOne(th)
           \/ \E w \in Workers : WorkerLock(w) \/ Wait(w) \/ Return(w) \/ SpuriousWakeup(w)
  BY <1>1, <1>2
     DEF vars, data, Construct, Constructed, StartWorker, Destroy, StopLock, NotifyAll, Join,
         AddLock, NotifyOne, WorkerLock, Wait, Return, SpuriousWakeup
<1>3. CASE Stop
  BY <1>3 DEF Stop, PlaceInv, OncePlaced, OnceCalled, OriginInv, Known, Free
<1>. QED
  BY <1>2, <1>3, AddTaskPlaces, PushPlaces, TakePlaces, TaskReturnsPlaces
     DEF Next, Construct, Destruct, Add, Work, Terminated

\* The steps of the abstract pool, one lemma for each step that is not a stutter.
LEMMA PushSubmits ==
  ASSUME IInv, PlaceInv, NEW th \in Callers, Push(th)
  PROVE  Pool!Submit(adding[th]) /\ adding[th] \in Tasks
<1>1. adding[th] \in Tasks /\ Free(adding[th])
  BY DEF Push, Goto, IInv, TypeOK, CallInv, PlaceInv, OnceCalled
<1>2. pc[Owner] # "joined" /\ pc'[Owner] # "joined"
  BY <1>1, ThreadsAssumption
     DEF Push, Goto, IInv, TypeOK, StopInv, ClientsDone, Callers, Threads
<1>3. adding[th] \notin Queued \cup Running \cup ran
  BY <1>1 DEF Free, Queued, Running
<1>4. tasks_' = Append(tasks_, adding[th]) /\ Running' = Running /\ ran' = ran
  BY DEF Push, Running
<1>. QED BY <1>1, <1>2, <1>3, <1>4 DEF Pool!Submit, Pool!Queued, Queued

LEMMA TakeStarts ==
  ASSUME IInv, PlaceInv, NEW w \in Workers, Take(w)
  PROVE  Pool!Start
<1>. DEFINE h == Head(tasks_)  Busy == {v \in Workers : task[v] # NoTask}
<1>1. h \in Tasks /\ task[w] = NoTask /\ tasks_ # <<>>
  BY DEF Take, Goto, IInv, TypeOK, WorkInv, CallerStates
<1>2. /\ task \in [Workers -> Tasks \cup {NoTask}] /\ task' = [task EXCEPT ![w] = h]
      /\ tasks_' = Tail(tasks_) /\ ran' = ran
  BY DEF Take, IInv, TypeOK
<1>3. Running' = Running \cup {h}
  BY <1>1, <1>2, TasksAssumption DEF Running
<1>4. Cardinality(Running) < Cardinality(Workers)
  <2>1. IsFiniteSet(Busy) /\ Cardinality(Busy) < Cardinality(Workers)
    <3>1. Busy \subseteq Workers \ {w}
      BY <1>1
    <3>2. /\ IsFiniteSet(Workers \ {w}) /\ Cardinality(Workers \ {w}) = Cardinality(Workers) - 1
      BY ThreadsAssumption, FS_RemoveElement
    <3>3. IsFiniteSet(Busy) /\ Cardinality(Busy) <= Cardinality(Workers \ {w})
      BY <3>1, <3>2, FS_Subset
    <3>4. Cardinality(Workers) \in Nat /\ Cardinality(Busy) \in Nat
      BY <3>3, ThreadsAssumption, FS_CardinalityType
    <3>. QED BY <3>2, <3>3, <3>4
  <2>2. [v \in Busy |-> task[v]] \in Surjection(Busy, Running)
    BY DEF Running, Surjection
  <2>3. IsFiniteSet(Running) /\ Cardinality(Running) <= Cardinality(Busy)
    BY <2>1, <2>2, FS_Surjection
  <2>4. /\ Cardinality(Workers) \in Nat /\ Cardinality(Busy) \in Nat
        /\ Cardinality(Running) \in Nat
    BY <2>1, <2>3, ThreadsAssumption, FS_CardinalityType
  <2>. QED BY <2>1, <2>3, <2>4
<1>5. (pc'[Owner] = "joined") <=> (pc[Owner] = "joined")
  BY ThreadsAssumption DEF Take, Goto, IInv, TypeOK, Callers, Threads
<1>6. Pool!Cardinality(Running) = Cardinality(Running)
  BY DEF Pool!Cardinality, Cardinality
<1>. QED BY <1>1, <1>2, <1>3, <1>4, <1>5, <1>6 DEF Pool!Start

LEMMA TaskReturnsFinishes ==
  ASSUME IInv, PlaceInv, NEW w \in Workers, TaskReturns(w)
  PROVE  Pool!Finish(task[w]) /\ task[w] \in Tasks
<1>1. /\ task \in [Workers -> Tasks \cup {NoTask}] /\ task[w] \in Tasks
      /\ task' = [task EXCEPT ![w] = NoTask]
      /\ tasks_' = tasks_ /\ ran' = ran \cup {task[w]}
  BY DEF TaskReturns, Goto, IInv, TypeOK, WorkInv, CallerStates
<1>2. task[w] \in Running
  BY <1>1, TasksAssumption DEF Running
<1>3. Running' = Running \ {task[w]}
  BY <1>1, TasksAssumption DEF Running, PlaceInv, OncePlaced
<1>4. (pc'[Owner] = "joined") <=> (pc[Owner] = "joined")
  BY ThreadsAssumption DEF TaskReturns, Goto, IInv, TypeOK, Callers, Threads
<1>. QED BY <1>1, <1>2, <1>3, <1>4 DEF Pool!Finish

LEMMA JoinDestroys == IInv /\ Join => Pool!Destroy
<1>. SUFFICES ASSUME IInv, Join PROVE Pool!Destroy
  OBVIOUS
<1>1. tasks_ = <<>>
  BY DEF Join, IInv, QueueHasWorker
<1>2. Running = {}
  BY DEF Join, IInv, WorkInv, CallerStates, Running
<1>3. pc'[Owner] = "joined"
  BY DEF Join, Goto, IInv, TypeOK, Threads
<1>4. tasks_' = tasks_ /\ Running' = Running /\ ran' = ran
  BY DEF Join, data, Running
<1>. QED BY <1>1, <1>2, <1>3, <1>4 DEF Pool!Destroy

LEMMA NextImplements == IInv /\ PlaceInv /\ [Next]_vars => [Pool!Next]_(Pool!vars)
<1>. SUFFICES ASSUME IInv, PlaceInv, [Next]_vars PROVE [Pool!Next]_(Pool!vars)
  OBVIOUS
<1>. USE ThreadsAssumption DEF Callers, Threads, Goto
<1>1. ASSUME tasks_' = tasks_, task' = task, ran' = ran,
             (pc'[Owner] = "joined") <=> (pc[Owner] = "joined")
      PROVE  [Pool!Next]_(Pool!vars)
  BY <1>1 DEF Pool!vars, Running
<1>2. CASE UNCHANGED vars
  BY <1>1, <1>2 DEF vars
<1>3. CASE Construct \/ Destroy \/ StopLock \/ Stop \/ NotifyAll
  BY <1>1, <1>3
     DEF Construct, Constructed, StartWorker, Destroy, StopLock, Stop, NotifyAll, data, IInv, TypeOK
<1>4. ASSUME NEW th \in Callers, AddLock(th) \/ NotifyOne(th) \/ \E t \in Tasks : AddTask(th, t)
      PROVE  [Pool!Next]_(Pool!vars)
  BY <1>1, <1>4 DEF AddLock, NotifyOne, AddTask, data, Waiting, IInv, TypeOK
<1>5. ASSUME NEW w \in Workers, WorkerLock(w) \/ Wait(w) \/ Return(w) \/ SpuriousWakeup(w)
      PROVE  [Pool!Next]_(Pool!vars)
  BY <1>1, <1>5 DEF WorkerLock, Wait, Return, SpuriousWakeup, data, IInv, TypeOK
<1>6. ASSUME NEW th \in Callers, Push(th) PROVE Pool!Next
  BY <1>6, PushSubmits DEF Pool!Next
<1>7. ASSUME NEW w \in Workers, Take(w) PROVE Pool!Next
  BY <1>7, TakeStarts DEF Pool!Next
<1>8. ASSUME NEW w \in Workers, TaskReturns(w) PROVE Pool!Next
  BY <1>8, TaskReturnsFinishes DEF Pool!Next
<1>9. CASE Join
  BY <1>9, JoinDestroys DEF Pool!Next
<1>. QED
  BY <1>2, <1>3, <1>4, <1>5, <1>6, <1>7, <1>8, <1>9
     DEF Next, Destruct, Add, Work, Terminated

\* The threads, the mutex and the condition variable implement the abstract
\* pool: tasks start in submission order, each once, at most one per worker,
\* and the destructor returns only when all of them have finished.
THEOREM ImplementsPoolSteps == Spec => Pool!Spec
<1>1. Init => Pool!Init
  BY ThreadsAssumption DEF Init, Pool!Init, Running, Callers, Threads
<1>. QED
  BY <1>1, Inductive, InitPlaceInv, NextPlaceInv, NextImplements, PTL DEF Spec, Pool!Spec
=============================================================================
