----------------------------- MODULE ThreadPool -----------------------------
(***************************************************************************)
(* Socket/ThreadPool.hpp: a queue of tasks guarded by a mutex, workers that *)
(* wait on a condition variable, addTask called from any thread (also from  *)
(* a task), and a destructor that stops and joins the workers.              *)
(*                                                                          *)
(* Each step is one critical section, or one call on the mutex or on the    *)
(* condition variable, of one thread.  The standard library is external:    *)
(* the mutex admits one thread, wait() gives the mutex up and sleeps in one *)
(* step and may wake for no reason, notify_one() wakes any one sleeper.     *)
(***************************************************************************)
EXTENDS Integers, Sequences, FiniteSets

CONSTANTS
  Workers,     \* the threads of the pool (numThreads of them)
  Clients,     \* other threads that call addTask
  Owner,       \* the thread that constructs and destroys the pool
  Tasks,
  Calls,       \* Calls[x]: the tasks client x, or task x when it runs, submits
  MaxSpurious, \* bound on the wake-ups of wait() that nobody asked for
  Nobody, NoTask

Callers == Workers \cup Clients
Threads == Callers \cup {Owner}

ASSUME ThreadsAssumption ==
  /\ IsFiniteSet(Workers) /\ IsFiniteSet(Clients)
  /\ Workers \cap Clients = {} /\ Owner \notin Callers /\ Nobody \notin Threads
ASSUME PoolAssumption == Workers # {}
ASSUME TasksAssumption == NoTask \notin Tasks /\ Clients \cap Tasks = {}
ASSUME CallsAssumption == Calls \in [Clients \cup Tasks -> SUBSET Tasks]
ASSUME SpuriousAssumption == MaxSpurious \in Nat
\* A task object is moved into the queue, so it is submitted in one place only.
ASSUME OneCallerAssumption ==
  \A x, y \in Clients \cup Tasks : x # y => Calls[x] \cap Calls[y] = {}

VARIABLES
  pc,           \* where each thread is
  queueMutex_,  \* the thread that holds the mutex
  tasks_,       \* the queue
  stop_,
  todo,         \* addTask calls a client, or the task a worker runs, has to make
  adding,       \* the argument of the addTask call a thread is in
  task,         \* the task a worker has taken
  ran,          \* tasks that have returned
  spurious      \* wake-ups without notification so far

vars == <<pc, queueMutex_, tasks_, stop_, todo, adding, task, ran, spurious>>

Init ==
  /\ pc = [th \in Threads |-> CASE th \in Workers -> "unborn"
                                [] th \in Clients -> "body"
                                [] OTHER          -> "construct"]
  /\ queueMutex_ = Nobody
  /\ tasks_ = <<>>
  /\ stop_ = FALSE
  /\ todo = [th \in Callers |-> IF th \in Clients THEN Calls[th] ELSE {}]
  /\ adding = [th \in Callers |-> NoTask]
  /\ task = [w \in Workers |-> NoTask]
  /\ ran = {}
  /\ spurious = 0

Goto(th, from, to) == pc[th] = from /\ pc' = [pc EXCEPT ![th] = to]
Lock(th) == queueMutex_ = Nobody /\ queueMutex_' = th
Unlock == queueMutex_' = Nobody
Waiting == {w \in Workers : pc[w] = "waiting"}

data == <<tasks_, stop_, todo, adding, task, ran>>

-----------------------------------------------------------------------------
(* Constructor: threads_.emplace_back, one thread at a time.                *)

StartWorker(w) ==
  /\ pc[Owner] = "construct"
  /\ Goto(w, "unborn", "acquire")
  /\ UNCHANGED <<queueMutex_, data, spurious>>

Constructed ==
  /\ \A w \in Workers : pc[w] # "unborn"
  /\ Goto(Owner, "construct", "own")
  /\ UNCHANGED <<queueMutex_, data, spurious>>

-----------------------------------------------------------------------------
(* addTask, called by a client or by the task a worker runs.                *)

AddTask(th, t) ==
  /\ t \in todo[th]
  /\ th \in Clients => pc[Owner] = "own"
  /\ Goto(th, "body", "add")
  /\ todo' = [todo EXCEPT ![th] = @ \ {t}]
  /\ adding' = [adding EXCEPT ![th] = t]
  /\ UNCHANGED <<queueMutex_, tasks_, stop_, task, ran, spurious>>

AddLock(th) ==
  /\ Goto(th, "add", "push")
  /\ Lock(th)
  /\ UNCHANGED <<data, spurious>>

\* Faulty variant: nobody is notified.
Push_Silent(th) ==
  /\ Goto(th, "push", "body")
  /\ tasks_' = Append(tasks_, adding[th])
  /\ adding' = [adding EXCEPT ![th] = NoTask]
  /\ Unlock
  /\ UNCHANGED <<stop_, todo, task, ran, spurious>>

Push(th) ==
  /\ Goto(th, "push", "notify")
  /\ tasks_' = Append(tasks_, adding[th])
  /\ adding' = [adding EXCEPT ![th] = NoTask]
  /\ Unlock
  /\ UNCHANGED <<stop_, todo, task, ran, spurious>>

NotifyOne(th) ==
  /\ pc[th] = "notify"
  /\ IF Waiting = {}
     THEN pc' = [pc EXCEPT ![th] = "body"]
     ELSE \E w \in Waiting : pc' = [pc EXCEPT ![th] = "body", ![w] = "acquire"]
  /\ UNCHANGED <<queueMutex_, data, spurious>>

-----------------------------------------------------------------------------
(* workerThread.                                                            *)

WorkerLock(w) ==
  /\ Goto(w, "acquire", "check")
  /\ Lock(w)
  /\ UNCHANGED <<data, spurious>>

Wait(w) ==
  /\ tasks_ = <<>> /\ ~stop_
  /\ Goto(w, "check", "waiting")
  /\ Unlock
  /\ UNCHANGED <<data, spurious>>

SpuriousWakeup(w) ==
  /\ spurious < MaxSpurious
  /\ Goto(w, "waiting", "acquire")
  /\ spurious' = spurious + 1
  /\ UNCHANGED <<queueMutex_, data>>

\* Faulty variant: a worker returns as soon as stop_ is set.
Return_AtOnce(w) ==
  /\ stop_
  /\ Goto(w, "check", "done")
  /\ Unlock
  /\ UNCHANGED <<data, spurious>>

Return(w) ==
  /\ tasks_ = <<>> /\ stop_
  /\ Goto(w, "check", "done")
  /\ Unlock
  /\ UNCHANGED <<data, spurious>>

\* Faulty variant: the newest task is taken.
Take_Newest(w) ==
  /\ tasks_ # <<>>
  /\ Goto(w, "check", "body")
  /\ LET newest == tasks_[Len(tasks_)]
     IN /\ task' = [task EXCEPT ![w] = newest]
        /\ todo' = [todo EXCEPT ![w] = Calls[newest]]
  /\ tasks_' = SubSeq(tasks_, 1, Len(tasks_) - 1)
  /\ Unlock
  /\ UNCHANGED <<stop_, adding, ran, spurious>>

Take(w) ==
  /\ tasks_ # <<>>
  /\ Goto(w, "check", "body")
  /\ task' = [task EXCEPT ![w] = Head(tasks_)]
  /\ todo' = [todo EXCEPT ![w] = Calls[Head(tasks_)]]
  /\ tasks_' = Tail(tasks_)
  /\ Unlock
  /\ UNCHANGED <<stop_, adding, ran, spurious>>

TaskReturns(w) ==
  /\ todo[w] = {}
  /\ Goto(w, "body", "acquire")
  /\ ran' = ran \cup {task[w]}
  /\ task' = [task EXCEPT ![w] = NoTask]
  /\ UNCHANGED <<queueMutex_, tasks_, stop_, todo, adding, spurious>>

-----------------------------------------------------------------------------
(* Destructor.  A program may destroy the pool only when no client is in    *)
(* addTask or will call it again; tasks may still call it.                  *)

ClientsDone == \A c \in Clients : pc[c] = "body" /\ todo[c] = {}

Destroy ==
  /\ ClientsDone
  /\ Goto(Owner, "own", "stopLock")
  /\ UNCHANGED <<queueMutex_, data, spurious>>

StopLock ==
  /\ Goto(Owner, "stopLock", "stop")
  /\ Lock(Owner)
  /\ UNCHANGED <<data, spurious>>

Stop ==
  /\ Goto(Owner, "stop", "notifyAll")
  /\ stop_' = TRUE
  /\ Unlock
  /\ UNCHANGED <<tasks_, todo, adding, task, ran, spurious>>

\* Faulty variant: the destructor notifies one worker only.
NotifyAll_One ==
  /\ pc[Owner] = "notifyAll"
  /\ IF Waiting = {}
     THEN pc' = [pc EXCEPT ![Owner] = "join"]
     ELSE \E w \in Waiting : pc' = [pc EXCEPT ![Owner] = "join", ![w] = "acquire"]
  /\ UNCHANGED <<queueMutex_, data, spurious>>

NotifyAll ==
  /\ pc[Owner] = "notifyAll"
  /\ pc' = [th \in Threads |-> CASE th = Owner      -> "join"
                                 [] th \in Waiting -> "acquire"
                                 [] OTHER          -> pc[th]]
  /\ UNCHANGED <<queueMutex_, data, spurious>>

Join ==
  /\ \A w \in Workers : pc[w] = "done"
  /\ Goto(Owner, "join", "joined")
  /\ UNCHANGED <<queueMutex_, data, spurious>>

-----------------------------------------------------------------------------
Add(th) == AddLock(th) \/ Push(th) \/ NotifyOne(th) \/ \E t \in Tasks : AddTask(th, t)
Work(w) == WorkerLock(w) \/ Wait(w) \/ Return(w) \/ Take(w) \/ TaskReturns(w)
Construct == Constructed \/ \E w \in Workers : StartWorker(w)
Destruct == StopLock \/ Stop \/ NotifyAll \/ Join

\* The pool is gone and every worker has returned.
Terminated == pc[Owner] = "joined" /\ UNCHANGED vars

Next ==
  \/ Construct \/ Destroy \/ Destruct
  \/ \E th \in Callers : Add(th)
  \/ \E w \in Workers : Work(w) \/ SpuriousWakeup(w)
  \/ Terminated

Spec == Init /\ [][Next]_vars

\* The scheduler runs every thread that can run.  Nobody has to destroy the
\* pool, and wait() need not wake for no reason.
Fairness ==
  /\ WF_vars(Construct) /\ WF_vars(Destruct)
  /\ \A th \in Callers : WF_vars(Add(th))
  /\ \A w \in Workers : WF_vars(Work(w))

FairSpec == Spec /\ Fairness
-----------------------------------------------------------------------------
(* Properties.                                                              *)

CallerStates == {"body", "add", "push", "notify"}
WorkerStates == CallerStates \cup {"unborn", "acquire", "check", "waiting", "done"}
OwnerStates == {"construct", "own", "stopLock", "stop", "notifyAll", "join", "joined"}

TypeOK ==
  /\ pc \in [Threads -> WorkerStates \cup OwnerStates]
  /\ \A w \in Workers : pc[w] \in WorkerStates
  /\ \A c \in Clients : pc[c] \in CallerStates
  /\ pc[Owner] \in OwnerStates
  /\ queueMutex_ \in Threads \cup {Nobody}
  /\ tasks_ \in Seq(Tasks)
  /\ stop_ \in BOOLEAN
  /\ todo \in [Callers -> SUBSET Tasks]
  /\ adding \in [Callers -> Tasks \cup {NoTask}]
  /\ task \in [Workers -> Tasks \cup {NoTask}]
  /\ ran \subseteq Tasks
  /\ spurious \in 0..MaxSpurious

\* Workers that will look at the queue without being woken, and calls that
\* will still wake one.
Coming == {w \in Workers : pc[w] \in {"acquire", "check"}}
Notifying == {th \in Callers : pc[th] = "notify"}

\* No wake-up is lost: while a worker sleeps in wait(), every queued task has a
\* worker on its way to it or a notify_one() still to come (addTask notifies
\* after it has released the mutex; wait() tests before it sleeps).
NoLostWakeup ==
  Waiting # {} => Len(tasks_) <= Cardinality(Coming) + Cardinality(Notifying)

\* From notify_all() on nobody sleeps in wait(), so join() cannot hang on a
\* worker that missed the only notification of the destructor.
NobodySleepsAfterStop == pc[Owner] \in {"join", "joined"} => Waiting = {}

Queued == {tasks_[i] : i \in DOMAIN tasks_}
Running == {task[w] : w \in Workers} \ {NoTask}

\* When the destructor returns nothing is left behind: every task submitted
\* before it or by a task while it waits has run, also those pushed after
\* other workers have already returned.
DrainedAtJoin ==
  pc[Owner] = "joined" =>
    /\ tasks_ = <<>>
    /\ Running = {}
    /\ \A th \in Callers : todo[th] = {} /\ adding[th] = NoTask

\* While a task is queued some worker has not returned (workerThread returns
\* only on an empty queue; only a running task adds to it after stop_).
QueueHasWorker == tasks_ # <<>> => \E w \in Workers : pc[w] # "done"

Pool == INSTANCE TaskPool WITH
  Capacity <- Cardinality(Workers),
  queue <- tasks_, running <- Running, gone <- pc[Owner] = "joined"

\* The mutex, the condition variable and the joins implement the pool: FIFO
\* starts, each task once, and every submitted task is started and finished.
ImplementsPool == Pool!FairSpec

\* The destructor returns: no worker waits for ever for its notification.
DestructorReturns == (pc[Owner] = "stopLock") ~> (pc[Owner] = "joined")
=============================================================================
