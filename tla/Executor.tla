------------------------------ MODULE Executor ------------------------------
(***************************************************************************)
(* taskflow/core/executor.hpp: workers that run the tasks of one taskflow,  *)
(* submitted a number of times by the thread that owns the executor and     *)
(* then destroys it.  Tasks are static, of one priority, with strong        *)
(* dependencies.  A queue's push, pop and steal are single steps, which is  *)
(* what TaskQueue shows of them; the notifier's operations are those of     *)
(* Notifier, step by step.                                                  *)
(***************************************************************************)
EXTENDS Notifier, SequencesExt

CONSTANTS
  Owner,        \* the thread that submits and destroys
  Nodes,        \* the tasks
  Successors,   \* [Nodes -> Seq(Nodes)]: Node::_successors
  Repeats,      \* per submission, the argument of run_n
  MayCancel,    \* whether a future is cancelled
  Shared        \* the executor's own queue, _wsq

Workers == Waiters
Queues == Workers \cup {Shared}
Threads == Workers \cup {Owner}

ASSUME ExecutorAssumption ==
  /\ Callers = Threads /\ Owner \notin Workers /\ Shared \notin Workers
  /\ Workers = 1 .. Cardinality(Workers) /\ Workers # {}
  /\ Successors \in [Nodes -> Seq(Nodes)] /\ IsFiniteSet(Nodes) /\ Nodes # {}
  /\ \A n \in Nodes : IsInjective(Successors[n])
  /\ Repeats \in Seq(Nat \ {0}) /\ MayCancel \in BOOLEAN
  /\ None \notin Nodes

Predecessors(n) == {m \in Nodes : n \in ToSet(Successors[m])}
num_dependents(n) == Cardinality(Predecessors(n))
Sources == SetToSeq({n \in Nodes : Predecessors(n) = {}})

\* No cycle: among any tasks there is one that depends on none of them.
ASSUME AcyclicAssumption ==
  \A S \in SUBSET Nodes : S # {} => \E n \in S : Predecessors(n) \cap S = {}

VARIABLES
  queue,       \* per queue: its tasks, the oldest first
  _join_counter, \* per task: predecessors that have not finished
  topologies,  \* Taskflow::_topologies: [repeat, cancelled], running one first
  left,        \* Topology::_join_counter of the running topology
  _num_topologies,
  mutex,       \* holder of Taskflow::_mutex, None when free
  _done,
  pc,          \* per thread
  node,        \* per worker: t, the task it runs
  _cache,      \* per worker: Worker::_cache
  todo,        \* per worker: successors or sources its loop has not reached
  _vtm,        \* per worker: the queue it scans, or steals from next; 1 when it is free
  submitted,   \* submissions made
  ran          \* history: tasks that ran in this round of the topology

taskVars == <<queue, _join_counter, left, ran>>
topologyVars == <<topologies, _num_topologies, mutex>>
workerVars == <<node, _cache, todo, _vtm>>
executorVars == <<taskVars, topologyVars, _done, pc, workerVars, submitted>>
vars == <<notifierVars, executorVars>>

Init ==
  /\ NotifierInit
  /\ queue = [q \in Queues |-> <<>>]
  /\ _join_counter = [n \in Nodes |-> 0]
  /\ topologies = <<>> /\ left = 0 /\ _num_topologies = 0 /\ mutex = None
  /\ _done = FALSE
  /\ pc = [t \in Threads |-> IF t = Owner THEN "submit" ELSE "explore"]
  /\ node = [w \in Workers |-> None] /\ _cache = [w \in Workers |-> None]
  /\ todo = [w \in Workers |-> <<>>] /\ _vtm = [w \in Workers |-> 1]
  /\ submitted = 0 /\ ran = {}

\* Thread t is at place, and not in a call of the notifier.
At(t, place) == pc[t] = place /\ npc[t] = "out"
Goto(t, place) == pc' = [pc EXCEPT ![t] = place]
Push(q, n) == queue' = [queue EXCEPT ![q] = Append(@, n)]

-----------------------------------------------------------------------------
\* _set_up_topology up to the scheduling of the sources.
SetUp ==
  /\ _join_counter' = [n \in Nodes |-> num_dependents(n)]
  /\ left' = Len(Sources)
  /\ ran' = {}

\* run_n by the owner.  The count is raised before the lock is taken, but only
\* the owner tests it.  Under the lock, a topology behind others waits, and
\* the only one is started.
Submit ==
  /\ At(Owner, "submit") /\ submitted < Len(Repeats) /\ mutex = None
  /\ submitted' = submitted + 1
  /\ _num_topologies' = _num_topologies + 1
  /\ topologies' = Append(topologies, [repeat |-> Repeats[submitted'] - 1, cancelled |-> FALSE])
  /\ \/ topologies # <<>> /\ UNCHANGED <<notifierVars, taskVars, mutex, pc>>
     \/ /\ topologies = <<>> /\ mutex' = Owner /\ SetUp
        /\ queue' = [queue EXCEPT ![Shared] = @ \o Sources]
        /\ NotifyN(Owner, Len(Sources)) /\ Goto(Owner, "unlock")
  /\ UNCHANGED <<_done, workerVars>>

Unlock ==
  /\ At(Owner, "unlock") /\ mutex' = None /\ Goto(Owner, "submit")
  /\ UNCHANGED <<notifierVars, taskVars, topologies, _num_topologies, _done, workerVars, submitted>>

\* Future::cancel on the latest submission but the last of all, while its
\* topology exists.
Cancel ==
  /\ MayCancel /\ At(Owner, "submit") /\ topologies # <<>> /\ submitted < Len(Repeats)
  /\ ~Last(topologies).cancelled
  /\ topologies' = [topologies EXCEPT ![Len(topologies)].cancelled = TRUE]
  /\ UNCHANGED <<notifierVars, taskVars, _num_topologies, mutex, _done, pc, workerVars, submitted>>

\* ~Executor: wait_for_all, _done, notify(true), join.
ShutDown ==
  /\ At(Owner, "submit") /\ submitted = Len(Repeats) /\ _num_topologies = 0
  /\ _done' = TRUE /\ Notify(Owner, TRUE) /\ Goto(Owner, "join")
  /\ UNCHANGED <<taskVars, topologyVars, workerVars, submitted>>

Join ==
  /\ At(Owner, "join") /\ \A w \in Workers : At(w, "exited")
  /\ Goto(Owner, "destroyed")
  /\ UNCHANGED <<notifierVars, taskVars, topologyVars, _done, workerVars, submitted>>

Stopped == At(Owner, "destroyed") /\ UNCHANGED vars

-----------------------------------------------------------------------------
\* w moves _top of queue q.  A thief that has read _top before may lose its
\* exchange: it finds nothing, for which it gets its own queue, an empty one.
Outruns(w, q) ==
  \E losers \in SUBSET {v \in Workers \ {w} : At(v, "retry") /\ _vtm[v] = q} :
    _vtm' = [v \in Workers |-> IF v \in losers THEN v ELSE IF v = w THEN 1 ELSE _vtm[v]]

\* A thief takes the oldest task of another queue and wakes the next thief.
StealFrom(w, q) ==
  /\ queue[q] # <<>>
  /\ node' = [node EXCEPT ![w] = Head(queue[q])]
  /\ queue' = [queue EXCEPT ![q] = Tail(@)]
  /\ Notify(w, FALSE) /\ Goto(w, "invoke")
  /\ Outruns(w, q)
  /\ UNCHANGED <<_join_counter, left, ran, topologyVars, _done, _cache, todo, submitted>>

\* _explore_task: random victims ...
Steal(w) == At(w, "explore") /\ \E q \in Queues \ {w} : StealFrom(w, q)

\* ... until it gives up, not having found anything; then prepare_wait.
GiveUp(w) ==
  /\ At(w, "explore") /\ PrepareWait(w) /\ Goto(w, "checkShared")
  /\ UNCHANGED <<taskVars, topologyVars, _done, workerVars, submitted>>

\* The scan below saw a task in _vtm, the victim of the first steal.
Retry(w) ==
  /\ At(w, "retry")
  /\ \/ StealFrom(w, _vtm[w])
     \/ /\ queue[_vtm[w]] = <<>> /\ Goto(w, "explore") /\ _vtm' = [_vtm EXCEPT ![w] = 1]
        /\ UNCHANGED <<notifierVars, taskVars, topologyVars, _done, node, _cache, todo, submitted>>

\* Something is there, in q: cancel_wait and explore again.
SeesTask(w, q) ==
  /\ queue[q] # <<>> /\ CancelWait(w)
  /\ _vtm' = [_vtm EXCEPT ![w] = q] /\ Goto(w, "retry")
  /\ UNCHANGED <<taskVars, topologyVars, _done, node, _cache, todo, submitted>>

CheckShared(w) ==
  /\ At(w, "checkShared")
  /\ \/ SeesTask(w, Shared)
     \/ /\ queue[Shared] = <<>> /\ Goto(w, "checkDone")
        /\ UNCHANGED <<notifierVars, taskVars, topologyVars, _done, workerVars, submitted>>

\* Faulty variant: _done is not looked at again.
CheckDone_Skipped(w) ==
  /\ At(w, "checkDone")
  /\ _vtm' = [_vtm EXCEPT ![w] = 1] /\ Goto(w, "scan") /\ UNCHANGED notifierVars
  /\ UNCHANGED <<taskVars, topologyVars, _done, node, _cache, todo, submitted>>

CheckDone(w) ==
  /\ At(w, "checkDone")
  /\ \/ _done /\ CancelWait(w) /\ Goto(w, "leave") /\ UNCHANGED _vtm
     \/ /\ ~_done /\ _vtm' = [_vtm EXCEPT ![w] = 1] /\ Goto(w, "scan")
        /\ UNCHANGED notifierVars
  /\ UNCHANGED <<taskVars, topologyVars, _done, node, _cache, todo, submitted>>

Exit(w) ==
  /\ At(w, "leave") /\ Notify(w, TRUE) /\ Goto(w, "exited")
  /\ UNCHANGED <<taskVars, topologyVars, _done, workerVars, submitted>>

\* Faulty variant: the workers' queues are not scanned.
Scan_Skipped(w) ==
  /\ At(w, "scan") /\ CommitWait(w) /\ Goto(w, "explore")
  /\ UNCHANGED <<taskVars, topologyVars, _done, workerVars, submitted>>

\* The workers' queues by index; after the last, commit_wait.
Scan(w) ==
  /\ At(w, "scan")
  /\ \/ SeesTask(w, _vtm[w])
     \/ /\ queue[_vtm[w]] = <<>>
        /\ IF _vtm[w] + 1 \in Workers
           THEN _vtm' = [_vtm EXCEPT ![w] = @ + 1] /\ UNCHANGED <<notifierVars, pc>>
           ELSE CommitWait(w) /\ Goto(w, "explore") /\ _vtm' = [_vtm EXCEPT ![w] = 1]
        /\ UNCHANGED <<taskVars, topologyVars, _done, node, _cache, todo, submitted>>

-----------------------------------------------------------------------------
\* Of a cancelled topology a task is only torn down.  What _cache holds is dead
\* by then, and forgotten.
SkipCancelled(w) ==
  /\ At(w, "invoke") /\ Head(topologies).cancelled
  /\ left' = left - 1
  /\ _cache' = [_cache EXCEPT ![w] = None] /\ node' = [node EXCEPT ![w] = None]
  /\ Goto(w, IF left = 1 THEN "topology" ELSE "pop")
  /\ UNCHANGED <<notifierVars, queue, _join_counter, ran, topologyVars, _done, todo, _vtm, submitted>>

\* Faulty variant: the join counter is not reset for the next round.
Invoke_NoReset(w) ==
  /\ At(w, "invoke") /\ ~Head(topologies).cancelled
  /\ ran' = ran \cup {node[w]}
  /\ todo' = [todo EXCEPT ![w] = Successors[node[w]]]
  /\ _cache' = [_cache EXCEPT ![w] = None] /\ Goto(w, "successors")
  /\ UNCHANGED <<notifierVars, queue, _join_counter, left, topologyVars, _done, node, _vtm, submitted>>

\* Runs the task and resets its join counter.
Invoke(w) ==
  /\ At(w, "invoke") /\ ~Head(topologies).cancelled
  /\ ran' = ran \cup {node[w]}
  /\ _join_counter' = [_join_counter EXCEPT ![node[w]] = @ + num_dependents(node[w])]
  /\ todo' = [todo EXCEPT ![w] = Successors[node[w]]]
  /\ _cache' = [_cache EXCEPT ![w] = None] /\ Goto(w, "successors")
  /\ UNCHANGED <<notifierVars, queue, left, topologyVars, _done, node, _vtm, submitted>>

\* Faulty variant: a ready successor is not added to the topology's counter.
Successor_Uncounted(w) ==
  /\ At(w, "successors") /\ todo[w] # <<>>
  /\ LET s == Head(todo[w])
     IN  /\ _join_counter' = [_join_counter EXCEPT ![s] = @ - 1]
         /\ \/ /\ _join_counter[s] # 1
               /\ UNCHANGED <<notifierVars, _cache, queue>>
            \/ /\ _join_counter[s] = 1
               /\ _cache' = [_cache EXCEPT ![w] = s]
               /\ IF _cache[w] = None THEN UNCHANGED <<queue, notifierVars>>
                                      ELSE Push(w, _cache[w]) /\ Notify(w, FALSE)
  /\ todo' = [todo EXCEPT ![w] = Tail(@)]
  /\ UNCHANGED <<ran, left, topologyVars, _done, pc, node, _vtm, submitted>>

\* One successor.  If it is ready it is kept in the cache, and the one kept
\* so far is scheduled.  The counter cannot reach zero between its steps, as
\* the running task is counted.
Successor(w) ==
  /\ At(w, "successors") /\ todo[w] # <<>>
  /\ LET s == Head(todo[w])
     IN  /\ _join_counter' = [_join_counter EXCEPT ![s] = @ - 1]
         /\ \/ /\ _join_counter[s] # 1
               /\ UNCHANGED <<notifierVars, left, _cache, queue>>
            \/ /\ _join_counter[s] = 1 /\ left' = left + 1
               /\ _cache' = [_cache EXCEPT ![w] = s]
               /\ IF _cache[w] = None THEN UNCHANGED <<queue, notifierVars>>
                                      ELSE Push(w, _cache[w]) /\ Notify(w, FALSE)
  /\ todo' = [todo EXCEPT ![w] = Tail(@)]
  /\ UNCHANGED <<ran, topologyVars, _done, pc, node, _vtm, submitted>>

\* What the worker does after a task: its cached successor, or its own queue.
NextTask(w) ==
  IF _cache[w] # None THEN node' = [node EXCEPT ![w] = _cache[w]] /\ Goto(w, "invoke")
                      ELSE node' = [node EXCEPT ![w] = None] /\ Goto(w, "pop")

\* _tear_down_invoke: who finishes the last task tears the topology down.
TearDown(w) ==
  /\ At(w, "successors") /\ todo[w] = <<>>
  /\ left' = left - 1
  /\ \/ left # 1 /\ NextTask(w)
     \/ left = 1 /\ node' = [node EXCEPT ![w] = None] /\ Goto(w, "topology")
  /\ UNCHANGED <<notifierVars, queue, _join_counter, ran, topologyVars, _done, _cache, todo, _vtm, submitted>>

\* _exploit_task: the worker's own queue, the newest first; only for the last
\* one it competes with thieves.
Pop(w) ==
  /\ At(w, "pop")
  /\ \/ /\ queue[w] # <<>>
        /\ node' = [node EXCEPT ![w] = Last(queue[w])]
        /\ queue' = [queue EXCEPT ![w] = Front(@)]
        /\ Goto(w, "invoke")
        /\ IF Len(queue[w]) = 1 THEN Outruns(w, w) ELSE UNCHANGED _vtm
     \/ queue[w] = <<>> /\ Goto(w, "explore") /\ UNCHANGED <<node, queue, _vtm>>
  /\ UNCHANGED <<notifierVars, _join_counter, left, ran, topologyVars, _done, _cache, todo, submitted>>

\* _tear_down_topology: one round more, ...
RunAgain(w) ==
  /\ At(w, "topology") /\ mutex = None
  /\ ~Head(topologies).cancelled /\ Head(topologies).repeat > 0
  /\ topologies' = [topologies EXCEPT ![1].repeat = @ - 1]
  /\ mutex' = w /\ left' = Len(Sources) /\ ran' = {}
  /\ todo' = [todo EXCEPT ![w] = Sources] /\ Goto(w, "schedule")
  /\ UNCHANGED <<notifierVars, queue, _join_counter, _num_topologies, _done, node, _cache, _vtm, submitted>>

\* ... or the next topology, ...
RunNext(w) ==
  /\ At(w, "topology") /\ mutex = None
  /\ Head(topologies).cancelled \/ Head(topologies).repeat = 0
  /\ Len(topologies) > 1
  /\ topologies' = Tail(topologies) /\ _num_topologies' = _num_topologies - 1
  /\ mutex' = w /\ SetUp
  /\ todo' = [todo EXCEPT ![w] = Sources] /\ Goto(w, "schedule")
  /\ UNCHANGED <<notifierVars, queue, _done, node, _cache, _vtm, submitted>>

\* ... or the last is over: the promise, and then the count.
Finish(w) ==
  /\ At(w, "topology") /\ mutex = None
  /\ Head(topologies).cancelled \/ Head(topologies).repeat = 0
  /\ Len(topologies) = 1
  /\ topologies' = <<>> /\ Goto(w, "finished")
  /\ UNCHANGED <<notifierVars, taskVars, _num_topologies, mutex, _done, workerVars, submitted>>

Decrement(w) ==
  /\ At(w, "finished")
  /\ _num_topologies' = _num_topologies - 1 /\ Goto(w, "pop")
  /\ UNCHANGED <<notifierVars, taskVars, topologies, mutex, _done, workerVars, submitted>>

\* The sources, one by one, under the lock.
Schedule(w) ==
  /\ At(w, "schedule")
  /\ \/ /\ todo[w] # <<>> /\ Push(w, Head(todo[w])) /\ Notify(w, FALSE)
        /\ todo' = [todo EXCEPT ![w] = Tail(@)] /\ UNCHANGED <<mutex, pc>>
     \/ /\ todo[w] = <<>> /\ mutex' = None /\ Goto(w, "pop")
        /\ UNCHANGED <<notifierVars, queue, todo>>
  /\ UNCHANGED <<_join_counter, left, ran, topologies, _num_topologies, _done, node, _cache, _vtm, submitted>>

-----------------------------------------------------------------------------
InNotifier(t) == NotifierStep(t) /\ UNCHANGED executorVars

Work(w) ==
  \/ Steal(w) \/ GiveUp(w) \/ Retry(w) \/ CheckShared(w) \/ CheckDone(w) \/ Exit(w) \/ Scan(w)
  \/ SkipCancelled(w) \/ Invoke(w) \/ Successor(w) \/ TearDown(w) \/ Pop(w)
  \/ RunAgain(w) \/ RunNext(w) \/ Finish(w) \/ Decrement(w) \/ Schedule(w) \/ InNotifier(w)

Own == Submit \/ Unlock \/ ShutDown \/ Join \/ InNotifier(Owner)

Next == Own \/ Cancel \/ Stopped \/ \E w \in Workers : Work(w)

Spec == Init /\ [][Next]_vars

\* Some thread that can run runs: no fairness among threads is needed, since
\* a worker that goes round finds less to do each time.
FairSpec == Spec /\ WF_vars(Own \/ \E w \in Workers : Work(w))

-----------------------------------------------------------------------------
(* The threads in pre-wait that nobody has notified hold the tickets from   *)
(* the epoch on, one each: the assertions of notifier.hpp:132 and 164, and  *)
(* what makes the waits of 122-128 and 154-160 end.                         *)
Prewaiters ==
  {w \in Workers : /\ \/ npc[w] \in {"cancel", "commit"}
                      \/ At(w, "checkShared") \/ At(w, "checkDone") \/ At(w, "scan")
                   /\ Turn(w) <= 0}
TicketsInOrder ==
  /\ Cardinality(Prewaiters) = _state.waiters
  /\ {(_state.epoch + k) % EpochMod : k \in 0 .. _state.waiters - 1} = {epoch[w] : w \in Prewaiters}

(* While a task lies in a queue and no notification is on its way, either   *)
(* nobody sleeps, or some worker steals, or will before it sleeps: the      *)
(* two-phase wait of 1337-1366 and "the last thief ... will wake up another *)
(* thief worker to avoid starvation" of 1331-1335.                          *)
WillSee(w) ==
  \/ w \notin Prewaiters /\ pc[w] \in {"explore", "retry", "checkShared", "checkDone", "scan"}
  \/ pc[w] \in {"retry", "checkShared"}
  \/ pc[w] = "checkDone" /\ \E q \in Workers : queue[q] # <<>>
  \/ pc[w] = "scan" /\ \E q \in Workers : q >= _vtm[w] /\ queue[q] # <<>>
ThiefIsAwake ==
  /\ \E q \in Queues : queue[q] # <<>>
  /\ \A t \in Threads : npc[t] \in {"out", "cancel", "commit", "park", "parked"}
  => Asleep = {} \/ \E w \in Workers \ Asleep : WillSee(w)

(* A task waits or runs in one place at a time, after its predecessors and  *)
(* once per round (1600-1670): in a queue, a cache, or a worker's hands.    *)
InQueue(n) == UNION {{q} \X {i \in DOMAIN queue[q] : queue[q][i] = n} : q \in Queues}
InCache(n) == {<<w, "cache">> : w \in {v \in Workers : _cache[v] = n /\ pc[v] # "invoke"}}
InHands(n) == {<<w, "invoke">> : w \in {v \in Workers : node[v] = n /\ pc[v] = "invoke"}}
Places(n) == InQueue(n) \cup InCache(n) \cup InHands(n)
OnceInOrder ==
  \A n \in Nodes :
    /\ Cardinality(Places(n)) <= 1
    /\ Places(n) # {} => n \notin ran /\ Predecessors(n) \subseteq ran

(* When a topology is torn down without having been cancelled, all its      *)
(* tasks have run (1691-1700, 2164-2175).                                   *)
DrainedAtTearDown ==
  \A w \in Workers : pc[w] = "topology" => ran = Nodes \/ Head(topologies).cancelled

(* The destructor returns (1123-1136): every topology finishes, and every   *)
(* worker sees _done, asleep or awake.                                      *)
DestructorReturns == <>(pc[Owner] = "destroyed")
=============================================================================
