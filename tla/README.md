# Verification of mux-

`mux-` is an experimental C++20 HTTP/socket library for macOS (kqueue).  This
directory holds TLA+ modules translated from its sources, the TLC configurations
that check them on small instances, and TLAPS proofs of what matters most for
every instance.  `PROJECT.json` lists runs, mutants, theorems, hazards and, for each
definition, the source lines it stands for.

    tlc -workers 2 -config PollServer_progress.cfg MCPollServer
    tlapm PollServerProofs.tla

## 1. Inventory

| Component | Source | State it keeps | Operations | Modelled in |
|---|---|---|---|---|
| Event loop and shipped server | `src/kqueue.cc`, `Socket/Poller/Helpers.hpp` | the batch of events | one `kevent()`, then accept / read handler / write handler per event | `PollServer` |
| ClientSocket | `Socket/ClientSocket.hpp` | descriptor, reader / writer / connected flags | accept, read, write, close, set/removeReader/Writer, destructor | `ClientSocket` (any caller), `PollServer` (as the loop uses it) |
| SocketBase | `Socket/Poller/Server.hpp` | listening descriptor, kqueue, `clientFds_` | constructor, handler, closeSocket, destructor | handler and closeSocket: `PollServer` |
| KqueueSocket | `Socket/SocketBase/Kqueue.hpp` | as SocketBase, listener edge-triggered | as SocketBase | `KqueueServer` |
| EpollSocket, io_uring | `Socket/SocketBase/` | as SocketBase | as SocketBase | - (see section 6) |
| ThreadPool | `Socket/ThreadPool.hpp` | task queue, `stop_`, threads | constructor, addTask, workerThread, destructor | `ThreadPool` |
| Generator, `fibonacci_sequence` | `Socket/Generator.hpp` | `full_`, coroutine handle, promise | `bool`, `()`, destructor, copies | `Generator`, `Fibonacci` |
| echo server | `src/Socket.cc` | vector of clients | accept, echo, close | `EchoServer` |
| HttpMiddleware | `mux/Listener.hpp` | a handler all threads share | accept loop, one detached thread per connection | `HttpMiddleware` |
| Request, HTTPHeader | `mux/` | parsed fields, header map | constructors, setters, `parse` | `Request` |
| match | `src/dynamic.cc` | the caller's map of parameters | template against URL | `Template` |
| Taskflow | `taskflow/core/` | task graphs, queues, notifier, workers | run, cancel, worker loop, destructor | `TaskQueue`, `Notifier`, `Executor` |
| Router, App, Response, Socket of `mux/HTTP.hpp`, Day, ada, tables, tests | - | - | - | - (see section 6) |

How they interact.  `main` of `kqueue.cc` owns one `SocketBase` and calls `handler`
for ever.  `handler` calls `pollingHandler`, which blocks in `kevent()`, then walks
the batch it returned: an event of the listener makes a `ClientSocket`, whose
`accept` registers the new descriptor with the same kqueue, and files it in
`clientFds_`; any other event looks the client up, calls the read or the write
handler with it, and calls back `closeSocket` when the handler returns a negative
number.  `KqueueSocket` is a second such loop around the same `ClientSocket`.
Everything there runs on one thread; what interleaves with it is the kernel and the
peers, between any two system calls.  `ThreadPool` is self-contained; so are
`HttpMiddleware`, the echo server, `Request` and `match`.  In Taskflow the executor's
workers share work-stealing queues and sleep on one notifier.

What is hard.  A batch is stale as soon as its first event is handled: descriptors
in it may be closed, and their numbers handed out again, before their events are
dispatched.  Three tables must agree - the kernel's descriptors, the kqueue
registrations and the map of clients - while `shutdown`, `setsockopt`, `kevent` and
`send` may each fail half-way.  In the pool and the executor: wake-ups between test
and sleep, tasks that submit tasks while a destructor waits, an array replaced under
a thief that reads it.  In the sequential parts: calls in an order nobody wrote a test
for, and exceptions half-way through.  The full list, each hazard at its line and with
the properties that would catch it, is under `hazards` in `PROJECT.json`.

## 2. Modules

| Module | What it is |
|---|---|
| `PollServer` | kqueue.cc + SocketBase::handler/closeSocket + pollingHandler + ClientSocket, with the kernel and the peers as its environment |
| `ConnService` | what that server promises: admit, answer, release |
| `PollServerProofs` | the inductive invariants of `PollServer` and its theorems |
| `ClientSocket` | the class: several objects on one listener and one kqueue, methods in any order |
| `KqueueServer` | `KqueueSocket`'s loop; EXTENDS `ClientSocket`, and implements its specification |
| `KqueueServerProofs` | the inductive invariant of `ClientSocket` and its theorems; that the server implements it, and the map of clients |
| `ThreadPool` | ThreadPool.hpp, with mutex and condition variable as the standard defines them |
| `TaskPool` | what a pool promises: FIFO starts, each task once, gone only when drained |
| `ThreadPoolProofs` | the inductive invariants of `ThreadPool`, its theorems and the refinement of `TaskPool` |
| `Generator` | the cache protocol between Generator objects and a coroutine frame |
| `ValueStream` | what a generator promises: values in order, then an end |
| `Fibonacci` | `fibonacci_sequence` as a body for `Generator`, in 64-bit arithmetic |
| `ObjectProofs` | safety and the refinement of `ValueStream` for any body; what `fibonacci_sequence(n)` yields for any n; the two properties of `Request` for any texts |
| `Request`, `Template` | `Request::parse` with the fields it reads and writes; `match`, with `matchRoute` beside it |
| `EchoServer`, `HttpMiddleware` | the echo server and the thread-per-connection server |
| `EchoServerProofs`, `HttpMiddlewareProofs` | their inductive invariants and theorems |
| `TaskQueue` | tsq.hpp, one load, store or exchange a step |
| `WorkQueue` | what a work-stealing queue promises: each operation in one step |
| `TaskQueueProofs` | the inductive invariant of `TaskQueue` and the refinement of `WorkQueue` |
| `Notifier` | notifier.hpp: the event count, one atomic operation a step |
| `Executor` | executor.hpp: run_n, cancel, the worker loop and the destructor, on `Notifier` and on queues as `WorkQueue` promises them |
| `ExecutorProofs` | the inductive invariants of a round of tasks and of the notifier, and their theorems |
| `MCxxx` | instances for TLC |

Operators whose names end in `_Something` (`CloseClient_KeepsEntry`) are faulty
variants of the definition that follows them; no specification uses them.  Each
property of a passing run is violated when its variant replaces the original.

### PollServer

`pc` is where the server's thread is, with one action per stretch of code between
two points at which the peers can make a difference:

| Action | Code |
|---|---|
| `Poll` | `kevent()`: everything ready becomes `events_` |
| `AcceptNothing`, `Accept` | listener event, `::accept` in `defaultAcception` |
| `AcceptFails`, `Register`, `RegisterFails` | the rest of `defaultAcception` and `ClientSocket::accept`, and `clientFds_[clientFD] = clientSock` |
| `DispatchRead`, `DispatchWrite` | `clientFds_[fd]` (which inserts a null client when there is none) and the call of a handler |
| `ReadData`, `ReadNothing` | `ClientSocket::read` and the three-way test on its result |
| `Reply`, `ReplyFails` | `ClientSocket::write` and the end of the read handler |
| `CloseClient`, `CloseNull`, `CloseServer` | `closeSocket`: of a client, of a null client, of descriptor 0 |
| `Connect`, `Send`, `Finish`, `Reset`, `ResetQueued` | the peers |

The state: `sock` (kernel: which connection a descriptor stands for), `kq`
(registrations), `clientFds_`, and of each `ClientSocket` its `clientFd_`, named by the
connection it accepted.  Its flags `isReader_`, `isWriter_` and `isConnected_` are set
together by a successful `accept` and cleared together by `close`, so `clientFd_ # -1`
stands for all three (`ClientSocket` models them apart).

Abstractions.  Request bytes are chunks, of which one `recv` returns any positive
number; requests and responses have no content, as the server never looks at it.
`events_` is a set, since the kernel promises no order; room for 64000 events exceeds
the registrations.  Descriptor 0 is open and not a socket, so `shutdown` on it fails
and whether it is ready is anybody's guess.  `accept` hands out the lowest free
descriptor.  Deleting a registration of an open descriptor succeeds; `::close` drops
what is registered.  The listener is never reported for writing.  A peer resets a
connection only once (`Reset`), and what it had sent stays readable; `send` to it
fails or raises SIGPIPE, which nothing in the program ignores (`killed`).

`Faults` names the calls that may fail although the peer is well: `setsockopt` (any of
the option calls in `defaultAcception`), `kevent` (registering), `send` (buffer full).
`WriteResults` is what the write handler may return: the shipped one returns 1.

### ClientSocket and KqueueServer

A method of `ClientSocket` is one step: a reset in the middle of one has the outcome of
a reset just before it.  `accept()` has four ends: `AcceptReset` (an option call fails on
a connection that was reset, which stays open), `AcceptStdin` (it fails on a healthy one:
`safetyClose` closes that and returns 0, and the object goes on, connected, on descriptor 0),
`Accept`, and `AcceptUnregistered` or `AcceptStdinFails` (a registration fails).  Objects on
descriptor 0 own no connection.  Several may be on it: they share its registrations, so that one
that closes leaves flags set that stand for nothing, which is why `FlagsMatchKernel` speaks of the
descriptors of connections; `OwnDescriptor` says what there is to say of the others, that
their connection is closed and they work on nobody else's.  `Released` is what `close()` does to the kernel, with the `||` of
line 170 (a reader that cannot be removed leaves the writer alone) and `safetyClose`'s
early return.  `mine` and `failed` remember what an object accepted last and whether
that failed.  `Habits` is what callers do besides what the two event loops do: keep an
object whose `accept()` failed, accept again, register a closed object.  With any of
them the properties do not hold; with none they do, and that `KqueueServer` has none is
its refinement property `ImplementsClient`.

`KqueueServer` adds the map, the batch and the edge.  The constructor's two
registrations each wait for an event and consume the edge, so the first
two arrivals stay queued behind later ones.  The handlers are a user's: they return any
result, and report a client that is not connected.  A client on descriptor 0 is filed under 0
and replaces the one filed there before, whose destruction (`Filed`, `Drop`) removes the
registrations the new one has just made; `shutdown(0)` fails, so that it takes two calls of
`closeSocket(0)` to erase it.  `NullClient` is the null pointer that
`clientFds_[fd]` inserts for a client closed earlier in the batch (line 234); the model
follows it to the crash and goes no further.

### ThreadPool

One action per critical section or per call on the mutex, the condition variable or a
thread.  `wait()` with its predicate is the loop of `Wait` (predicate false: unlock and
sleep in one step), `NotifyOne`/`NotifyAll`/`SpuriousWakeup` (awake, must lock again) and
`WorkerLock`.  Clients and running tasks call `addTask` for the tasks in `Calls`.  The
owner may destroy the pool once no client is in `addTask` or will call it, as the
language requires; tasks may still submit.

### Generator, Fibonacci, Request, Template

These have no threads; one run, `Objects_uses`, takes each through sequences of calls.

`Generator`: the frame is at its start, suspended at a yield, ended, or destroyed; the
promise holds a value and perhaps an exception; each object sharing the handle has its
own `full_`.  Careful callers write `while (gen) use(gen())`.  Careless ones
(`Habits`: get without asking, go on after an exception, copy) are modelled up to the
first resumption or destruction of a finished frame, which is undefined.
`Fibonacci` gives the body of `fibonacci_sequence(n)`, with 64-bit numbers as four
limbs of 16 bits, since TLC's integers have 32.

`Request`: a text is its first line, by what `>>` makes of it, and the lines after it as
`getline` returns them.  `parse` is followed statement by statement through every
`throw`, with the members assigned up to there kept.  `host` is looked up before any
header has been read, so what it finds is what an earlier call or a setter left, and the
`\r` that ends HTTP's lines is not removed: only a text whose lines end in `\n` alone
ever gets past the headers.  `getHeader` inserts an empty entry for a header that is not there
(`UseHeaders`); of the headers only `Host` has a value that is used.

`Template`: `match` makes a regular expression of the template and pairs the i-th
parameter with the i-th capture.  `matchRoute`, which the file keeps as a comment, compares
segment by segment after `splitPath` has dropped the empty ones; where each segment of the
template is literal or one parameter, `match` answers the same, but refuses the URLs with an
empty segment (`/x/`, `//x`), which `matchRoute` takes.

### EchoServer, HttpMiddleware

`EchoServer`: line 84 passes the listener's change with count 2 where the client's was
meant, so what is registered is read from memory behind the array: a nondeterministic
choice among the outcomes (nothing, the client, a refusal).  These are the outcomes if that
memory is another kevent of `main` or something `kevent` refuses; a change of another filter or
of another descriptor is not modelled, and `EventsAreOwned` would not survive a write filter.
Sockets block: a connection reset between `kevent()` and `accept()` leaves the thread in
`accept()`, and a peer that does not read its answers (`full`) leaves it in `send()`.

`HttpMiddleware`: `Accept` takes a connection and starts its thread; a thread receives
once, calls the handler if there was anything, closes.

### TaskQueue, Notifier, Executor

`TaskQueue`: `_top`, `_bottom` and the arrays per priority, one step per access that
another thread can tell; what only the owner writes it reads with the step that needs
it.  An array that push has replaced stays readable, as in `_garbage`.  `Deque` is the
refinement mapping: from `_top` to `_bottom` as it is outside of a pop.

`Notifier`: `_state` is a record of an epoch modulo `EpochMod`, the number of waiters
in pre-wait and the top of the stack.  `Executor` starts its calls and goes on when they
end, so every interleaving of two notifier operations is there.  A load and the compare-exchange
after it are one step where nothing else is read in between: if the exchange fails, the loop
starts again from what it found.  The pop of `notify` reads a waiter's `next` in between, and its
load, that read and its exchange are three steps.

`Executor`: static tasks with strong dependencies, any number of submissions of one
taskflow, each with repeats, and cancel.  A topology's counter, the join counters, the
worker's cache, the shared queue under its lock, the two-phase wait with its second
look, and the teardown that starts the next topology are all kept.  A steal is one step; a
thief that loses its exchange to another worker finds nothing, although tasks may be left
(`Outruns`).

Both assume sequentially consistent atomics: TLA+ steps are totally ordered, so a missing
fence would not be seen.

## 3. What the runs check

| Run | Instance | Question |
|---|---|---|
| `PollServer_service` | 3 connections, 2 descriptors, 1 chunk each, no reset, no fault, fairness | implements `ConnService` with its fairness; `NoDescriptorLost` |
| `PollServer_progress` | 3 connections, 1 descriptor, resets, full send buffers, fairness | `NullNeverUsed`, `AnswersAreOwed`, `CloseOnlyAfterHangup`; `HangupForgotten`, `QueueServed` |
| `PollServer_faults` | 3 / 2 / 1, every fault, write handler may return -1 | `MapOwnsSockets`, `RegisteredIffClient`, types |
| `PollServer_leak` | resets | **violated**: `NoDescriptorLost` |
| `PollServer_exit` | setsockopt may fail | **violated**: `ClientNeverClosesServer` |
| `KqueueServer_faults` | 5 connections, 2 descriptors and descriptor 0, one hang-up, failing options and registrations, any handler | implements `ClientSocket`; `OwnDescriptor`, `FlagsMatchKernel`, `MapOwnsSockets`, `NoDescriptorLost` |
| `ThreadPool_pool` | 3 workers, 2 clients, 4 tasks (one submitted by a task), 2 spurious wake-ups, fairness | implements `TaskPool` with its fairness; `DestructorReturns`, `NoLostWakeup`, `NobodySleepsAfterStop`, `DrainedAtJoin`, no deadlock |
| `Objects_uses` | generators of up to 3 yields and `fibonacci_sequence(n)` for n in 0..4 and 93..97; any calls of a `Request`, with ten texts; two calls of `match` on templates and URLs of up to two segments | `NeverBroken`, `ImplementsStream`, `YieldsFibonacci`; `UrlServesOneText`, `BodyOnlyOnSuccess`; `NamesGetTheirText` |
| `Echo_resets` | 3 connections, 2 descriptors, resets, batches of up to 3, fairness | `ListMatches`, `EventsAreOwned`, `FinishedIsClosed` |
| `Middleware_progress` | 3 connections, 2 descriptors, backlog of 2, fairness | `OneThreadEach`, `EveryoneLeaves` |
| `Executor_run` | 2 workers, a task with two successors, submitted once and then twice, cancel, epochs modulo 64, fairness | `SleepersHeld`, `TicketsInOrder`, `ThiefIsAwake`, `OnceInOrder`, `DrainedAtTearDown`, `DestructorReturns`, no deadlock |
| `TaskQueue_steals` | 3 tasks of 2 priorities, 2 thieves, first array of one | implements `WorkQueue`; `NullOnlyWhenEmpty`, `EmptyOverlooksNone` |

What the less obvious ones say.

* `CloseOnlyAfterHangup`: a live connection is never closed, whatever a stale event
  says; what a finishing peer sent is received first.
* `QueueServed`: a connection that waits is accepted, unless from some time on every
  descriptor is lost or held by a peer that stays.
* `AnswersAreOwed`: responses sent and data still to be answered never outnumber what the
  peer sent.
* `NoLostWakeup`: while a worker sleeps, queued tasks never outnumber workers that come
  back and notifications to come.
* `FinishedIsClosed`: a registered client of the echo server that finishes is closed, unless
  the loop is stopped for good: after a reset, in `accept` or by SIGPIPE, or in a `send` to a
  peer that does not read.
* `UrlServesOneText`: `parse` reads the path the object already has (line 209), and leaves
  there a view of a string that is gone; so a text gets past its URL only if a path was given
  since the last text that did, even one that was then rejected.  What a call makes of the
  dangling view is undefined and exempt.
* `NamesGetTheirText`: a name of the template gets the text its parameter stands for, though
  `match` counts captures and segments separately.  It does not for a name behind a parameter
  inside a segment (`/x{id}/{name}`): then the text is that of an earlier segment, and the
  property says no more than that.
* `BodyOnlyOnSuccess`: a call that throws leaves the body of the earlier request.
* `ThiefIsAwake`: while a task lies in a queue with no notification on its way, either
  nobody sleeps or some worker will still see it before it does.
* `TicketsInOrder`: the threads in pre-wait hold the tickets from the epoch on, one each,
  so that none spins for ever for the one before it.
* `EmptyOverlooksNone`: `empty()` says so only if every task that was there when it began
  has been taken since, or is in the hand of the owner.

Bounds.  Three connections over two descriptors are the least that let a number be
reused while the other descriptor has events in the same batch, and leave one
connection in the queue with no descriptor free; over one, in `PollServer_progress`, every
later connection inherits the number.  One chunk is enough for data to be unread, in the
handler's buffer or answered.  Every connection is opened once: a connection has no history
beyond its own.  `KqueueServer` needs five connections for three to reach its loop, since the
constructor takes two arrivals; `Backlog` keeps at most three in the queue, and `HangUps` lets
one peer hang up, since handlers that fail close the other clients.  Three workers of the pool let one sleep, one run and one return at the same
time; four tasks let the queue hold more than one while a task submits another; spurious
wake-ups are bounded by `MaxSpurious` only to keep the count of them finite.  Two workers of
the executor are the least with a thief and a victim, a fork leaves one successor in the
cache and one in the queue, and a submission of two rounds behind one of one takes both
branches of the teardown; the epoch starts next to its wrap.  An array of one makes the
second and third push of a priority find it full.  `MaxCalls = 2` makes each call of `parse`
or `match` see what one before it left.

Deadlock is not checked for the servers, which rightly block when nothing is ready, nor
for the sequential objects and the queue, whose callers may stop; it is for `ThreadPool` and
`Executor`, where the only resting state is the end.

Symmetry is used only in runs without liveness properties.

### What the violations show

`PollServer_leak`.  A peer connects and resets.  `read` fails, `closeSocket` calls
`close`, whose `safetyClose` calls `shutdown`; that fails because there is no peer any
more, and `safetyClose` returns before `::close` (`ClientSocket.hpp:71-74`).
`closeSocket` erases the client regardless.  The descriptor stays open for the life of
the process, and nothing refers to it.  Without resets the property holds
(`PollServer_service`).

`PollServer_exit`.  An option call fails on a fresh connection; `defaultAcception`
returns what `safetyClose` returned, 0 on success (`ClientSocket.hpp:121,130,136`),
and `accept` goes on with 0 as its descriptor.  Descriptor 0 is registered and filed;
once it is readable, `recv` fails, and `closeSocket(0)` takes the branch meant for the
server and calls `exit`.

Other behaviour of the code that the models contain, and that no text of the repository
denies: a reset during a response ends the process by SIGPIPE; `KqueueSocket` accepts one
connection per edge, so that of several arriving together all but one wait for the next,
and takes a null client for one closed earlier in the batch; the echo server sends the
answer of a fixed response and registers its clients by chance (line 84); `Request::parse`
rejects a text without a stored host, and every text in HTTP's own line ends.

## 4. Fairness

`PollServer`, `EchoServer`: weak fairness of the server's step.  There is one thread in a loop
without other waiting than system calls, which return when something is ready - a `send` of the echo
server when its peer has read enough, which no fairness promises; nothing is assumed of the peers, nor of the order within a batch - a batch is finite and each of its
events is consumed once, which is why a connection cannot be starved by others.
`ThreadPool`: weak fairness for each worker and each thread in `addTask`, for the
constructor and for a destructor that has begun.  This is the scheduler running whoever can
run.  No thread is promised the mutex against an endless stream of others, none is obliged
to destroy the pool, and no spurious wake-up is relied on.
`HttpMiddleware`: weak fairness of the accept loop and of each thread, and of each peer's
`Finish`: the code has no time limit on `recv`, so `EveryoneLeaves` is claimed only where no
peer stays silent for ever.
`Executor`: weak fairness of all threads together - some thread that can run runs.  That is
less than a scheduler gives, and enough: a worker that goes round finds less to do each time.
The owner is obliged to submit everything and to destroy the executor.

## 5. What is proved

Assumptions are the named `ASSUME`s of the modules: descriptors are positive numbers other
than the listener's, the marks are distinct from the connections, the sets of threads are
finite and disjoint, there is at least one worker, and a task is submitted in one place.

`PollServerProofs` (any connections, descriptors, number of chunks, faults and results of
the write handler).  The inductive invariant `IInv` joins the type invariant,
`MapOwnsSockets` and `RegisteredIffClient` with what these need to be inductive:
`QueueInv` (the accept queue holds each queued connection once, so `accept` never returns
one that has a descriptor), `SocketInv` (an open connection has one descriptor, so closing
one never takes another's), `StdinInv` (a client filed under 0 has lost its connection),
`SetupInv` (between `::accept` and registration the number has no client, since entries go
before descriptors do), `ServeInv` (the handlers run on a client of the map) and `DataInv`.
Theorems: `TypeCorrect`, `MapIsSound`, `RegistrationsMatch`.

The second half goes on from `IInv` to what a batch of events may still be trusted
with.  `OwedInv` adds to `AnswersAreOwed` that the handler's buffer is not empty when it
answers (`AnswersBounded`, no further assumption).  `BatchInv` says that a pending read event
is for a client in the map: only a client's own read event takes it out, and that event is no
longer pending then.  This needs `WriterContent`, a write handler that never asks for the
client to be closed, as kqueue.cc's; it gives `NoNullClient`.  `ReasonInv` says that a
pending read event still has its reason - data or a hang-up - which with `NoStdin` (nothing is
filed under 0 when only `send` fails, `OnlySendFails`) gives `ClosesOnlyAfterHangup`.  `KeptInv` is
`NoDescriptorLost` with the absence of resets; it gives `NothingLost` and, with the others,
`Survives`: peers that never reset cannot end the process.  The hypotheses of each theorem are
in its statement, and the two violation runs show that the last two fail without them.

Last, the refinement of `ConnService`.  `ServesInSteps`: with no faults, no resets, a content
write handler and finitely many descriptors, every step of the loop is a step of the service
or a stutter.  The mapping counts as pending what is unread and what the handler holds, so that
`readData` is a stutter and the response that follows answers all of it at once.  `HeldInv` says that
an open connection has a descriptor, so a free one is room for one more connection
(`RoomForOne`), and `accept` admits one; that `closeSocket` releases only a connection that has hung up
with nothing unread is `ReasonInv` again.

`KqueueServerProofs`, first `ClientSocket` (any number of objects, connections and descriptors; options and
registrations may fail; `Habits = {}`, which is what `KqueueServer` is shown to keep to).  `IInv` joins
`OwnDescriptor`, `FlagsMatchKernel` and `OpenIsOwned` with `Places` (a connection is not opened,
queued or accepted, in one place), `Distinct` (no two objects or descriptors share one),
`FailedObjects` (an object whose `accept` failed half-way owns its number no longer, or its peer
has reset, or it is on descriptor 0) and `Registrations` (each has an object connected to that descriptor).  The lemma
`Apart` carries the steps of `close` and of the destructor: two objects of which one is in
order, and not on descriptor 0, hold different numbers.

Then the loop.  `StepIsClientStep` shows by cases that each step of the loop is a step of
`ClientNext` or leaves its variables alone, from `ServerInv`: objects are named by their
connection (`Named`), the client the thread works on is a live one (`Held`), and an entry keeps its
descriptor from being reused, or is the one client on descriptor 0 that is not about to be
destroyed (`Entries`).  Hence `ServerIsClient`; with it everything proved of
the class holds of the server, and `EntriesOwnSockets` and `NothingLost` follow.

`ThreadPoolProofs` (any number of workers, clients, tasks).  `IInv` says who may hold the
mutex, and where threads can be once `stop_` is set; from it `NoneSleepsAfterStop` and
`Drained`.  The latter needs that a task pushed after `stop_` has a worker: the worker running
the task that pushed it has not returned, and does not return while the queue is not empty
(`QueueHasWorker`).  `WakeupsSuffice` (no lost wake-up) is a counting argument: each step
changes the queue and the number of coming and notifying threads together.
`ImplementsPoolSteps` shows that every step is a step of `TaskPool` or a stutter; it needs
`PlaceInv`, that a task is in one place only: in a `todo`, in an `adding`, queued, running or
ran.

`ObjectProofs` (any coroutine body, any number of objects that share it).  `GuardedIsSafe`: a
caller that asks before it gets never resumes or destroys a finished frame.
`GuardedIsStream`: to such a caller the generator is a `ValueStream`.  The invariant says that
`full_` is set exactly while the promise's value is not yet delivered.

`YieldsItsNumbers`: a careful caller of `fibonacci_sequence(n)`, for every n, gets the first n
Fibonacci numbers untruncated, and 94 is the right limit.  It is a proof by induction over data, and
goes as follows.  The library's induction theorems have an operator for a parameter and cannot be
used, but the natural numbers are well-founded (`NatLessThanWellFounded`, `WFMin`), which gives
induction for sets (`Induction`) and a solution of any recursion (`Iterates`).  `Pair` and `Loop`
are CHOSEN functions: that they obey their equations is proved by exhibiting a function that does
(`PairIs`, `LoopIs`).  The column sums of `Exact` add the numbers that the limbs stand for
(`WideAdds`), and a number has no fifth limb just if it is below 2^64 (`FifthLimb`).  Ten elements on
the sequence is `34a + 55b` (`Ten`), which leads to the 63rd and 64th element and from there to 94th
< 2^64 <= 95th (`Sizes`, `Grows`).  So the values of the coroutine are the elements
(`YieldsElements`), and `CInv` says that the caller has a prefix of them, all of them when it is told
so.

Of `Request`, for any texts: `NoUrlServesTwoTexts` rests on the invariant that a path that can be
looked at was given since a text last got past its URL (`PathIsGiven`), and `ThrowsKeepBody` goes
through the branches of `parse`.

`EchoServerProofs`.  `IInv` adds to `ListMatches` and `EventsAreOwned` that an event of the batch
is for a registered descriptor that is open, that a batch has one event for each, and that the
thread's own descriptor is not among those still pending.  `ListIsRight` and `NoStaleEvent` hold
whatever the array read past its end registers.

`HttpMiddlewareProofs`.  `ThreadsOwnConnections`, for any number of connections and descriptors:
the thread of a connection and its descriptor name each other, a connection is queued or has a
thread but not both, and a queued one is queued once.


`TaskQueueProofs` (any number of thieves, tasks and priorities, any first capacity).
`QueueIsWorkQueue`: every push, pop and steal takes effect in one step, a push when it
publishes `_bottom`, a pop when it finds more than one task or wins the exchange, a steal when
it wins the exchange; all other steps are stutters of `WorkQueue`.  The refinement mapping
reads the deque off `_top`, `_bottom` and the last array, with `_bottom + 1` while a pop has
lowered it (`End`).  `IInv` says that this window lies in the array (`Window`), that a push has
room from `store` on (`Pushing`), what a pop knows of the levels it left behind (`Popping`), and
that a thief *whose exchange would succeed* has the oldest task, read from whichever array it
loaded (`Stealing`).  `Shrinks` and `Spares` say what steps of one thread mean to the others; two
indices share a place in an array of `C` only if they are `C` apart (`PlacesDiffer`), so
`GrowKeeps` and `StoreKeeps` overwrite nothing.  `NullMeansEmpty`: levels found empty by a pop
stay so, as only the owner adds to them.  `EmptyIsRight` adds to the invariant what a thief in
`empty()` has seen (`Looking`): a task that was there when it began is in no level it has passed,
and below the `_bottom` it loaded of the one it looks at, or else it is the one the owner's pop has
lowered `_bottom` to (`Hand`).  `StaysOrComes` is the fact about all steps behind it: what is in the
queue after a step was there before at the same index, or is the task whose push the step ends.

`ExecutorProofs` (any number of workers, any graph without a cycle, any submissions, repeats and
cancellations).  `EachTaskOnceInOrder` and `EveryTaskRan`.  `IInv` says that queues, caches and
hands share no task (`Apart`); that a join counter is the number of predecessors that have not run
or have not told the task yet, or, of a task that has run, the full number for the next round, and
that a task is to run or has run as soon as it waits for nothing (`Rounds`); and that the
topology's counter is the number of tasks to run or not yet counted off (`Counts`), so that it
reaches zero once, in one worker.  Then nothing is to run, so every task that has not run
waits for another that has not, which `AcyclicAssumption` excludes (`AllRan`).  Cycles through
condition tasks, which Taskflow allows for (`executor.hpp:1607`), are not modelled; tasks on a
cycle of strong dependencies never run.  After a
cancellation only the part of this holds that the next submission relies on: the counters, and
that nothing is left to run.

Its second half is about the notifier, for any number of workers and any number of
epochs above twice that: `TicketsHold`, `NoSleeperLost` and `ThievesAwake`.  `Moves` sorts every step of the executor into a step
inside the notifier, the beginning of a call by a thread that is in none, or none of its business;
so what follows holds of any client that calls it as the executor does.  `NInv` adds to the two
properties that a thread in pre-wait and not notified is `Turn` tickets from its turn, with the
turns 0, -1, ... taken once each (`Tickets`); that no waiter is linked behind itself (`Lists`); and
why notify may read a waiter's `next` before its exchange (`Glimpse`): while the epoch stands still
nobody pushes, so the waiter seen at the top is there still, over the same rest, or has gone.
`Linked` is the least closed set, with `LinkedLeast` for induction; `SleepersPush`, `-Taken`,
`-Detached` and `-Signalled` say what each kind of step does to the lists.  The three theorems assume
`[]Punctual`: no notified pre-waiter, and no notifier between the load and the exchange of a pop, lags behind
by half of all epochs.  The algorithm needs it - after 2^31 epochs a ticket that has passed
looks like one to come, after 2^32 an exchange succeeds over a stack that has changed - and it
is no assumption on the scheduler short of that; on the instance of `Executor_run`, with 64 epochs, TLC
finds `Punctual` and `NInv` true in every state.

`ThievesAwake` joins the halves.  `Watching` says of each queue with a task, once no notification is
on its way (`Settled`), that nobody is idle - in pre-wait and not notified, or asleep - or that some
worker sees that queue: it is about to steal, or it is idle but has yet to look at that very queue.
`WInv` adds where a worker in a call of the notifier can be (`Placed`), that the scan is among the
workers' queues (`Scanning`), and that `_done` means no topology is left (`Closing`), so that the
worker that leaves instead of stealing leaves no task behind.  A step outside the notifier either
begins a notification or moves one worker (`PlainWatches`); inside, nobody becomes idle (`InsideIdle`),
and the step that ends the last notification has found nobody idle (`NobodyIdles`), has let the
first in pre-wait pass (`PrewaitNotified`) or has signalled the last of a list (`LastSignalled`).

Only model-checked.  Everything under fairness (`HangupForgotten`, `QueueServed`,
`FinishedIsClosed`, `EveryoneLeaves`, `DestructorReturns`, and the progress parts of
`ImplementsService` and `ImplementsPool`) is out of the prover's reach, as is what the folds of `Template`
compute for every template and URL (`NamesGetTheirText`): they take operators for parameters.

## 6. Not modelled

* Router, Route, App: registering appends to a list that only printing reads; the repository
  dispatches no request to a route, so there is no behaviour to state a property of.
* `Socket` of `mux/HTTP.hpp`: its first client event resumes and destroys a coroutine handle
  made from a promise that is in no coroutine frame, before any state a model could go on from.
* Response, `Request::toString`: setters of unrelated fields and formatting nothing reads back.
* SocketBase's and KqueueSocket's constructors' early returns and destructors: they run once,
  before and after everything else; the constructor's two registrations are in `KqueueServer`.
* EpollSocket cannot be compiled, as `ClientSocket` includes `<sys/event.h>` on every platform, and
  repeats `KqueueSocket`'s logic; the io_uring file is included by nothing and uses members its
  class does not have.
* Day: no build target compiles it, and it keeps no state.
* ada (two vendored files, 22 900 lines), status and content-type tables, tests and samples.
* The rest of Taskflow: subflows, conditions, modules, async and runtime tasks, semaphores,
  exceptions, observers, corun, and the parallel algorithms and pipelines built from them.
  The three files modelled are those everything else stands on.  Weak memory orders of the
  atomics are not modelled.

Most lines of the repository are vendored (ada, Taskflow), so the share of lines the map
names is small; of the program's own code what keeps state is modelled but for the list above.
