--------------------------- MODULE HttpMiddleware ---------------------------
(***************************************************************************)
(* mux/Listener.hpp: start() accepts for ever and gives every connection to *)
(* a detached thread, which receives once, calls the handler all threads    *)
(* share if there was anything, and closes the descriptor.                  *)
(***************************************************************************)
EXTENDS Integers, Sequences, SequencesExt

CONSTANTS
  Conns,   \* connections, each opened once
  Fds,     \* descriptors accept may return
  Backlog, \* listen(serverSocket, 5)
  Nobody   \* owner of a closed descriptor

ASSUME BacklogAssumption == Backlog \in Nat \ {0}
ASSUME NobodyAssumption == Nobody \notin Conns \cup Fds

VARIABLES
  peer,          \* per connection: "none", "open", "finished", "reset"
  arrived,       \* per connection: bytes have arrived and are not read
  queue,         \* connections that wait for accept
  owner,         \* kernel: connection of a descriptor
  clientSocket,  \* per connection: what its thread captured, or Nobody
  thread,        \* per connection: "none", "recv", "handle", "close", "gone"
  handled        \* history: connections whose request the handler was given

vars == <<peer, arrived, queue, owner, clientSocket, thread, handled>>
server == <<owner, clientSocket, thread, handled>>

Init ==
  /\ peer = [c \in Conns |-> "none"] /\ arrived = [c \in Conns |-> FALSE]
  /\ queue = <<>>
  /\ owner = [f \in Fds |-> Nobody]
  /\ clientSocket = [c \in Conns |-> Nobody]
  /\ thread = [c \in Conns |-> "none"] /\ handled = {}

-----------------------------------------------------------------------------
\* Peers.  A connection beyond the backlog is refused.
Connect(c) ==
  /\ peer[c] = "none" /\ Len(queue) < Backlog
  /\ peer' = [peer EXCEPT ![c] = "open"] /\ queue' = Append(queue, c)
  /\ UNCHANGED <<arrived, server>>

Send(c) ==
  /\ peer[c] = "open" /\ arrived' = [arrived EXCEPT ![c] = TRUE]
  /\ UNCHANGED <<peer, queue, server>>

Finish(c) ==
  /\ peer[c] = "open" /\ peer' = [peer EXCEPT ![c] = "finished"]
  /\ UNCHANGED <<arrived, queue, server>>

Reset(c) ==
  /\ peer[c] \in {"open", "finished"} /\ peer' = [peer EXCEPT ![c] = "reset"]
  /\ arrived' = [arrived EXCEPT ![c] = FALSE]
  /\ \/ queue' \in {RemoveAt(queue, i) : i \in {k \in DOMAIN queue : queue[k] = c}}
     \/ c \notin ToSet(queue) /\ UNCHANGED queue
  /\ UNCHANGED server

-----------------------------------------------------------------------------
\* accept() and the start of a thread; without a descriptor accept() fails
\* and is called again, which changes nothing.
Accept(f) ==
  /\ queue # <<>> /\ owner[f] = Nobody
  /\ LET c == Head(queue)
     IN  /\ owner' = [owner EXCEPT ![f] = c]
         /\ clientSocket' = [clientSocket EXCEPT ![c] = f]
         /\ thread' = [thread EXCEPT ![c] = "recv"]
  /\ queue' = Tail(queue)
  /\ UNCHANGED <<peer, arrived, handled>>

\* The connection a thread's descriptor stands for when it is used.
Used(c) == owner[clientSocket[c]]

\* recv() > 0, of what is there; what comes later is never read.
RecvData(c) ==
  /\ thread[c] = "recv" /\ Used(c) # Nobody /\ arrived[Used(c)]
  /\ arrived' = [arrived EXCEPT ![Used(c)] = FALSE]
  /\ thread' = [thread EXCEPT ![c] = "handle"]
  /\ UNCHANGED <<peer, queue, owner, clientSocket, handled>>

\* recv() is 0 or -1.
RecvNothing(c) ==
  /\ thread[c] = "recv" /\ Used(c) # Nobody
  /\ ~arrived[Used(c)] /\ peer[Used(c)] # "open"
  /\ thread' = [thread EXCEPT ![c] = "close"]
  /\ UNCHANGED <<peer, arrived, queue, owner, clientSocket, handled>>

\* Faulty variant: the loop closes the descriptor as well.
Handle_ClosesFirst(c) ==
  /\ thread[c] = "handle"
  /\ handled' = handled \cup {c}
  /\ owner' = [owner EXCEPT ![clientSocket[c]] = Nobody]
  /\ thread' = [thread EXCEPT ![c] = "close"]
  /\ UNCHANGED <<peer, arrived, queue, clientSocket>>

\* requestHandler returns.
Handle(c) ==
  /\ thread[c] = "handle"
  /\ handled' = handled \cup {c}
  /\ thread' = [thread EXCEPT ![c] = "close"]
  /\ UNCHANGED <<peer, arrived, queue, owner, clientSocket>>

\* Faulty variant: close() only after a request.
Close_OnlyHandled(c) ==
  /\ thread[c] = "close"
  /\ owner' = IF c \in handled THEN [owner EXCEPT ![clientSocket[c]] = Nobody] ELSE owner
  /\ thread' = [thread EXCEPT ![c] = "gone"]
  /\ UNCHANGED <<peer, arrived, queue, clientSocket, handled>>

Close(c) ==
  /\ thread[c] = "close"
  /\ owner' = [owner EXCEPT ![clientSocket[c]] = Nobody]
  /\ thread' = [thread EXCEPT ![c] = "gone"]
  /\ UNCHANGED <<peer, arrived, queue, clientSocket, handled>>

Thread(c) == RecvData(c) \/ RecvNothing(c) \/ Handle(c) \/ Close(c)

Next ==
  \/ \E f \in Fds : Accept(f)
  \/ \E c \in Conns : Thread(c) \/ Connect(c) \/ Send(c) \/ Finish(c) \/ Reset(c)

Spec == Init /\ [][Next]_vars

\* Threads and the loop are scheduled; a peer does not stay silent for ever.
FairSpec ==
  /\ Spec
  /\ WF_vars(\E f \in Fds : Accept(f))
  /\ \A c \in Conns : WF_vars(Thread(c)) /\ WF_vars(Finish(c))

-----------------------------------------------------------------------------
Working(c) == thread[c] \in {"recv", "handle", "close"}

(* While numbers are reused, a thread reads, answers and closes its own      *)
(* connection and no other, and no descriptor is open without a thread      *)
(* (lines 44-71).                                                           *)
OneThreadEach ==
  /\ \A c \in Conns : Working(c) => clientSocket[c] # Nobody /\ owner[clientSocket[c]] = c
  /\ \A f \in Fds : owner[f] # Nobody => Working(owner[f]) /\ clientSocket[owner[f]] = f

(* With peers that do not stay silent every connection is accepted and      *)
(* closed, although accept() fails while all descriptors are in use.        *)
EveryoneLeaves ==
  \A c \in Conns : (peer[c] # "none") ~> (~Working(c) /\ \A i \in DOMAIN queue : queue[i] # c)
=============================================================================
