----------------------------- MODULE EchoServer -----------------------------
(***************************************************************************)
(* src/Socket.cc: one thread, a kqueue, blocking sockets.  Line 84 hands    *)
(* kevent() the listener's change with count 2: the second change is read   *)
(* from the memory behind it, so what is registered is up to the build.     *)
(* Taken to be there: another kevent of main(), or what kevent() refuses.   *)
(* clientChanges[0] registers the client; events[0] is for a descriptor     *)
(* registered before or, when that was closed since, for none or for the    *)
(* client that got its number.                                              *)
(***************************************************************************)
EXTENDS Naturals, FiniteSets, Sequences, SequencesExt

CONSTANTS
  Conns,        \* connections, each opened once
  Fds,          \* descriptors accept may return
  Resets,       \* whether peers may reset
  Listener,     \* serverFd
  Free,         \* owner of a descriptor nobody holds
  BatchSize,    \* events of one kevent(): 10
  MaxData       \* bound: bytes of a peer not read yet

ASSUME ResetsAssumption == Resets \in BOOLEAN
ASSUME NamesAssumption == Free \notin Conns /\ Listener \notin Fds
ASSUME SizesAssumption == BatchSize \in Nat \ {0} /\ MaxData \in Nat

VARIABLES
  peer,       \* per connection: "none", "open", "finished", "reset"
  unread,     \* per connection: bytes the server has not read
  full,       \* connections whose peer has read too little for another answer to be sent
  queue,      \* connections not accepted yet
  owner,      \* kernel: connection of a descriptor
  registered, \* descriptors with a read registration
  clientFds,  \* the vector, of which the order is never seen: how often it has each descriptor
  events,     \* rest of the batch: descriptors, Listener for the server's
  pc,         \* "wait", "dispatch", "accept" (blocked in it), "reply", "killed"
  got,        \* recv: bytes to answer, 0 at end of stream
  fd          \* the descriptor being answered

vars == <<peer, unread, full, queue, owner, registered, clientFds, events, pc, got, fd>>
environment == <<peer, unread, full>>

Init ==
  /\ peer = [c \in Conns |-> "none"] /\ unread = [c \in Conns |-> 0] /\ full = {}
  /\ queue = <<>>
  /\ owner = [f \in Fds |-> Free] /\ registered = {} /\ clientFds = [f \in Fds |-> 0]
  /\ events = <<>> /\ pc = "wait" /\ got = 0 /\ fd = Listener

Clients == {f \in Fds : owner[f] # Free}
server == <<owner, registered, clientFds, events, pc, got, fd>>

-----------------------------------------------------------------------------
\* Peers.
Connect(c) ==
  /\ peer[c] = "none" /\ peer' = [peer EXCEPT ![c] = "open"]
  /\ queue' = Append(queue, c) /\ UNCHANGED <<unread, full, server>>

Send(c) ==
  /\ peer[c] = "open" /\ unread[c] < MaxData
  /\ unread' = [unread EXCEPT ![c] = @ + 1] /\ UNCHANGED <<peer, full, queue, server>>

Finish(c) ==
  /\ peer[c] = "open" /\ peer' = [peer EXCEPT ![c] = "finished"]
  /\ UNCHANGED <<unread, full, queue, server>>

\* It reads its answers.
Read(c) ==
  /\ c \in full /\ full' = full \ {c} /\ UNCHANGED <<peer, unread, queue, server>>

\* A reset drops what was not read, and a connection not yet accepted.
Reset(c) ==
  /\ Resets /\ peer[c] \in {"open", "finished"}
  /\ peer' = [peer EXCEPT ![c] = "reset"]
  /\ unread' = [unread EXCEPT ![c] = 0] /\ full' = full \ {c}
  /\ \/ queue' \in {RemoveAt(queue, i) : i \in {k \in DOMAIN queue : queue[k] = c}}
     \/ c \notin ToSet(queue) /\ UNCHANGED queue
  /\ UNCHANGED server

-----------------------------------------------------------------------------
Readable(f) == unread[owner[f]] > 0 \/ peer[owner[f]] # "open"
Ready == {f \in registered : Readable(f)} \cup (IF queue # <<>> THEN {Listener} ELSE {})

\* Faulty variant: a client is reported once per filter, as it would be if
\* line 84 registered the two changes prepared for it.
Wait_BothFilters ==
  /\ pc = "wait" /\ Ready # {}
  /\ \E batch \in [1 .. 2 -> Ready] : events' = batch
  /\ pc' = "dispatch"
  /\ UNCHANGED <<environment, queue, owner, registered, clientFds, got, fd>>

\* kevent() without changes: up to BatchSize events, in any order.
Wait ==
  /\ pc = "wait" /\ Ready # {}
  /\ \E n \in {k \in 1 .. BatchSize : k <= Cardinality(Ready)} :
       /\ n = BatchSize \/ n = Cardinality(Ready)
       /\ \E batch \in [1 .. n -> Ready] : IsInjective(batch) /\ events' = batch
  /\ pc' = "dispatch"
  /\ UNCHANGED <<environment, queue, owner, registered, clientFds, got, fd>>

Done ==
  /\ pc = "dispatch" /\ events = <<>> /\ pc' = "wait"
  /\ UNCHANGED <<environment, queue, owner, registered, clientFds, events, got, fd>>

\* accept() blocks when the connection has gone since kevent().
AcceptBlocks ==
  /\ pc = "dispatch" /\ events # <<>> /\ Head(events) = Listener /\ queue = <<>>
  /\ pc' = "accept"
  /\ UNCHANGED <<environment, queue, owner, registered, clientFds, events, got, fd>>

AtAccept == (pc = "dispatch" /\ events # <<>> /\ Head(events) = Listener) \/ pc = "accept"

AcceptFails ==
  /\ AtAccept /\ queue # <<>> /\ Clients = Fds
  /\ events' = Tail(events) /\ pc' = "dispatch"
  /\ UNCHANGED <<environment, queue, owner, registered, clientFds, got, fd>>

\* The second change is refused: the connection is closed at once.
AcceptRefused ==
  /\ AtAccept /\ queue # <<>> /\ Clients # Fds
  /\ queue' = Tail(queue) /\ events' = Tail(events) /\ pc' = "dispatch"
  /\ UNCHANGED <<environment, owner, registered, clientFds, got, fd>>

\* The second change is accepted: it registers the client, or changes nothing.
Accepted(f) ==
  /\ AtAccept /\ queue # <<>> /\ f \in Fds \ Clients
  /\ owner' = [owner EXCEPT ![f] = Head(queue)]
  /\ registered' \in {registered, registered \cup {f}}
  /\ clientFds' = [clientFds EXCEPT ![f] = @ + 1]
  /\ queue' = Tail(queue) /\ events' = Tail(events) /\ pc' = "dispatch"
  /\ UNCHANGED <<environment, got, fd>>

AtRecv == pc = "dispatch" /\ events # <<>> /\ Head(events) # Listener
Conn == owner[Head(events)]

\* recv() returns data or the end of the stream; send() is next.
Recv ==
  /\ AtRecv /\ peer[Conn] # "reset"
  /\ got' = unread[Conn] /\ unread' = [unread EXCEPT ![Conn] = 0]
  /\ fd' = Head(events) /\ events' = Tail(events) /\ pc' = "reply"
  /\ UNCHANGED <<peer, full, queue, owner, registered, clientFds>>

\* Faulty variant: the vector keeps the descriptor.
CloseClient_KeepsEntry(f) ==
  /\ owner' = [owner EXCEPT ![f] = Free]
  /\ registered' = registered \ {f}
  /\ UNCHANGED clientFds

\* close() drops the registration; the vector forgets the descriptor.
CloseClient(f) ==
  /\ owner' = [owner EXCEPT ![f] = Free]
  /\ registered' = registered \ {f}
  /\ clientFds' = [clientFds EXCEPT ![f] = 0]

RecvFails ==
  /\ AtRecv /\ peer[Conn] = "reset"
  /\ CloseClient(Head(events)) /\ events' = Tail(events)
  /\ UNCHANGED <<environment, queue, pc, got, fd>>

\* Faulty variant: a client that has finished is kept.
Reply_Keeps ==
  /\ pc = "reply" /\ peer[owner[fd]] # "reset" /\ owner[fd] \notin full
  /\ pc' = "dispatch" /\ UNCHANGED <<owner, registered, clientFds>>
  /\ UNCHANGED <<environment, queue, events, got, fd>>

\* send() of Response200, whatever was read, returns once there is room for all
\* of it; at the end of the stream the client goes.
Reply ==
  /\ pc = "reply" /\ peer[owner[fd]] # "reset" /\ owner[fd] \notin full
  /\ \/ got = 0 /\ CloseClient(fd) /\ UNCHANGED full
     \/ /\ got # 0 /\ full' \in {full, full \cup {owner[fd]}}
        /\ UNCHANGED <<owner, registered, clientFds>>
  /\ pc' = "dispatch"
  /\ UNCHANGED <<peer, unread, queue, events, got, fd>>

\* The peer has reset since recv(), or while send() waited: SIGPIPE, which nothing ignores.
ReplyKilled ==
  /\ pc = "reply" /\ peer[owner[fd]] = "reset" /\ pc' = "killed"
  /\ UNCHANGED <<environment, queue, owner, registered, clientFds, events, got, fd>>

Serve ==
  \/ Wait \/ Done \/ AcceptBlocks \/ AcceptFails \/ AcceptRefused
  \/ \E f \in Fds : Accepted(f)
  \/ Recv \/ RecvFails \/ Reply \/ ReplyKilled

Next ==
  \/ Serve
  \/ \E c \in Conns : Connect(c) \/ Send(c) \/ Finish(c) \/ Read(c) \/ Reset(c)

Spec == Init /\ [][Next]_vars
FairSpec == Spec /\ WF_vars(Serve)

-----------------------------------------------------------------------------
(* The vector names each open client once, through failed registrations,    *)
(* reused descriptors and events of one batch (lines 63-111).               *)
ListMatches ==
  \A f \in Fds : clientFds[f] = IF f \in Clients THEN 1 ELSE 0

(* No event is dispatched, and no answer sent, for a descriptor that has    *)
(* been closed earlier in the batch (lines 69-111).                         *)
EventsAreOwned ==
  /\ \A i \in DOMAIN events : events[i] # Listener => owner[events[i]] # Free
  /\ pc = "reply" => owner[fd] # Free

\* What may stop the loop: a peer that has reset, in accept() or by the SIGPIPE
\* of an answer, and one that does not read its answers, in send().
Stopped ==
  \/ pc \in {"accept", "killed"} /\ \E c \in Conns : peer[c] = "reset"
  \/ pc = "reply" /\ owner[fd] \in full

(* Unless the loop is stopped for good, a registered client whose peer      *)
(* finishes is closed (lines 65-105).                                       *)
FinishedIsClosed ==
  \/ <>[]Stopped
  \/ \A f \in Fds : (f \in registered /\ peer[owner[f]] = "finished") ~> f \notin registered
=============================================================================
