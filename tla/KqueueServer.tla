---------------------------- MODULE KqueueServer ----------------------------
(***************************************************************************)
(* KqueueSocket (Socket/SocketBase/Kqueue.hpp), a server loop of its own:    *)
(* the listener is registered edge-triggered, a client that reports EV_EOF  *)
(* is closed before any handler sees it, and a handler's result decides     *)
(* whether the client is closed or its writer set or removed.               *)
(*                                                                          *)
(* The loop makes one ClientSocket per connection, so an object is named by *)
(* the connection it accepts.  The two handlers belong to a program that is *)
(* not in the repository: they return any result, except that they report a *)
(* client that is not connected.                                            *)
(***************************************************************************)
EXTENDS ClientSocket

CONSTANTS Listener, Absent, Null

ASSUME ClientsAssumption == Clients = Conns
ASSUME MarksAssumption ==
  Listener \notin Descriptors /\ Absent # Null /\ {Absent, Null} \cap Conns = {}

VARIABLES
  clientFds_,  \* descriptor -> client; operator[] makes null entries
  events_,     \* events of the last kevent() not dispatched yet
  edge,        \* kernel: the listener has an arrival kevent() has not reported
  pc, cur      \* where the thread is, and the client it works on

loop == <<clientFds_, events_, pc, cur>>
vars == <<clientVars, loop, edge>>

Event(fd, f, eof) == [ident |-> fd, filter |-> f, eof |-> eof]
Arrival == Event(Listener, "read", FALSE)

Init ==
  /\ ClientInit
  /\ clientFds_ = [fd \in Descriptors |-> Absent]
  /\ events_ = {}
  /\ edge = FALSE
  /\ pc = "setReadable"
  /\ cur = NoConn

Arrive(c) == Connect(c) /\ edge' = TRUE /\ UNCHANGED loop
HangUp(c) == (Finish(c) \/ Reset(c)) /\ UNCHANGED <<loop, edge>>

-----------------------------------------------------------------------------
(* The end of the constructor.  kevent() gets room for an event and no      *)
(* timeout, so each call waits for an arrival and takes the edge; a         *)
(* listening socket never becomes writable.                                 *)

Registered(from, to) ==
  /\ pc = from /\ edge
  /\ edge' = FALSE
  /\ pc' = to
  /\ UNCHANGED <<clientVars, clientFds_, events_, cur>>

setReadable == Registered("setReadable", "setWritable")
setWritable == Registered("setWritable", "loop")

-----------------------------------------------------------------------------
(* handler().                                                               *)

HungUp(r) ==
  r[1] \in Fds /\ (peer[sock[r[1]]] = "rst" \/ (r[2] = "read" /\ peer[sock[r[1]]] = "fin"))

OnStdin(r) == r[1] = Stdin

\* Whether data has arrived, or room in the send buffer, is up to the peers;
\* descriptor 0 may report anything.
Poll ==
  /\ pc = "loop" /\ events_ = {}
  /\ \E eof \in SUBSET {r \in kq : OnStdin(r)} :
       LET ends == {r \in kq : HungUp(r)} \cup eof
       IN \E ready \in SUBSET (kq \ ends) :
            events_' = {Event(r[1], r[2], TRUE) : r \in ends}
                         \cup {Event(r[1], r[2], FALSE) : r \in ready}
                         \cup {e \in {Arrival} : edge}
  /\ events_' # {}
  /\ edge' = FALSE
  /\ UNCHANGED <<clientVars, clientFds_, pc, cur>>

Dispatched(e) ==
  /\ pc = "loop" /\ e \in events_
  /\ events_' = events_ \ {e}
  /\ UNCHANGED edge

\* The iteration ends, and with it the life of its local clientSock.
Done ==
  /\ pc' = "loop" /\ cur' = NoConn
  /\ UNCHANGED <<events_, edge>>

AcceptNothing ==
  /\ Dispatched(Arrival)
  /\ acceptQ = <<>> \/ Free = {}
  /\ UNCHANGED <<clientVars, clientFds_, pc, cur>>

AcceptLost(c, fd) ==
  /\ Dispatched(Arrival)
  /\ AcceptReset(c, c, fd)
  /\ UNCHANGED <<clientFds_, pc, cur>>

\* clientFds_[fd] = clientSock destroys the client it replaces.
Filed(fd, c) ==
  LET old == clientFds_[fd]
  IN /\ clientFds_' = [clientFds_ EXCEPT ![fd] = c]
     /\ IF old \in Conns THEN pc' = "dropping" /\ cur' = old ELSE UNCHANGED <<pc, cur>>

AcceptClient(c, fd) ==
  /\ Dispatched(Arrival)
  /\ Accept(c, c, fd)
  /\ Filed(fd, c)

AcceptZero(c) ==
  /\ Dispatched(Arrival)
  /\ AcceptStdin(c, c)
  /\ Filed(Stdin, c)

\* accept() returns -1 for an object that has stored a descriptor.
Unusable(c) ==
  \E f \in Filters : \/ AcceptStdinFails(c, c, f)
                     \/ \E fd \in Fds : AcceptUnregistered(c, c, fd, f)

\* Faulty variant: the object that failed is kept.
AcceptFails_Kept(c) ==
  /\ Dispatched(Arrival)
  /\ Unusable(c)
  /\ UNCHANGED <<clientFds_, pc, cur>>

AcceptFails(c) ==
  /\ Dispatched(Arrival)
  /\ Unusable(c)
  /\ pc' = "dropping" /\ cur' = c
  /\ UNCHANGED clientFds_

\* The last shared_ptr to an object goes.
Drop ==
  /\ pc = "dropping"
  /\ Destroy(cur)
  /\ Done
  /\ UNCHANGED clientFds_

\* Faulty variants of closeSocket: the entry goes without a close(); a failed
\* close() is not noticed.
closeSocket_EraseOnly(fd, next) ==
  /\ clientFds_' = [clientFds_ EXCEPT ![fd] = Absent]
  /\ UNCHANGED clientVars
  /\ pc' = next

closeSocket_KeepsEntry(fd, next) ==
  \/ /\ clientFds_[fd] \in Conns
     /\ IF isConnected_[clientFds_[fd]] THEN Close(clientFds_[fd]) ELSE UNCHANGED clientVars
     /\ UNCHANGED clientFds_
     /\ pc' = next
  \/ /\ clientFds_[fd] \notin Conns
     /\ UNCHANGED <<clientVars, clientFds_>>
     /\ pc' = IF clientFds_[fd] = Null THEN "crashed" ELSE next

\* closeSocket(fd), then on to next.  contains() holds for null entries; an
\* entry goes when close() returns 0, or 1 for a client already closed.
closeSocket(fd, next) ==
  LET c == clientFds_[fd]
  IN \/ /\ c \in Conns
        /\ IF isConnected_[c] THEN Close(c) ELSE UNCHANGED clientVars
        /\ clientFds_' = IF isConnected_[c] /\ ~ShutdownOk(clientFd_[c])
                         THEN clientFds_ ELSE [clientFds_ EXCEPT ![fd] = Absent]
        /\ pc' = next
     \/ /\ c \notin Conns
        /\ UNCHANGED <<clientVars, clientFds_>>
        /\ pc' = IF c = Null THEN "crashed" ELSE next

DispatchEof(fd, f) ==
  /\ Dispatched(Event(fd, f, TRUE))
  /\ closeSocket(fd, "loop")
  /\ UNCHANGED cur

\* const auto clientSock = clientFds_[fd] adds a null client.  Whatever a
\* handler makes of it, setWriter(), close() or removeWriter() follows.
NullClient(fd, f) ==
  /\ Dispatched(Event(fd, f, FALSE))
  /\ clientFds_[fd] \notin Conns
  /\ clientFds_' = [clientFds_ EXCEPT ![fd] = Null]
  /\ pc' = "crashed"
  /\ UNCHANGED <<clientVars, cur>>

HandleRead(fd) ==
  /\ Dispatched(Event(fd, "read", FALSE))
  /\ clientFds_[fd] \in Conns
  /\ \/ /\ isConnected_[clientFds_[fd]]
        /\ pc' = "afterRead" /\ cur' = clientFds_[fd]
        /\ UNCHANGED <<clientVars, clientFds_>>
     \/ /\ closeSocket(fd, "loop")
        /\ UNCHANGED cur

HandleWrite(fd) ==
  /\ Dispatched(Event(fd, "write", FALSE))
  /\ clientFds_[fd] \in Conns
  /\ cur' = clientFds_[fd]
  /\ \/ /\ isConnected_[cur']
        /\ pc' = "afterWrite"
        /\ UNCHANGED <<clientVars, clientFds_>>
     \/ closeSocket(fd, "afterWrite")

AfterRead ==
  /\ pc = "afterRead"
  /\ \/ SetWriter(cur)
     \/ /\ isWriter_[cur] \/ "kevent" \in Faults \/ ~OpenFd(clientFd_[cur])
        /\ UNCHANGED clientVars
  /\ Done
  /\ UNCHANGED clientFds_

AfterWrite ==
  /\ pc = "afterWrite"
  /\ IF isWriter_[cur] /\ <<clientFd_[cur], "write">> \in kq
     THEN RemoveWriter(cur) ELSE UNCHANGED clientVars
  /\ Done
  /\ UNCHANGED clientFds_

Server ==
  \/ setReadable \/ setWritable
  \/ Poll \/ AcceptNothing \/ Drop \/ AfterRead \/ AfterWrite
  \/ \E c \in Conns : \/ \E fd \in Fds : AcceptLost(c, fd) \/ AcceptClient(c, fd)
                      \/ AcceptZero(c) \/ AcceptFails(c)
  \/ \E fd \in Descriptors, f \in Filters : DispatchEof(fd, f) \/ NullClient(fd, f)
  \/ \E fd \in Descriptors : HandleRead(fd) \/ HandleWrite(fd)

Next == Server \/ \E c \in Conns : Arrive(c) \/ HangUp(c)

Spec == Init /\ [][Next]_vars

-----------------------------------------------------------------------------
(* Properties.                                                              *)

\* Types of the loop's variables and of those of ClientSocket.
TypeOK ==
  /\ ClientTypeOK
  /\ clientFds_ \in [Descriptors -> Conns \cup {Absent, Null}]
  /\ events_ \subseteq [ident : Descriptors \cup {Listener}, filter : Filters, eof : BOOLEAN]
  /\ edge \in BOOLEAN
  /\ pc \in {"setReadable", "setWritable", "loop", "dropping", "afterRead",
             "afterWrite", "crashed"}
  /\ cur \in Conns \cup {NoConn}

\* Between two events, exactly the connected clients are in the map, each
\* under the descriptor it works on: that of its own connection, which even a
\* close() that disconnects without closing keeps from being reused, or 0 if
\* its connection was closed for a failed option; then another such client
\* replaces it, and none is left behind (Kqueue.hpp:111-126 and :229).
MapOwnsSockets ==
  pc = "loop" =>
    /\ \A fd \in Descriptors : clientFds_[fd] \in Conns =>
         /\ clientFd_[clientFds_[fd]] = fd
         /\ \A gd \in Fds : sock[gd] = clientFds_[fd] <=> gd = fd
    /\ \A c \in Conns : isConnected_[c] => clientFds_[clientFd_[c]] = c

\* While peers only finish, a descriptor whose client has left the map is
\* closed, however the events of a batch are ordered (Kqueue.hpp:119-123).
NoDescriptorLost ==
  pc = "loop" => \A fd \in Fds : sock[fd] # NoConn /\ clientFds_[fd] = Absent
                   => peer[sock[fd]] = "rst"

\* Neither the loop nor its handlers leave the protocol of ClientSocket: an
\* object whose accept() failed is destroyed before anything else is called,
\* none accepts twice, and no filter is registered for a closed one, so that
\* what holds of the class under that protocol holds of the server
\* (Kqueue.hpp:194-266, ClientSocket.hpp:40 and :142).
ImplementsClient == ClientSpec

=============================================================================
