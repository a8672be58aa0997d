----------------------------- MODULE PollServer -----------------------------
(***************************************************************************)
(* The event loop of the shipped server: main() of src/kqueue.cc calling    *)
(* SocketBase::handler, which runs pollingHandler on a kqueue, accepts      *)
(* ClientSocket objects, calls the read and the write handler and closes    *)
(* clients through SocketBase::closeSocket.                                 *)
(*                                                                          *)
(* There is one server thread.  Between any two of its system calls the     *)
(* peers connect, send, finish (FIN) or reset (RST), and the kernel changes *)
(* state with them.  The kernel and the peers are external: they are        *)
(* modelled as far as the calls of the server observe them.                 *)
(***************************************************************************)
EXTENDS Integers, FiniteSets, SequencesExt

CONSTANTS
  Conns,        \* connections that peers may open; each is opened at most once
  Fds,          \* descriptor numbers accept(2) may hand out
  socket_,      \* the descriptor of the listening socket
  MaxChunks,    \* chunks of request bytes a peer sends on one connection
  Faults,       \* system calls that may fail although the peer is well
  WriteResults, \* what the write handler may return; kqueue.cc: {1}
  MayReset,     \* whether peers may reset a connection
  NoConn, Absent, Null

Stdin == 0      \* descriptor 0 is open from the start, and is not a socket
Descriptors == Fds \cup {Stdin}
FaultKinds == {"setsockopt", "kevent", "send"}

ASSUME FdsAssumption == Fds \subseteq Nat \ {Stdin, socket_} /\ socket_ \in Nat \ {Stdin}
ASSUME ChunksAssumption == MaxChunks \in Nat
ASSUME FaultsAssumption == Faults \subseteq FaultKinds
ASSUME ResultsAssumption == WriteResults \subseteq Int
ASSUME MarksAssumption == /\ NoConn \notin Conns /\ Absent \notin Conns
                          /\ Null \notin Conns /\ Absent # Null

VARIABLES
  acceptQ,    \* kernel: completed connections that accept(2) has not returned
  stage,      \* kernel: life of a connection, as the server's host sees it
  peer,       \* kernel: whether the peer has finished or reset
  sent,       \* peers: chunks sent
  unread,     \* kernel: chunks in the receive buffer
  sock,       \* kernel: the connection a descriptor stands for
  kq,         \* kernel: <<fd, filter>> pairs registered with poller_ni_
  clientFds_, \* server: descriptor -> ClientSocket
  clientFd_,  \* server: the field of the ClientSocket that accepted the
              \* connection; -1 while there is no connected one
  events_,    \* server: events of the last kevent() not dispatched yet
  pc,         \* server: where its thread is
  cur,        \* server: the descriptor being served
  inHand,     \* server: chunks in the local buffer of the read handler
  answered    \* peers: responses written on the connection

kernel == <<acceptQ, stage, sock, kq>>
peers == <<peer, sent>>
vars == <<acceptQ, stage, peer, sent, unread, sock, kq, clientFds_, clientFd_,
          events_, pc, cur, inHand, answered>>

Filters == {"read", "write"}
Dead == {"crashed", "killed", "exited"}
Registration(fd) == {fd} \X Filters

Init ==
  /\ acceptQ = <<>>
  /\ stage = [c \in Conns |-> "new"]
  /\ peer = [c \in Conns |-> "up"]
  /\ sent = [c \in Conns |-> 0]
  /\ unread = [c \in Conns |-> 0]
  /\ sock = [fd \in Fds |-> NoConn]
  /\ kq = {}
  /\ clientFds_ = [fd \in Descriptors |-> Absent]
  /\ clientFd_ = [c \in Conns |-> -1]
  /\ events_ = {}
  /\ pc = "loop"
  /\ cur = Stdin
  /\ inHand = 0
  /\ answered = [c \in Conns |-> 0]

-----------------------------------------------------------------------------
(* The peers.                                                               *)

server == <<clientFds_, clientFd_, events_, pc, cur, inHand, answered>>

Connect(c) ==
  /\ stage[c] = "new"
  /\ stage' = [stage EXCEPT ![c] = "queued"]
  /\ acceptQ' = Append(acceptQ, c)
  /\ UNCHANGED <<peer, sent, unread, sock, kq, server>>

Alive(c) == stage[c] \in {"queued", "open"} /\ peer[c] = "up"

Send(c) ==
  /\ Alive(c)
  /\ sent[c] < MaxChunks
  /\ sent' = [sent EXCEPT ![c] = @ + 1]
  /\ unread' = [unread EXCEPT ![c] = @ + 1]
  /\ UNCHANGED <<kernel, peer, server>>

Finish(c) ==
  /\ Alive(c)
  /\ peer' = [peer EXCEPT ![c] = "fin"]
  /\ UNCHANGED <<kernel, sent, unread, server>>

Reset(c) ==
  /\ MayReset
  /\ stage[c] = "open" /\ peer[c] # "rst"
  /\ peer' = [peer EXCEPT ![c] = "rst"]
  /\ UNCHANGED <<kernel, sent, unread, server>>

\* A reset takes a connection nobody accepted out of the kernel's queue.
ResetQueued(i) ==
  /\ MayReset
  /\ peer' = [peer EXCEPT ![acceptQ[i]] = "rst"]
  /\ stage' = [stage EXCEPT ![acceptQ[i]] = "closed"]
  /\ acceptQ' = RemoveAt(acceptQ, i)
  /\ UNCHANGED <<sent, unread, sock, kq, server>>

Environment ==
  \/ \E c \in Conns : Connect(c) \/ Send(c) \/ Finish(c) \/ Reset(c)
  \/ \E i \in DOMAIN acceptQ : ResetQueued(i)

-----------------------------------------------------------------------------
(* pollingHandler: one kevent() call, then one iteration per event.  The    *)
(* room for events (64000) exceeds the number of registrations, so a call   *)
(* reports everything that is ready; the order inside the array is the      *)
(* kernel's, hence any event of events_ may be the next.                    *)

Readable(fd) == \/ unread[sock[fd]] > 0
                \/ peer[sock[fd]] # "up"

Ready ==
  {e \in {<<socket_, "read">>} : acceptQ # <<>>}
    \cup {e \in kq : e[1] # Stdin /\ e[2] = "read" /\ Readable(e[1])}
    \cup {e \in kq : e[1] # Stdin /\ e[2] = "write" /\ "send" \notin Faults}

\* Readiness the connections do not determine: what the terminal does with
\* descriptor 0, and whether a send buffer that may fill up has room.
MaybeReady ==
  {e \in kq : e[1] = Stdin \/ (e[2] = "write" /\ "send" \in Faults)}

Poll ==
  /\ pc = "loop" /\ events_ = {}
  /\ \E more \in SUBSET MaybeReady : events_' = Ready \cup more
  /\ events_' # {}
  /\ UNCHANGED <<kernel, peers, unread, clientFds_, clientFd_, pc, cur, inHand, answered>>

Taken(e) ==
  /\ pc = "loop" /\ e \in events_
  /\ events_' = events_ \ {e}

Free == {fd \in Fds : sock[fd] = NoConn}

\* defaultAcception fails: nothing is queued any more, or no descriptor is free.
AcceptNothing ==
  /\ Taken(<<socket_, "read">>)
  /\ acceptQ = <<>> \/ Free = {}
  /\ UNCHANGED <<kernel, peers, unread, clientFds_, clientFd_, pc, cur, inHand, answered>>

\* accept(2) hands out the lowest free descriptor.
Accept(fd) ==
  /\ Taken(<<socket_, "read">>)
  /\ acceptQ # <<>>
  /\ fd \in Free /\ \A g \in Free : fd <= g
  /\ acceptQ' = Tail(acceptQ)
  /\ stage' = [stage EXCEPT ![Head(acceptQ)] = "open"]
  /\ sock' = [sock EXCEPT ![fd] = Head(acceptQ)]
  /\ cur' = fd
  /\ pc' = "setup"
  /\ UNCHANGED <<kq, peers, unread, clientFds_, clientFd_, inHand, answered>>

\* const auto clientSock = clientFds_[fd]: operator[] adds a null client.
Looked(fd) ==
  IF clientFds_[fd] = Absent THEN [clientFds_ EXCEPT ![fd] = Null] ELSE clientFds_

DispatchRead(fd) ==
  /\ Taken(<<fd, "read">>)
  /\ clientFds_' = Looked(fd)
  /\ cur' = fd
  /\ pc' = IF clientFds_'[fd] = Null THEN "crashed" ELSE "reading"
  /\ UNCHANGED <<kernel, peers, unread, clientFd_, inHand, answered>>

\* Faulty variant: a write event of a peer that hung up closes the client.
DispatchWrite_ClosesOnEof(fd) ==
  /\ Taken(<<fd, "write">>)
  /\ clientFds_' = Looked(fd)
  /\ cur' = fd
  /\ pc' = IF clientFds_[fd] \in Conns /\ peer[clientFds_[fd]] # "up"
           THEN "closing" ELSE "loop"
  /\ UNCHANGED <<kernel, peers, unread, clientFd_, inHand, answered>>

DispatchWrite(fd) ==
  /\ Taken(<<fd, "write">>)
  /\ clientFds_' = Looked(fd)
  /\ cur' = fd
  /\ \E result \in WriteResults : pc' = IF result < 0 THEN "closing" ELSE "loop"
  /\ UNCHANGED <<kernel, peers, unread, clientFd_, inHand, answered>>

-----------------------------------------------------------------------------
(* The rest of defaultAcception and of ClientSocket::accept.                *)

\* shutdown(2) refuses what is no socket or has no peer any more.
ShutdownOk(fd) == fd \in Fds /\ sock[fd] # NoConn /\ peer[sock[fd]] # "rst"

\* safetyClose(fd): ::close is reached only when shutdown(2) succeeded.
safetyClose(fd) ==
  IF ShutdownOk(fd)
  THEN /\ sock' = [sock EXCEPT ![fd] = NoConn]
       /\ stage' = [stage EXCEPT ![sock[fd]] = "closed"]
  ELSE UNCHANGED <<sock, stage>>

OptionsMayFail == "setsockopt" \in Faults \/ peer[sock[cur]] = "rst"

\* What defaultAcception returns: the descriptor, or on a failed option what
\* safetyClose returned, which is 0 when the socket was closed.
AcceptedFds == {cur} \cup (IF OptionsMayFail
                           THEN {IF ShutdownOk(cur) THEN Stdin ELSE -1}
                           ELSE {})

\* Faulty variant: accept() goes on with the descriptor -1.
AcceptFails_Unchecked ==
  /\ pc = "setup" /\ -1 \in AcceptedFds
  /\ kq' = kq \cup Registration(-1)
  /\ pc' = "loop"
  /\ UNCHANGED <<acceptQ, stage, sock, peers, unread, clientFds_, clientFd_,
                 events_, cur, inHand, answered>>

AcceptFails ==
  /\ pc = "setup" /\ -1 \in AcceptedFds
  /\ pc' = "loop"
  /\ UNCHANGED <<kernel, peers, unread, clientFds_, clientFd_, events_, cur, inHand, answered>>

\* Faulty variant: accept() forgets setWriter.
Register_ReaderOnly(fd) ==
  /\ pc = "setup" /\ fd \in AcceptedFds \ {-1}
  /\ clientFds_' = [clientFds_ EXCEPT ![fd] = sock[cur]]
  /\ clientFd_' = [clientFd_ EXCEPT ![sock[cur]] = fd]
  /\ kq' = kq \cup {<<fd, "read">>}
  /\ pc' = "loop"
  /\ UNCHANGED <<acceptQ, stage, sock, peers, unread, events_, cur, inHand, answered>>

\* setReader and setWriter succeed and the client enters the map.  An entry
\* it replaces is destroyed: ~ClientSocket closes the same descriptor.
Register(fd) ==
  /\ pc = "setup" /\ fd \in AcceptedFds \ {-1}
  /\ LET c == sock[cur]
         old == clientFds_[fd]
     IN /\ clientFds_' = [clientFds_ EXCEPT ![fd] = c]
        /\ clientFd_' = [d \in Conns |-> CASE d = c   -> fd
                                          [] d = old -> -1
                                          [] OTHER   -> clientFd_[d]]
        /\ IF old \in Conns THEN kq' = kq \ Registration(fd)
                            ELSE kq' = kq \cup Registration(fd)
        /\ IF fd = Stdin \/ old \in Conns THEN safetyClose(cur)
                                         ELSE UNCHANGED <<sock, stage>>
  /\ pc' = "loop"
  /\ UNCHANGED <<acceptQ, peers, unread, events_, cur, inHand, answered>>

\* setReader or setWriter fails: safetyClose, then ~ClientSocket removes the
\* reader it registered and closes once more, which has no further effect.
RegisterFails(fd) ==
  /\ pc = "setup" /\ fd \in AcceptedFds \ {-1}
  /\ "kevent" \in Faults
  /\ safetyClose(cur)
  /\ \E deleted \in {{}, {<<fd, "read">>}} : kq' = kq \ deleted
  /\ pc' = "loop"
  /\ UNCHANGED <<acceptQ, peers, unread, clientFds_, clientFd_, events_, cur, inHand, answered>>

-----------------------------------------------------------------------------
(* The read handler of kqueue.cc, and closeSocket.                          *)

\* recv(2) on the descriptor of the client has data; it may return part of it.
ReadData ==
  /\ pc = "reading"
  /\ LET fd == clientFd_[clientFds_[cur]]
         c == sock[fd]
     IN /\ fd \in Fds
        /\ \E n \in 1..unread[c] :
             /\ unread' = [unread EXCEPT ![c] = @ - n]
             /\ inHand' = n
  /\ pc' = "replying"
  /\ UNCHANGED <<kernel, peers, clientFds_, clientFd_, events_, cur, answered>>

NothingToRead ==
  LET fd == clientFd_[clientFds_[cur]] IN fd \in Fds => unread[sock[fd]] = 0

\* Faulty variants: the handler answers although nothing was read, or reads
\* again at once.
ReadNothing_Answers ==
  /\ pc = "reading" /\ NothingToRead
  /\ pc' = "replying"
  /\ UNCHANGED <<kernel, peers, unread, clientFds_, clientFd_, events_, cur, inHand, answered>>

ReadNothing_Spins ==
  /\ pc = "reading" /\ NothingToRead
  /\ UNCHANGED vars

\* ClientSocket::read returns 0 (end of stream, or EAGAIN) or -1 (reset, not a
\* socket, not registered); the handler returns -1 for each of them.
ReadNothing ==
  /\ pc = "reading" /\ NothingToRead
  /\ pc' = "closing"
  /\ UNCHANGED <<kernel, peers, unread, clientFds_, clientFd_, events_, cur, inHand, answered>>

\* The response is sent; with a full send buffer write returns 0 and the
\* handler goes on as if it were.
Reply ==
  /\ pc = "replying"
  /\ LET c == sock[clientFd_[clientFds_[cur]]]
     IN /\ peer[c] # "rst"
        /\ \/ answered' = [answered EXCEPT ![c] = @ + 1]
           \/ "send" \in Faults /\ UNCHANGED answered
  /\ inHand' = 0
  /\ pc' = "loop"
  /\ UNCHANGED <<kernel, peers, unread, clientFds_, clientFd_, events_, cur>>

\* send(2) to a peer that has reset: the pending error, or SIGPIPE, which
\* nothing in the program ignores.
ReplyFails ==
  /\ pc = "replying"
  /\ peer[sock[clientFd_[clientFds_[cur]]]] = "rst"
  /\ inHand' = 0
  /\ pc' \in {"closing", "killed"}
  /\ UNCHANGED <<kernel, peers, unread, clientFds_, clientFd_, events_, cur, answered>>

\* Faulty variants: the map entry survives; close() returns before it closes.
CloseClient_KeepsEntry ==
  /\ pc = "closing" /\ cur # Stdin /\ clientFds_[cur] \in Conns
  /\ kq' = kq \ Registration(clientFd_[clientFds_[cur]])
  /\ safetyClose(clientFd_[clientFds_[cur]])
  /\ clientFd_' = [clientFd_ EXCEPT ![clientFds_[cur]] = -1]
  /\ pc' = "loop"
  /\ UNCHANGED <<acceptQ, peers, unread, clientFds_, events_, cur, inHand, answered>>

CloseClient_NotClosed ==
  /\ pc = "closing" /\ cur # Stdin /\ clientFds_[cur] \in Conns
  /\ kq' = kq \ Registration(clientFd_[clientFds_[cur]])
  /\ clientFd_' = [clientFd_ EXCEPT ![clientFds_[cur]] = -1]
  /\ clientFds_' = [clientFds_ EXCEPT ![cur] = Absent]
  /\ pc' = "loop"
  /\ UNCHANGED <<acceptQ, stage, sock, peers, unread, events_, cur, inHand, answered>>

\* closeSocket(fd) of a client: ClientSocket::close, then erase.
CloseClient ==
  /\ pc = "closing" /\ cur # Stdin /\ clientFds_[cur] \in Conns
  /\ kq' = kq \ Registration(clientFd_[clientFds_[cur]])
  /\ safetyClose(clientFd_[clientFds_[cur]])
  /\ clientFd_' = [clientFd_ EXCEPT ![clientFds_[cur]] = -1]
  /\ clientFds_' = [clientFds_ EXCEPT ![cur] = Absent]
  /\ pc' = "loop"
  /\ UNCHANGED <<acceptQ, peers, unread, events_, cur, inHand, answered>>

\* closeSocket(fd) where operator[] has left a null client: close() on it.
CloseNull ==
  /\ pc = "closing" /\ cur # Stdin /\ clientFds_[cur] = Null
  /\ pc' = "crashed"
  /\ UNCHANGED <<kernel, peers, unread, clientFds_, clientFd_, events_, cur, inHand, answered>>

\* closeSocket(0) takes the branch of the server socket: clear() destroys, and
\* so closes, every client; then exit(0).
CloseServer ==
  /\ pc = "closing" /\ cur = Stdin
  /\ LET mapped == {fd \in Descriptors : clientFds_[fd] \in Conns}
         closed == {fd \in mapped : ShutdownOk(fd)}
     IN /\ sock' = [fd \in Fds |-> IF fd \in closed THEN NoConn ELSE sock[fd]]
        /\ stage' = [c \in Conns |-> IF \E fd \in closed : sock[fd] = c
                                     THEN "closed" ELSE stage[c]]
        /\ kq' = kq \ (mapped \X Filters)
  /\ clientFds_' = [fd \in Descriptors |-> Absent]
  /\ clientFd_' = [c \in Conns |-> -1]
  /\ pc' = "exited"
  /\ UNCHANGED <<acceptQ, peers, unread, events_, cur, inHand, answered>>

Server ==
  \/ Poll \/ AcceptNothing \/ AcceptFails \/ \E fd \in Fds : Accept(fd)
  \/ \E fd \in Descriptors : \/ DispatchRead(fd) \/ DispatchWrite(fd)
                             \/ Register(fd) \/ RegisterFails(fd)
  \/ ReadData \/ ReadNothing \/ Reply \/ ReplyFails
  \/ CloseClient \/ CloseNull \/ CloseServer

\* A process that has ended takes its sockets with it; peers are left alone.
Next == Server \/ (pc \notin Dead /\ Environment)

Spec == Init /\ [][Next]_vars

\* The server thread is never descheduled for ever; peers owe nothing.
FairSpec == Spec /\ WF_vars(Server)
-----------------------------------------------------------------------------
(* Properties.                                                              *)

States == {"loop", "setup", "reading", "replying", "closing"} \cup Dead

TypeOK ==
  /\ acceptQ \in Seq(Conns)
  /\ stage \in [Conns -> {"new", "queued", "open", "closed"}]
  /\ peer \in [Conns -> {"up", "fin", "rst"}]
  /\ sent \in [Conns -> 0..MaxChunks]
  /\ unread \in [Conns -> 0..MaxChunks]
  /\ sock \in [Fds -> Conns \cup {NoConn}]
  /\ kq \subseteq Descriptors \X Filters
  /\ clientFds_ \in [Descriptors -> Conns \cup {Absent, Null}]
  /\ clientFd_ \in [Conns -> Descriptors \cup {-1}]
  /\ events_ \subseteq (Descriptors \cup {socket_}) \X Filters
  /\ pc \in States
  /\ cur \in Descriptors
  /\ inHand \in 0..MaxChunks
  /\ answered \in [Conns -> Nat]

\* A client in clientFds_ works on the descriptor it is filed under, and that
\* descriptor is still its own connection, never one the kernel gave to a
\* connection accepted later (closeSocket, pollingHandler, accept).
MapOwnsSockets ==
  \A fd \in Fds : clientFds_[fd] \in Conns =>
    /\ clientFd_[clientFds_[fd]] = fd
    /\ sock[fd] = clientFds_[fd]

\* Outside accept(), kqueue reports a client descriptor for reading and for
\* writing exactly while clientFds_ holds a client for it: no client goes deaf
\* and no registration outlives its client (setReader .. removeWriter).
RegisteredIffClient ==
  \A fd \in Fds :
    {f \in Filters : <<fd, f>> \in kq} =
      IF clientFds_[fd] \in Conns THEN Filters ELSE {}

\* The read handler is never given the null client that clientFds_[fd] creates
\* for a descriptor closed earlier in the same batch, nor does closeSocket use
\* one, although write events of such descriptors are dispatched.
NullNeverUsed == pc # "crashed"

\* Every open descriptor of a connection is reachable through clientFds_, so
\* that some event can still close it (safetyClose, closeSocket, accept).
NoDescriptorLost ==
  \A fd \in Fds : sock[fd] # NoConn =>
    clientFds_[fd] = sock[fd] \/ (pc = "setup" /\ cur = fd)

\* closeSocket ends the process only for the server socket, never on behalf of
\* a client ("int = -1 ? server : client").
ClientNeverClosesServer == pc # "exited"

\* No peer that keeps to connecting, sending and finishing stops the server.
ServerSurvives == pc \notin Dead

\* A client whose peer has finished or reset is taken out of clientFds_, unless
\* the process ends (level-triggered read events, read, closeSocket).
Mapped(c) == \E fd \in Fds : clientFds_[fd] = c
HangupForgotten ==
  \A c \in Conns :
    (Mapped(c) /\ peer[c] # "up") ~> (~Mapped(c) \/ pc \in Dead)

\* A connection that waits in the kernel's queue is accepted, unless from some
\* time on every descriptor is lost or held by a peer that does not hang up: a
\* client that leaves makes room, and the listener gets its turn in every batch.
Held(fd) == sock[fd] # NoConn /\ (~Mapped(sock[fd]) \/ peer[sock[fd]] = "up")
QueueServed ==
  \A c \in Conns :
    (stage[c] = "queued") ~> (stage[c] # "queued" \/ pc \in Dead \/ [](\A fd \in Fds : Held(fd)))

InHandOf(c) == IF pc = "replying" /\ clientFds_[cur] = c THEN inHand ELSE 0

\* There is never a response on a connection without data received on it for
\* that response, whatever descriptors were reused meanwhile.
AnswersAreOwed ==
  \A c \in Conns :
    answered[c] + unread[c] + InHandOf(c) <= sent[c]

\* The server closes a connection only after its peer has finished and all its
\* data was received, or has reset: a stale or early event never costs a live
\* connection (read, the read handler, pollingHandler).
CloseOnlyAfterHangup ==
  [][\A c \in Conns : stage[c] = "open" /\ stage'[c] = "closed" =>
       \/ peer[c] = "rst"
       \/ peer[c] = "fin" /\ unread[c] = 0]_vars

\* The abstract state: what the service says of a connection at this stage.
PhaseOf(s) == CASE s = "new"    -> "new"
                [] s = "queued" -> "waiting"
                [] s = "open"   -> "served"
                [] s = "closed" -> "released"
Phase == [c \in Conns |-> PhaseOf(stage[c])]
HungUp == [c \in Conns |-> peer[c] # "up"]
Pending == [c \in Conns |-> unread[c] + InHandOf(c)]

Service == INSTANCE ConnService WITH
  Capacity <- Cardinality(Fds), phase <- Phase, hungUp <- HungUp, pending <- Pending

\* With peers that do not reset and system calls that do not fail, the loop
\* implements the service: steps and progress.
ImplementsService == Service!FairSpec
=============================================================================
