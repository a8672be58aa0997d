---------------------------- MODULE ClientSocket ----------------------------
(***************************************************************************)
(* The class ClientSocket: several objects on one listening socket and one  *)
(* kqueue, called in any order by a program of one thread.  An object keeps *)
(* the number of a descriptor and three flags; the kernel keeps what the    *)
(* number stands for.  The module asks when the two can come apart.         *)
(*                                                                          *)
(* A method is one step: the peers act between methods, and a reset in the  *)
(* middle of one has the outcome of a reset just before it.  An object that *)
(* was destroyed is back in the state the constructor makes, and stands for *)
(* the next one; so is one built by the move constructor, which takes over  *)
(* the poller and the listener only.  read and write change no field.       *)
(***************************************************************************)
EXTENDS Integers, SequencesExt

CONSTANTS
  Clients,   \* ClientSocket objects
  Conns,     \* connections peers may open, each at most once
  Fds,       \* descriptor numbers accept(2) may hand out
  Faults,    \* system calls that may fail although the peer is well
  Habits,    \* what callers do besides what the event loops do
  NoConn

\* keeps_failed:     does not destroy an object at once when accept() fails
\* accepts_again:    calls accept() on an object that has accepted before
\* registers_closed: calls setReader or setWriter while not connected
AllHabits == {"keeps_failed", "accepts_again", "registers_closed"}

Stdin == 0      \* open from the start, and not a socket
Descriptors == Fds \cup {Stdin}

ASSUME FdsAssumption == Fds \subseteq Nat \ {Stdin}
ASSUME SwitchesAssumption ==
  Faults \subseteq {"kevent", "setsockopt"} /\ Habits \subseteq AllHabits
ASSUME NoConnAssumption == NoConn \notin Conns

VARIABLES
  acceptQ,       \* kernel: connections accept(2) has not returned
  peer,          \* kernel: what the peer has done on the connection
  sock,          \* kernel: the connection a descriptor stands for
  kq,            \* kernel: <<fd, filter>> pairs registered
  clientFd_, isReader_, isWriter_, isConnected_,    \* fields of the objects
  mine,          \* history: the connection accept() took last for the object
  failed         \* history: its last accept() failed after taking one

kernel == <<acceptQ, peer, sock, kq>>
fields == <<clientFd_, isReader_, isWriter_, isConnected_>>
clientVars == <<kernel, fields, mine, failed>>

Filters == {"read", "write"}
Registration(fd) == {fd} \X Filters

ClientInit ==
  /\ acceptQ = <<>>
  /\ peer = [c \in Conns |-> "new"]
  /\ sock = [fd \in Fds |-> NoConn]
  /\ kq = {}
  /\ clientFd_ = [o \in Clients |-> -1]
  /\ isReader_ = [o \in Clients |-> FALSE]
  /\ isWriter_ = [o \in Clients |-> FALSE]
  /\ isConnected_ = [o \in Clients |-> FALSE]
  /\ mine = [o \in Clients |-> NoConn]
  /\ failed = [o \in Clients |-> FALSE]

-----------------------------------------------------------------------------
(* The peers.                                                               *)

Connect(c) ==
  /\ peer[c] = "new"
  /\ peer' = [peer EXCEPT ![c] = "up"]
  /\ acceptQ' = Append(acceptQ, c)
  /\ UNCHANGED <<sock, kq, fields, mine, failed>>

Finish(c) ==
  /\ peer[c] = "up"
  /\ peer' = [peer EXCEPT ![c] = "fin"]
  /\ UNCHANGED <<acceptQ, sock, kq, fields, mine, failed>>

Reset(c) ==
  /\ peer[c] \in {"up", "fin"}
  /\ peer' = [peer EXCEPT ![c] = "rst"]
  /\ UNCHANGED <<acceptQ, sock, kq, fields, mine, failed>>

-----------------------------------------------------------------------------
(* accept().  It has four ends: an option call of defaultAcception fails on  *)
(* a connection that was reset, or on one that safetyClose can close; or     *)
(* the connection gets its descriptor, with or without its registrations.    *)

Free == {fd \in Fds : sock[fd] = NoConn}
Lowest(fd) == fd \in Free /\ \A g \in Free : fd <= g

Taken(c) == acceptQ # <<>> /\ c = Head(acceptQ) /\ acceptQ' = Tail(acceptQ)

\* An option cannot be set after a reset, nor can shutdown(2) succeed:
\* safetyClose leaves the descriptor open, and no field has changed.
AcceptReset(o, c, fd) ==
  /\ Taken(c) /\ Lowest(fd)
  /\ peer[c] = "rst"
  /\ sock' = [sock EXCEPT ![fd] = c]
  /\ UNCHANGED <<peer, kq, fields, mine, failed>>

\* The filters whose flag is set, and those setReader and setWriter register.
Flagged(o) == {f \in Filters : IF f = "read" THEN isReader_[o] ELSE isWriter_[o]}
Missing(o) == Filters \ Flagged(o)

Accept(o, c, fd) ==
  /\ Taken(c) /\ Lowest(fd)
  /\ sock' = [sock EXCEPT ![fd] = c]
  /\ kq' = kq \cup ({fd} \X Missing(o))
  /\ clientFd_' = [clientFd_ EXCEPT ![o] = fd]
  /\ isReader_' = [isReader_ EXCEPT ![o] = TRUE]
  /\ isWriter_' = [isWriter_ EXCEPT ![o] = TRUE]
  /\ isConnected_' = [isConnected_ EXCEPT ![o] = TRUE]
  /\ mine' = [mine EXCEPT ![o] = c]
  /\ failed' = [failed EXCEPT ![o] = FALSE]
  /\ UNCHANGED peer

\* What is registered when kevent(2) refuses f: the reader comes first.
Before(o, f) == Missing(o) \ {f, "write"}

\* kevent(2) refuses filter f.  The descriptor goes, with its registrations,
\* unless the peer has reset; the object goes on as connected.
AcceptUnregistered(o, c, fd, f) ==
  /\ Taken(c) /\ Lowest(fd)
  /\ "kevent" \in Faults /\ f \in Missing(o)
  /\ sock' = [sock EXCEPT ![fd] = IF peer[c] = "rst" THEN c ELSE NoConn]
  /\ kq' = IF peer[c] = "rst" THEN kq \cup ({fd} \X Before(o, f)) ELSE kq
  /\ isReader_' = [isReader_ EXCEPT ![o] = @ \/ Before(o, f) # {}]
  /\ clientFd_' = [clientFd_ EXCEPT ![o] = fd]
  /\ isConnected_' = [isConnected_ EXCEPT ![o] = TRUE]
  /\ mine' = [mine EXCEPT ![o] = c]
  /\ failed' = [failed EXCEPT ![o] = TRUE]
  /\ UNCHANGED <<peer, isWriter_>>

\* An option cannot be set although the peer is well: safetyClose closes the
\* connection and returns 0, which accept() takes for its descriptor.
OptionFails(c) ==
  /\ Taken(c) /\ Free # {}
  /\ "setsockopt" \in Faults /\ peer[c] # "rst"
  /\ UNCHANGED <<sock, peer>>

AcceptStdin(o, c) ==
  /\ OptionFails(c)
  /\ kq' = kq \cup ({Stdin} \X Missing(o))
  /\ clientFd_' = [clientFd_ EXCEPT ![o] = Stdin]
  /\ isReader_' = [isReader_ EXCEPT ![o] = TRUE]
  /\ isWriter_' = [isWriter_ EXCEPT ![o] = TRUE]
  /\ isConnected_' = [isConnected_ EXCEPT ![o] = TRUE]
  /\ mine' = [mine EXCEPT ![o] = c]
  /\ failed' = [failed EXCEPT ![o] = FALSE]

\* kevent(2) refuses filter f for 0, which shutdown(2) then refuses to close.
AcceptStdinFails(o, c, f) ==
  /\ OptionFails(c)
  /\ "kevent" \in Faults /\ f \in Missing(o)
  /\ kq' = kq \cup ({Stdin} \X Before(o, f))
  /\ isReader_' = [isReader_ EXCEPT ![o] = @ \/ Before(o, f) # {}]
  /\ clientFd_' = [clientFd_ EXCEPT ![o] = Stdin]
  /\ isConnected_' = [isConnected_ EXCEPT ![o] = TRUE]
  /\ mine' = [mine EXCEPT ![o] = c]
  /\ failed' = [failed EXCEPT ![o] = TRUE]
  /\ UNCHANGED isWriter_

-----------------------------------------------------------------------------
(* setReader .. removeWriter.  EV_ADD needs an open descriptor, EV_DELETE a *)
(* registration of it.                                                      *)

OpenFd(fd) == fd = Stdin \/ (fd \in Fds /\ sock[fd] # NoConn)

SetReader(o) ==
  /\ ~isReader_[o] /\ OpenFd(clientFd_[o])
  /\ kq' = kq \cup {<<clientFd_[o], "read">>}
  /\ isReader_' = [isReader_ EXCEPT ![o] = TRUE]
  /\ UNCHANGED <<acceptQ, peer, sock, clientFd_, isWriter_, isConnected_, mine, failed>>

SetWriter(o) ==
  /\ ~isWriter_[o] /\ OpenFd(clientFd_[o])
  /\ kq' = kq \cup {<<clientFd_[o], "write">>}
  /\ isWriter_' = [isWriter_ EXCEPT ![o] = TRUE]
  /\ UNCHANGED <<acceptQ, peer, sock, clientFd_, isReader_, isConnected_, mine, failed>>

RemoveReader(o) ==
  /\ isReader_[o] /\ <<clientFd_[o], "read">> \in kq
  /\ kq' = kq \ {<<clientFd_[o], "read">>}
  /\ isReader_' = [isReader_ EXCEPT ![o] = FALSE]
  /\ UNCHANGED <<acceptQ, peer, sock, clientFd_, isWriter_, isConnected_, mine, failed>>

RemoveWriter(o) ==
  /\ isWriter_[o] /\ <<clientFd_[o], "write">> \in kq
  /\ kq' = kq \ {<<clientFd_[o], "write">>}
  /\ isWriter_' = [isWriter_ EXCEPT ![o] = FALSE]
  /\ UNCHANGED <<acceptQ, peer, sock, clientFd_, isReader_, isConnected_, mine, failed>>

-----------------------------------------------------------------------------
(* close() and ~ClientSocket.                                               *)

\* shutdown(2) refuses what is no socket or has no peer any more.
ShutdownOk(fd) == fd \in Fds /\ sock[fd] # NoConn /\ peer[sock[fd]] # "rst"

\* removeReader() < 0 || removeWriter() < 0: a reader that cannot be removed
\* leaves the writer alone.
ReaderGone(o) == isReader_[o] => <<clientFd_[o], "read">> \in kq
WriterGone(o) == isWriter_[o] => <<clientFd_[o], "write">> \in kq

Removed(o) ==
  {clientFd_[o]} \X (IF ReaderGone(o) THEN Flagged(o) ELSE {"read"})

\* What close() does to the kernel.  Closing a descriptor ends its
\* registrations.
Released(o) ==
  LET fd == clientFd_[o]
  IN IF ShutdownOk(fd)
     THEN /\ sock' = [sock EXCEPT ![fd] = NoConn]
          /\ kq' = (kq \ Removed(o)) \ Registration(fd)
     ELSE /\ kq' = kq \ Removed(o)
          /\ UNCHANGED sock

\* Faulty variants: the writer flag stays set; the object stays connected.
Close_KeepsWriter(o) ==
  /\ isConnected_[o] /\ clientFd_[o] >= 0
  /\ Released(o)
  /\ isReader_' = [isReader_ EXCEPT ![o] = @ /\ ~ReaderGone(o)]
  /\ isConnected_' = [isConnected_ EXCEPT ![o] = FALSE]
  /\ UNCHANGED <<acceptQ, peer, clientFd_, isWriter_, mine, failed>>

Close_StaysConnected(o) ==
  /\ isConnected_[o] /\ clientFd_[o] >= 0
  /\ Released(o)
  /\ isReader_' = [isReader_ EXCEPT ![o] = @ /\ ~ReaderGone(o)]
  /\ isWriter_' = [isWriter_ EXCEPT ![o] = @ /\ ~(ReaderGone(o) /\ WriterGone(o))]
  /\ UNCHANGED <<acceptQ, peer, clientFd_, isConnected_, mine, failed>>

Close(o) ==
  /\ isConnected_[o] /\ clientFd_[o] >= 0
  /\ Released(o)
  /\ isReader_' = [isReader_ EXCEPT ![o] = @ /\ ~ReaderGone(o)]
  /\ isWriter_' = [isWriter_ EXCEPT ![o] = @ /\ ~(ReaderGone(o) /\ WriterGone(o))]
  /\ isConnected_' = [isConnected_ EXCEPT ![o] = FALSE]
  /\ UNCHANGED <<acceptQ, peer, clientFd_, mine, failed>>

Destroy(o) ==
  /\ IF isConnected_[o] /\ clientFd_[o] >= 0 THEN Released(o) ELSE UNCHANGED <<sock, kq>>
  /\ clientFd_' = [clientFd_ EXCEPT ![o] = -1]
  /\ isReader_' = [isReader_ EXCEPT ![o] = FALSE]
  /\ isWriter_' = [isWriter_ EXCEPT ![o] = FALSE]
  /\ isConnected_' = [isConnected_ EXCEPT ![o] = FALSE]
  /\ mine' = [mine EXCEPT ![o] = NoConn]
  /\ failed' = [failed EXCEPT ![o] = FALSE]
  /\ UNCHANGED <<acceptQ, peer>>

-----------------------------------------------------------------------------
(* Callers.  Both event loops of the repository make an object per accept() *)
(* and let it go out of scope when that fails.                              *)

Peers == \E c \in Conns : Connect(c) \/ Finish(c) \/ Reset(c)

MayCall(o) == "keeps_failed" \in Habits \/ \A p \in Clients : ~failed[p]
MayAccept(o) == MayCall(o) /\ ("accepts_again" \in Habits \/ mine[o] = NoConn)
MaySet(o) == MayCall(o) /\ ("registers_closed" \in Habits \/ isConnected_[o])
MayDestroy(o) == failed[o] \/ MayCall(o)

ClientNext ==
  \/ Peers
  \/ \E o \in Clients :
       \/ MayAccept(o) /\ \E c \in Conns :
            \/ \E fd \in Fds : \/ AcceptReset(o, c, fd)
                               \/ Accept(o, c, fd)
                               \/ \E f \in Filters : AcceptUnregistered(o, c, fd, f)
            \/ AcceptStdin(o, c)
            \/ \E f \in Filters : AcceptStdinFails(o, c, f)
       \/ MaySet(o) /\ (SetReader(o) \/ SetWriter(o))
       \/ MayCall(o) /\ (RemoveReader(o) \/ RemoveWriter(o) \/ Close(o))
       \/ MayDestroy(o) /\ Destroy(o)

ClientSpec == ClientInit /\ [][ClientNext]_clientVars

-----------------------------------------------------------------------------
(* Properties.                                                              *)

\* Types.
ClientTypeOK ==
  /\ acceptQ \in Seq(Conns)
  /\ peer \in [Conns -> {"new", "up", "fin", "rst"}]
  /\ sock \in [Fds -> Conns \cup {NoConn}]
  /\ kq \subseteq Descriptors \X Filters
  /\ clientFd_ \in [Clients -> Descriptors \cup {-1}]
  /\ isReader_ \in [Clients -> BOOLEAN]
  /\ isWriter_ \in [Clients -> BOOLEAN]
  /\ isConnected_ \in [Clients -> BOOLEAN]
  /\ mine \in [Clients -> Conns \cup {NoConn}]
  /\ failed \in [Clients -> BOOLEAN]

\* An object whose accept() succeeded holds the descriptor of the connection
\* it accepted until it is closed: neither another object's close, nor a
\* destructor, nor a reused number can come between.  If an option call failed,
\* it works on descriptor 0 instead, and its connection is closed: never on
\* the connection of another (ClientSocket.hpp:40, :121, :142 and :166).
OwnDescriptor ==
  \A o \in Clients : isConnected_[o] /\ ~failed[o] =>
    /\ mine[o] # NoConn
    /\ \/ clientFd_[o] \in Fds /\ sock[clientFd_[o]] = mine[o]
       \/ clientFd_[o] = Stdin /\ \A fd \in Fds : sock[fd] # mine[o]

\* Of the descriptors of connections: the flags of a connected object say what
\* is registered, an object that is not connected has none set, and every
\* registration has its object.  Objects on descriptor 0 share it, and one
\* removes what the flags of another stand for (ClientSocket.hpp:178-232).
FlagsMatchKernel ==
  /\ \A o \in Clients : isConnected_[o] /\ ~failed[o] /\ clientFd_[o] # Stdin =>
       /\ isReader_[o] <=> <<clientFd_[o], "read">> \in kq
       /\ isWriter_[o] <=> <<clientFd_[o], "write">> \in kq
  /\ \A o \in Clients : ~isConnected_[o] /\ clientFd_[o] # Stdin =>
       ~isReader_[o] /\ ~isWriter_[o]
  /\ \A fd \in Fds, f \in Filters : <<fd, f>> \in kq =>
       \E o \in Clients : isConnected_[o] /\ clientFd_[o] = fd

\* A descriptor is open only as long as an object is connected to it, unless
\* its peer has reset (ClientSocket.hpp:69 and :174).
OpenIsOwned ==
  \A fd \in Fds : sock[fd] # NoConn /\ peer[sock[fd]] # "rst" =>
    \E o \in Clients : isConnected_[o] /\ clientFd_[o] = fd
=============================================================================
