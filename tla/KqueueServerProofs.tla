------------------------- MODULE KqueueServerProofs -------------------------
(* Callers with the habits of the event loops keep ClientSocket objects on  *)
(* their own connections, for any number of objects, connections and        *)
(* descriptors and whatever calls fail; an object whose options failed works *)
(* on descriptor 0, on no connection.  The server loop is such a caller, so  *)
(* all of it holds of the server; with it, clientFds_ names the owner of     *)
(* every open descriptor.                                                    *)
EXTENDS KqueueServer, TLAPS

-----------------------------------------------------------------------------
(* ClientSocket.                                                            *)

\* A connection is in one place: not opened yet, queued, or accepted.
Places ==
  /\ \A i, j \in DOMAIN acceptQ : acceptQ[i] = acceptQ[j] => i = j
  /\ \A i \in DOMAIN acceptQ : peer[acceptQ[i]] # "new"
  /\ \A i \in DOMAIN acceptQ, fd \in Fds : sock[fd] # acceptQ[i]
  /\ \A i \in DOMAIN acceptQ, o \in Clients : mine[o] # acceptQ[i]
  /\ \A fd \in Fds : sock[fd] # NoConn => peer[sock[fd]] # "new"
  /\ \A o \in Clients : mine[o] # NoConn => peer[mine[o]] # "new"
  /\ \A o \in Clients : clientFd_[o] = Stdin => mine[o] # NoConn

Distinct ==
  /\ \A fd, gd \in Fds : sock[fd] = sock[gd] /\ sock[fd] # NoConn => fd = gd
  /\ \A o, p \in Clients : mine[o] = mine[p] /\ mine[o] # NoConn => o = p
  /\ \A o, p \in Clients : failed[o] /\ failed[p] => o = p

\* An object whose accept() has just failed: its descriptor is free, or still
\* its own because the peer has reset, or descriptor 0.
FailedObjects ==
  \A o \in Clients : failed[o] =>
    /\ isConnected_[o] /\ ~isWriter_[o] /\ mine[o] # NoConn
    /\ clientFd_[o] \in Descriptors
    /\ clientFd_[o] # Stdin =>
         /\ sock[clientFd_[o]] \in {NoConn, mine[o]}
         /\ sock[clientFd_[o]] = mine[o] => peer[mine[o]] = "rst"
         /\ <<clientFd_[o], "write">> \notin kq
         /\ <<clientFd_[o], "read">> \in kq => isReader_[o]

Registrations ==
  \A fd \in Fds, f \in Filters : <<fd, f>> \in kq =>
    \E o \in Clients : /\ isConnected_[o] /\ clientFd_[o] = fd
                       /\ mine[o] # NoConn /\ sock[fd] = mine[o]

IInv ==
  /\ ClientTypeOK /\ Places /\ Distinct /\ FailedObjects /\ Registrations
  /\ OwnDescriptor /\ FlagsMatchKernel /\ OpenIsOwned

LEMMA InitIInv == ClientInit => IInv
BY FdsAssumption DEF ClientInit, Descriptors, Stdin, IInv, ClientTypeOK, Places, Distinct, FailedObjects, Registrations,
  OwnDescriptor, FlagsMatchKernel, OpenIsOwned

\* Two objects hold different descriptors, if one is in good order and on the
\* descriptor of a connection.
LEMMA Apart ==
  ASSUME IInv, NEW o \in Clients, NEW p \in Clients, o # p,
         isConnected_[o], isConnected_[p], ~failed[p], clientFd_[p] # Stdin
  PROVE  clientFd_[o] # clientFd_[p]
<1>1. sock[clientFd_[p]] = mine[p] /\ mine[p] # NoConn /\ clientFd_[p] \in Fds
  BY DEF IInv, OwnDescriptor
<1>2. clientFd_[o] = Stdin \/ sock[clientFd_[o]] \in {NoConn, mine[o]}
  BY DEF IInv, OwnDescriptor, FailedObjects
<1>3. mine[o] # mine[p]
  BY <1>1 DEF IInv, Distinct
<1>. QED BY <1>1, <1>2, <1>3

LEMMA NextIInv == ASSUME Habits = {}, IInv, ClientNext PROVE IInv'
<1>. USE FdsAssumption, NoConnAssumption
     DEF IInv, ClientTypeOK, Filters, fields, Registration, Descriptors, Stdin
<1>1. ASSUME NEW c \in Conns, Connect(c) PROVE IInv'
  <2>1. ClientTypeOK' BY <1>1 DEF Connect, FailedObjects, OwnDescriptor
  <2>2. Places' BY <1>1 DEF Connect, Places
  <2>3. Distinct' BY <1>1 DEF Connect, Places, Distinct, FailedObjects
  <2>4. FailedObjects' BY <1>1 DEF Connect, FailedObjects, Distinct, Places, OwnDescriptor, FlagsMatchKernel, Registrations
  <2>5. Registrations' BY <1>1 DEF Connect, Registrations, Distinct, Places, FailedObjects, OwnDescriptor, FlagsMatchKernel
  <2>6. OwnDescriptor' BY <1>1 DEF Connect, OwnDescriptor, Distinct, Places, FailedObjects
  <2>7. (\A p \in Clients : isConnected_[p] /\ ~failed[p] /\ clientFd_[p] # Stdin =>
            /\ isReader_[p] <=> <<clientFd_[p], "read">> \in kq
            /\ isWriter_[p] <=> <<clientFd_[p], "write">> \in kq)'
    BY <1>1 DEF Connect, FlagsMatchKernel, OwnDescriptor, Distinct, FailedObjects, Registrations
  <2>8. (\A p \in Clients : ~isConnected_[p] /\ clientFd_[p] # Stdin => ~isReader_[p] /\ ~isWriter_[p])'
    BY <1>1 DEF Connect, FlagsMatchKernel, FailedObjects, OwnDescriptor
  <2>9. FlagsMatchKernel' BY <2>1, <2>5, <2>7, <2>8 DEF FlagsMatchKernel, Registrations
  <2>10. OpenIsOwned' BY <1>1 DEF Connect, OpenIsOwned, Places, FailedObjects, OwnDescriptor, Distinct
  <2>. QED BY <2>1, <2>2, <2>3, <2>4, <2>5, <2>6, <2>9, <2>10
<1>2. ASSUME NEW c \in Conns, Finish(c) PROVE IInv'
  <2>1. ClientTypeOK' BY <1>2 DEF Finish, FailedObjects, OwnDescriptor
  <2>2. Places' BY <1>2 DEF Finish, Places
  <2>3. Distinct' BY <1>2 DEF Finish, Places, Distinct, FailedObjects
  <2>4. FailedObjects' BY <1>2 DEF Finish, FailedObjects, Distinct, Places, OwnDescriptor, FlagsMatchKernel, Registrations
  <2>5. Registrations' BY <1>2, ZenonT(30) DEF Finish, Registrations
  <2>6. OwnDescriptor' BY <1>2 DEF Finish, OwnDescriptor, Distinct, Places, FailedObjects
  <2>7. (\A p \in Clients : isConnected_[p] /\ ~failed[p] /\ clientFd_[p] # Stdin =>
            /\ isReader_[p] <=> <<clientFd_[p], "read">> \in kq
            /\ isWriter_[p] <=> <<clientFd_[p], "write">> \in kq)'
    BY <1>2 DEF Finish, FlagsMatchKernel, OwnDescriptor, Distinct, FailedObjects, Registrations
  <2>8. (\A p \in Clients : ~isConnected_[p] /\ clientFd_[p] # Stdin => ~isReader_[p] /\ ~isWriter_[p])'
    BY <1>2 DEF Finish, FlagsMatchKernel, FailedObjects, OwnDescriptor
  <2>9. FlagsMatchKernel' BY <2>1, <2>5, <2>7, <2>8 DEF FlagsMatchKernel, Registrations
  <2>10. OpenIsOwned' BY <1>2 DEF Finish, OpenIsOwned, Places, FailedObjects, OwnDescriptor, Distinct
  <2>. QED BY <2>1, <2>2, <2>3, <2>4, <2>5, <2>6, <2>9, <2>10
<1>3. ASSUME NEW c \in Conns, Reset(c) PROVE IInv'
  <2>1. ClientTypeOK' BY <1>3 DEF Reset, FailedObjects, OwnDescriptor
  <2>2. Places' BY <1>3 DEF Reset, Places
  <2>3. Distinct' BY <1>3 DEF Reset, Places, Distinct, FailedObjects
  <2>4. FailedObjects' BY <1>3 DEF Reset, FailedObjects, Distinct, Places, OwnDescriptor, FlagsMatchKernel, Registrations
  <2>5. Registrations' BY <1>3, ZenonT(30) DEF Reset, Registrations
  <2>6. OwnDescriptor' BY <1>3 DEF Reset, OwnDescriptor, Distinct, Places, FailedObjects
  <2>7. (\A p \in Clients : isConnected_[p] /\ ~failed[p] /\ clientFd_[p] # Stdin =>
            /\ isReader_[p] <=> <<clientFd_[p], "read">> \in kq
            /\ isWriter_[p] <=> <<clientFd_[p], "write">> \in kq)'
    BY <1>3 DEF Reset, FlagsMatchKernel, OwnDescriptor, Distinct, FailedObjects, Registrations
  <2>8. (\A p \in Clients : ~isConnected_[p] /\ clientFd_[p] # Stdin => ~isReader_[p] /\ ~isWriter_[p])'
    BY <1>3 DEF Reset, FlagsMatchKernel, FailedObjects, OwnDescriptor
  <2>9. FlagsMatchKernel' BY <2>1, <2>5, <2>7, <2>8 DEF FlagsMatchKernel, Registrations
  <2>10. OpenIsOwned' BY <1>3 DEF Reset, OpenIsOwned, Places, FailedObjects, OwnDescriptor, Distinct
  <2>. QED BY <2>1, <2>2, <2>3, <2>4, <2>5, <2>6, <2>9, <2>10
<1>4. ASSUME NEW o \in Clients, NEW c \in Conns, NEW fd \in Fds,
             MayAccept(o), AcceptReset(o, c, fd) PROVE IInv'
  <2>1. ClientTypeOK' BY <1>4 DEF AcceptReset, Taken, Lowest, Free, MayAccept, MayCall, FailedObjects, OwnDescriptor
  <2>2. Places' BY <1>4, SMTT(30) DEF AcceptReset, Taken, Lowest, Free, MayAccept, MayCall, Places
  <2>3. Distinct' BY <1>4 DEF AcceptReset, Taken, Lowest, Free, MayAccept, MayCall, Places, Distinct, FailedObjects
  <2>4. FailedObjects' BY <1>4 DEF AcceptReset, Taken, Lowest, Free, MayAccept, MayCall, FailedObjects, Distinct, Places, OwnDescriptor, FlagsMatchKernel, Registrations
  <2>5. Registrations'
    <3>1. \A g \in Fds, f1 \in Filters : <<g, f1>> \in kq => g # fd
      BY <1>4 DEF AcceptReset, Lowest, Free, Registrations
    <3>2. \A g \in Fds : g # fd => sock'[g] = sock[g]
      BY <1>4 DEF AcceptReset
    <3>3. UNCHANGED <<kq, fields, mine>>
      BY <1>4 DEF AcceptReset
    <3>. SUFFICES ASSUME NEW g \in Fds, NEW f1 \in Filters, <<g, f1>> \in kq
                  PROVE  \E p \in Clients : /\ isConnected_[p] /\ clientFd_[p] = g
                                            /\ mine[p] # NoConn /\ sock'[g] = mine[p]
      BY <3>3 DEF Registrations
    <3>4. PICK p \in Clients : /\ isConnected_[p] /\ clientFd_[p] = g
                               /\ mine[p] # NoConn /\ sock[g] = mine[p]
      BY DEF Registrations
    <3>. QED BY <3>1, <3>2, <3>4
  <2>6. OwnDescriptor' BY <1>4 DEF AcceptReset, Taken, Lowest, Free, MayAccept, MayCall, OwnDescriptor, Distinct, Places, FailedObjects
  <2>7. (\A p \in Clients : isConnected_[p] /\ ~failed[p] /\ clientFd_[p] # Stdin =>
            /\ isReader_[p] <=> <<clientFd_[p], "read">> \in kq
            /\ isWriter_[p] <=> <<clientFd_[p], "write">> \in kq)'
    BY <1>4 DEF AcceptReset, Taken, Lowest, Free, MayAccept, MayCall, FlagsMatchKernel, OwnDescriptor, Distinct, FailedObjects, Registrations
  <2>8. (\A p \in Clients : ~isConnected_[p] /\ clientFd_[p] # Stdin => ~isReader_[p] /\ ~isWriter_[p])'
    BY <1>4 DEF AcceptReset, Taken, Lowest, Free, MayAccept, MayCall, FlagsMatchKernel, FailedObjects, OwnDescriptor
  <2>9. FlagsMatchKernel' BY <2>1, <2>5, <2>7, <2>8 DEF FlagsMatchKernel, Registrations
  <2>10. OpenIsOwned' BY <1>4 DEF AcceptReset, Taken, Lowest, Free, MayAccept, MayCall, OpenIsOwned, Places, FailedObjects, OwnDescriptor, Distinct
  <2>. QED BY <2>1, <2>2, <2>3, <2>4, <2>5, <2>6, <2>9, <2>10
<1>5. ASSUME NEW o \in Clients, NEW c \in Conns, NEW fd \in Fds,
             MayAccept(o), Accept(o, c, fd) PROVE IInv'
  <2>1. ClientTypeOK' BY <1>5 DEF Accept, Taken, Lowest, Free, Missing, Flagged, MayAccept, MayCall, FailedObjects, OwnDescriptor
  <2>2. Places' BY <1>5 DEF Accept, Taken, Lowest, Free, Missing, Flagged, MayAccept, MayCall, Places
  <2>3. Distinct' BY <1>5 DEF Accept, Taken, Lowest, Free, Missing, Flagged, MayAccept, MayCall, Places, Distinct, FailedObjects
  <2>4. FailedObjects' BY <1>5 DEF Accept, Taken, Lowest, Free, Missing, Flagged, MayAccept, MayCall, FailedObjects, Distinct, Places, OwnDescriptor, FlagsMatchKernel, Registrations
  <2>5. Registrations'
    <3>1. \A g \in Fds, f1 \in Filters : <<g, f1>> \in kq => g # fd
      BY <1>5 DEF Accept, Lowest, Free, Registrations
    <3>2. \A g \in Fds : g # fd => sock'[g] = sock[g]
      BY <1>5 DEF Accept
    <3>3. mine[o] = NoConn
      BY <1>5 DEF MayAccept
    <3>4. \A p \in Clients : p # o =>
            isConnected_'[p] = isConnected_[p] /\ clientFd_'[p] = clientFd_[p] /\ mine'[p] = mine[p]
      BY <1>5 DEF Accept
    <3>5. /\ isConnected_'[o] /\ clientFd_'[o] = fd /\ mine'[o] = c
          /\ kq' = kq \/ sock'[fd] = c
      BY <1>5 DEF Accept
    <3>6. \A g \in Fds, f1 \in Filters : <<g, f1>> \in kq' => g = fd \/ <<g, f1>> \in kq
      BY <1>5 DEF Accept
    <3>. SUFFICES ASSUME NEW g \in Fds, NEW f1 \in Filters, <<g, f1>> \in kq'
                  PROVE \E p \in Clients : /\ isConnected_'[p] /\ clientFd_'[p] = g
                                           /\ mine'[p] # NoConn /\ sock'[g] = mine'[p]
      BY DEF Registrations
    <3>7. CASE <<g, f1>> \in kq
      <4>1. PICK p \in Clients : /\ isConnected_[p] /\ clientFd_[p] = g
                                 /\ mine[p] # NoConn /\ sock[g] = mine[p]
        BY <3>7 DEF Registrations
      <4>2. p # o /\ g # fd
        BY <3>1, <3>3, <3>7, <4>1
      <4>. QED BY <3>2, <3>4, <4>1, <4>2
    <3>8. CASE <<g, f1>> \notin kq
      BY <3>5, <3>6, <3>8
    <3>. QED BY <3>7, <3>8
  <2>6. OwnDescriptor' BY <1>5 DEF Accept, Taken, Lowest, Free, Missing, Flagged, MayAccept, MayCall, OwnDescriptor, Distinct, Places, FailedObjects
  <2>7. (\A p \in Clients : isConnected_[p] /\ ~failed[p] /\ clientFd_[p] # Stdin =>
            /\ isReader_[p] <=> <<clientFd_[p], "read">> \in kq
            /\ isWriter_[p] <=> <<clientFd_[p], "write">> \in kq)'
    <3>1. Missing(o) = Filters
      BY <1>5 DEF MayAccept, MayCall, FlagsMatchKernel, OwnDescriptor, Missing, Flagged, Places
    <3>2. /\ kq' = kq \cup ({fd} \X Filters)
          /\ clientFd_'[o] = fd /\ isReader_'[o] /\ isWriter_'[o]
      BY <1>5, <3>1 DEF Accept
    <3>3. \A p \in Clients : p # o =>
            /\ isConnected_'[p] = isConnected_[p] /\ clientFd_'[p] = clientFd_[p]
            /\ isReader_'[p] = isReader_[p] /\ isWriter_'[p] = isWriter_[p] /\ failed'[p] = failed[p]
      BY <1>5 DEF Accept
    <3>4. \A p \in Clients : isConnected_[p] /\ ~failed[p] => clientFd_[p] # fd
      BY <1>5 DEF Accept, Lowest, Free, OwnDescriptor
    <3>. SUFFICES ASSUME NEW p \in Clients, isConnected_'[p], ~failed'[p], clientFd_'[p] # Stdin
                  PROVE  /\ isReader_'[p] <=> <<clientFd_'[p], "read">> \in kq'
                         /\ isWriter_'[p] <=> <<clientFd_'[p], "write">> \in kq'
      OBVIOUS
    <3>5. CASE p = o
      BY <3>2, <3>5
    <3>6. CASE p # o
      BY <3>2, <3>3, <3>4, <3>6 DEF FlagsMatchKernel
    <3>. QED BY <3>5, <3>6
  <2>8. (\A p \in Clients : ~isConnected_[p] /\ clientFd_[p] # Stdin => ~isReader_[p] /\ ~isWriter_[p])'
    BY <1>5 DEF Accept, Taken, Lowest, Free, Missing, Flagged, MayAccept, MayCall, FlagsMatchKernel, FailedObjects, OwnDescriptor
  <2>9. FlagsMatchKernel' BY <2>1, <2>5, <2>7, <2>8 DEF FlagsMatchKernel, Registrations
  <2>10. OpenIsOwned' BY <1>5 DEF Accept, Taken, Lowest, Free, Missing, Flagged, MayAccept, MayCall, OpenIsOwned, Places, FailedObjects, OwnDescriptor, Distinct
  <2>. QED BY <2>1, <2>2, <2>3, <2>4, <2>5, <2>6, <2>9, <2>10
<1>6. ASSUME NEW o \in Clients, NEW c \in Conns, NEW fd \in Fds, NEW f \in Filters,
             MayAccept(o), AcceptUnregistered(o, c, fd, f) PROVE IInv'
  <2>1. ClientTypeOK' BY <1>6 DEF AcceptUnregistered, Taken, Lowest, Free, Missing, Flagged, Before, MayAccept, MayCall, FailedObjects, OwnDescriptor
  <2>2. Places' BY <1>6 DEF AcceptUnregistered, Taken, Lowest, Free, Missing, Flagged, Before, MayAccept, MayCall, Places
  <2>3. Distinct' BY <1>6 DEF AcceptUnregistered, Taken, Lowest, Free, Missing, Flagged, Before, MayAccept, MayCall, Places, Distinct, FailedObjects
  <2>4. FailedObjects'
    <3>1. \A p \in Clients : failed'[p] => p = o
      BY <1>6 DEF AcceptUnregistered, MayAccept, MayCall
    <3>2. \A g \in Filters : <<fd, g>> \notin kq
      BY <1>6 DEF Lowest, Free, AcceptUnregistered, Registrations
    <3>3. Missing(o) = Filters /\ ~isReader_[o] /\ ~isWriter_[o]
      BY <1>6 DEF MayAccept, MayCall, FlagsMatchKernel, OwnDescriptor, Missing, Flagged, Places
    <3>4. \A g \in Filters : <<fd, g>> \in kq' => g = "read" /\ isReader_'[o]
      <4>1. CASE f = "read"
        <5>1. Before(o, f) = {}
          BY <4>1, <3>3 DEF Before
        <5>. QED BY <1>6, <5>1, <3>2 DEF AcceptUnregistered
      <4>2. CASE f = "write"
        <5>1. Before(o, f) = {"read"}
          BY <4>2, <3>3 DEF Before
        <5>. QED BY <1>6, <5>1, <3>2 DEF AcceptUnregistered
      <4>. QED BY <4>1, <4>2
    <3>6. /\ isConnected_'[o] /\ ~isWriter_'[o]
          /\ clientFd_'[o] = fd /\ mine'[o] = c
          /\ sock'[fd] \in {NoConn, c} /\ (sock'[fd] = c => peer'[c] = "rst")
      BY <1>6, <3>3 DEF AcceptUnregistered
    <3>7. /\ isConnected_'[o] /\ ~isWriter_'[o] /\ mine'[o] # NoConn
          /\ clientFd_'[o] \in Descriptors
          /\ sock'[clientFd_'[o]] \in {NoConn, mine'[o]}
          /\ sock'[clientFd_'[o]] = mine'[o] => peer'[mine'[o]] = "rst"
          /\ <<clientFd_'[o], "write">> \notin kq'
          /\ <<clientFd_'[o], "read">> \in kq' => isReader_'[o]
      BY <3>4, <3>6
    <3>. QED BY <3>1, <3>7 DEF FailedObjects
  <2>5. Registrations'
    <3>1. \A g \in Fds, f1 \in Filters : <<g, f1>> \in kq => g # fd
      BY <1>6 DEF AcceptUnregistered, Lowest, Free, Registrations
    <3>2. \A g \in Fds : g # fd => sock'[g] = sock[g]
      BY <1>6 DEF AcceptUnregistered
    <3>3. mine[o] = NoConn
      BY <1>6 DEF MayAccept
    <3>4. \A p \in Clients : p # o =>
            isConnected_'[p] = isConnected_[p] /\ clientFd_'[p] = clientFd_[p] /\ mine'[p] = mine[p]
      BY <1>6 DEF AcceptUnregistered
    <3>5. /\ isConnected_'[o] /\ clientFd_'[o] = fd /\ mine'[o] = c
          /\ kq' = kq \/ sock'[fd] = c
      BY <1>6 DEF AcceptUnregistered
    <3>6. \A g \in Fds, f1 \in Filters : <<g, f1>> \in kq' => g = fd \/ <<g, f1>> \in kq
      BY <1>6 DEF AcceptUnregistered
    <3>. SUFFICES ASSUME NEW g \in Fds, NEW f1 \in Filters, <<g, f1>> \in kq'
                  PROVE \E p \in Clients : /\ isConnected_'[p] /\ clientFd_'[p] = g
                                           /\ mine'[p] # NoConn /\ sock'[g] = mine'[p]
      BY DEF Registrations
    <3>7. CASE <<g, f1>> \in kq
      <4>1. PICK p \in Clients : /\ isConnected_[p] /\ clientFd_[p] = g
                                 /\ mine[p] # NoConn /\ sock[g] = mine[p]
        BY <3>7 DEF Registrations
      <4>2. p # o /\ g # fd
        BY <3>1, <3>3, <3>7, <4>1
      <4>. QED BY <3>2, <3>4, <4>1, <4>2
    <3>8. CASE <<g, f1>> \notin kq
      BY <3>5, <3>6, <3>8
    <3>. QED BY <3>7, <3>8
  <2>6. OwnDescriptor' BY <1>6 DEF AcceptUnregistered, Taken, Lowest, Free, Missing, Flagged, Before, MayAccept, MayCall, OwnDescriptor, Distinct, Places, FailedObjects
  <2>7. (\A p \in Clients : isConnected_[p] /\ ~failed[p] /\ clientFd_[p] # Stdin =>
            /\ isReader_[p] <=> <<clientFd_[p], "read">> \in kq
            /\ isWriter_[p] <=> <<clientFd_[p], "write">> \in kq)'
    BY <1>6 DEF AcceptUnregistered, Taken, Lowest, Free, Missing, Flagged, Before, MayAccept, MayCall, FlagsMatchKernel, OwnDescriptor, Distinct, FailedObjects, Registrations
  <2>8. (\A p \in Clients : ~isConnected_[p] /\ clientFd_[p] # Stdin => ~isReader_[p] /\ ~isWriter_[p])'
    BY <1>6 DEF AcceptUnregistered, Taken, Lowest, Free, Missing, Flagged, Before, MayAccept, MayCall, FlagsMatchKernel, FailedObjects, OwnDescriptor
  <2>9. FlagsMatchKernel' BY <2>1, <2>5, <2>7, <2>8 DEF FlagsMatchKernel, Registrations
  <2>10. OpenIsOwned' BY <1>6 DEF AcceptUnregistered, Taken, Lowest, Free, Missing, Flagged, Before, MayAccept, MayCall, OpenIsOwned, Places, FailedObjects, OwnDescriptor, Distinct
  <2>. QED BY <2>1, <2>2, <2>3, <2>4, <2>5, <2>6, <2>9, <2>10
<1>15. ASSUME NEW o \in Clients, NEW c \in Conns,
             MayAccept(o), AcceptStdin(o, c) PROVE IInv'
  <2>0. /\ UNCHANGED <<sock, peer>>
        /\ kq \subseteq kq' /\ \A r \in kq' : r \in kq \/ r[1] = Stdin
        /\ mine[o] = NoConn /\ mine' = [mine EXCEPT ![o] = c]
        /\ clientFd_' = [clientFd_ EXCEPT ![o] = Stdin]
        /\ isConnected_' = [isConnected_ EXCEPT ![o] = TRUE]
        /\ \A p \in Clients : p # o => /\ isReader_'[p] = isReader_[p] /\ isWriter_'[p] = isWriter_[p]
                                       /\ failed'[p] = failed[p]
        /\ \A p \in Clients : ~failed[p]
    BY <1>15 DEF AcceptStdin, OptionFails, Taken, Missing, Flagged, Before, MayAccept, MayCall
  <2>1. ClientTypeOK' BY <1>15 DEF AcceptStdin, OptionFails, Taken, Missing, Flagged, Before, MayAccept, MayCall
  <2>2. Places' BY <1>15 DEF AcceptStdin, OptionFails, Taken, Missing, Flagged, Before, MayAccept, MayCall, Places
  <2>3. Distinct'
    <3>1. \A p \in Clients : mine[p] # c
      BY <1>15 DEF AcceptStdin, OptionFails, Taken, Places
    <3>2. \A p \in Clients : ~failed'[p]
      BY <2>0, <1>15 DEF AcceptStdin
    <3>. QED BY <2>0, <3>1, <3>2 DEF Distinct
  <2>4. FailedObjects' BY <2>0, <1>15 DEF AcceptStdin, OptionFails, Taken, Missing, Flagged, Before, MayAccept, MayCall, FailedObjects, FlagsMatchKernel, OwnDescriptor
  <2>5. Registrations'
    <3>1. \A p \in Clients : isConnected_[p] /\ mine[p] # NoConn =>
            p # o /\ isConnected_'[p] /\ clientFd_'[p] = clientFd_[p] /\ mine'[p] = mine[p]
      BY <2>0
    <3>2. \A fd \in Fds, f1 \in Filters : <<fd, f1>> \in kq' => <<fd, f1>> \in kq
      BY <2>0
    <3>. SUFFICES ASSUME NEW g \in Fds, NEW f1 \in Filters, <<g, f1>> \in kq'
                  PROVE  \E p \in Clients : /\ isConnected_'[p] /\ clientFd_'[p] = g
                                            /\ mine'[p] # NoConn /\ sock'[g] = mine'[p]
      BY DEF Registrations
    <3>3. PICK p \in Clients : /\ isConnected_[p] /\ clientFd_[p] = g
                               /\ mine[p] # NoConn /\ sock[g] = mine[p]
      BY <3>2 DEF Registrations
    <3>. QED BY <2>0, <3>1, <3>3
  <2>6. OwnDescriptor'
    <3>1. \A fd \in Fds : sock[fd] # c
      BY <1>15 DEF AcceptStdin, OptionFails, Taken, Missing, Flagged, Before, MayAccept, MayCall, Places
    <3>. QED BY <2>0, <3>1 DEF OwnDescriptor
  <2>7. (\A p \in Clients : isConnected_[p] /\ ~failed[p] /\ clientFd_[p] # Stdin =>
            /\ isReader_[p] <=> <<clientFd_[p], "read">> \in kq
            /\ isWriter_[p] <=> <<clientFd_[p], "write">> \in kq)'
    BY <2>0 DEF FlagsMatchKernel
  <2>8. (\A p \in Clients : ~isConnected_[p] /\ clientFd_[p] # Stdin => ~isReader_[p] /\ ~isWriter_[p])'
    BY <2>0 DEF FlagsMatchKernel
  <2>9. FlagsMatchKernel' BY <2>1, <2>5, <2>7, <2>8 DEF FlagsMatchKernel, Registrations
  <2>10. OpenIsOwned' BY <2>0 DEF OpenIsOwned, OwnDescriptor
  <2>. QED BY <2>1, <2>2, <2>3, <2>4, <2>5, <2>6, <2>9, <2>10
<1>16. ASSUME NEW o \in Clients, NEW c \in Conns, NEW f \in Filters,
             MayAccept(o), AcceptStdinFails(o, c, f) PROVE IInv'
  <2>0. /\ UNCHANGED <<sock, peer>>
        /\ kq \subseteq kq' /\ \A r \in kq' : r \in kq \/ r[1] = Stdin
        /\ mine[o] = NoConn /\ mine' = [mine EXCEPT ![o] = c]
        /\ clientFd_' = [clientFd_ EXCEPT ![o] = Stdin]
        /\ isConnected_' = [isConnected_ EXCEPT ![o] = TRUE]
        /\ \A p \in Clients : p # o => /\ isReader_'[p] = isReader_[p] /\ isWriter_'[p] = isWriter_[p]
                                       /\ failed'[p] = failed[p]
        /\ \A p \in Clients : ~failed[p]
    BY <1>16 DEF AcceptStdinFails, OptionFails, Taken, Missing, Flagged, Before, MayAccept, MayCall
  <2>1. ClientTypeOK' BY <1>16 DEF AcceptStdinFails, OptionFails, Taken, Missing, Flagged, Before, MayAccept, MayCall
  <2>2. Places' BY <1>16 DEF AcceptStdinFails, OptionFails, Taken, Missing, Flagged, Before, MayAccept, MayCall, Places
  <2>3. Distinct' BY <2>0, <1>16 DEF AcceptStdinFails, OptionFails, Taken, Missing, Flagged, Before, MayAccept, MayCall, Places, Distinct
  <2>4. FailedObjects'
    <3>1. ~isConnected_[o] /\ clientFd_[o] # Stdin
      BY <2>0 DEF OwnDescriptor, Places
    <3>2. ~isWriter_'[o] /\ isConnected_'[o] /\ mine'[o] # NoConn /\ clientFd_'[o] = Stdin
      BY <2>0, <3>1, <1>16 DEF AcceptStdinFails, FlagsMatchKernel
    <3>3. \A p \in Clients : failed'[p] => p = o
      BY <2>0
    <3>. QED BY <3>2, <3>3 DEF FailedObjects
  <2>5. Registrations'
    <3>1. \A p \in Clients : isConnected_[p] /\ mine[p] # NoConn =>
            p # o /\ isConnected_'[p] /\ clientFd_'[p] = clientFd_[p] /\ mine'[p] = mine[p]
      BY <2>0
    <3>2. \A fd \in Fds, f1 \in Filters : <<fd, f1>> \in kq' => <<fd, f1>> \in kq
      BY <2>0
    <3>. SUFFICES ASSUME NEW g \in Fds, NEW f1 \in Filters, <<g, f1>> \in kq'
                  PROVE  \E p \in Clients : /\ isConnected_'[p] /\ clientFd_'[p] = g
                                            /\ mine'[p] # NoConn /\ sock'[g] = mine'[p]
      BY DEF Registrations
    <3>3. PICK p \in Clients : /\ isConnected_[p] /\ clientFd_[p] = g
                               /\ mine[p] # NoConn /\ sock[g] = mine[p]
      BY <3>2 DEF Registrations
    <3>. QED BY <2>0, <3>1, <3>3
  <2>6. OwnDescriptor'
    <3>1. \A fd \in Fds : sock[fd] # c
      BY <1>16 DEF AcceptStdinFails, OptionFails, Taken, Missing, Flagged, Before, MayAccept, MayCall, Places
    <3>. QED BY <2>0, <3>1 DEF OwnDescriptor
  <2>7. (\A p \in Clients : isConnected_[p] /\ ~failed[p] /\ clientFd_[p] # Stdin =>
            /\ isReader_[p] <=> <<clientFd_[p], "read">> \in kq
            /\ isWriter_[p] <=> <<clientFd_[p], "write">> \in kq)'
    BY <2>0 DEF FlagsMatchKernel
  <2>8. (\A p \in Clients : ~isConnected_[p] /\ clientFd_[p] # Stdin => ~isReader_[p] /\ ~isWriter_[p])'
    BY <2>0 DEF FlagsMatchKernel
  <2>9. FlagsMatchKernel' BY <2>1, <2>5, <2>7, <2>8 DEF FlagsMatchKernel, Registrations
  <2>10. OpenIsOwned' BY <2>0 DEF OpenIsOwned, OwnDescriptor
  <2>. QED BY <2>1, <2>2, <2>3, <2>4, <2>5, <2>6, <2>9, <2>10
<1>7. ASSUME NEW o \in Clients, MaySet(o), SetReader(o) PROVE IInv'
  <2>1. ClientTypeOK' BY <1>7 DEF SetReader, OpenFd, MaySet, MayCall, FailedObjects, OwnDescriptor
  <2>2. Places' BY <1>7 DEF SetReader, OpenFd, MaySet, MayCall, Places
  <2>3. Distinct' BY <1>7 DEF SetReader, OpenFd, MaySet, MayCall, Places, Distinct, FailedObjects
  <2>4. FailedObjects' BY <1>7 DEF SetReader, OpenFd, MaySet, MayCall, FailedObjects, Distinct, Places, OwnDescriptor, FlagsMatchKernel, Registrations
  <2>5. Registrations'
    <3>1. /\ kq' = kq \cup {<<clientFd_[o], "read">>}
          /\ UNCHANGED <<sock, clientFd_, isConnected_, mine>>
      BY <1>7 DEF SetReader
    <3>2. isConnected_[o] /\ mine[o] # NoConn
          /\ (clientFd_[o] = Stdin \/ sock[clientFd_[o]] = mine[o])
      BY <1>7 DEF MaySet, MayCall, OwnDescriptor
    <3>. SUFFICES ASSUME NEW g \in Fds, NEW f1 \in Filters, <<g, f1>> \in kq'
                  PROVE  \E p \in Clients : /\ isConnected_[p] /\ clientFd_[p] = g
                                            /\ mine[p] # NoConn /\ sock[g] = mine[p]
      BY <3>1 DEF Registrations
    <3>3. CASE <<g, f1>> \in kq
      BY <3>3 DEF Registrations
    <3>4. CASE <<g, f1>> \notin kq
      <4>1. g = clientFd_[o] /\ g # Stdin
        BY <3>1, <3>4
      <4>. QED BY <3>2, <4>1
    <3>. QED BY <3>3, <3>4
  <2>6. OwnDescriptor' BY <1>7 DEF SetReader, OpenFd, MaySet, MayCall, OwnDescriptor, Distinct, Places, FailedObjects
  <2>7. (\A p \in Clients : isConnected_[p] /\ ~failed[p] /\ clientFd_[p] # Stdin =>
            /\ isReader_[p] <=> <<clientFd_[p], "read">> \in kq
            /\ isWriter_[p] <=> <<clientFd_[p], "write">> \in kq)'
    BY <1>7 DEF SetReader, OpenFd, MaySet, MayCall, FlagsMatchKernel, OwnDescriptor, Distinct, FailedObjects, Registrations
  <2>8. (\A p \in Clients : ~isConnected_[p] /\ clientFd_[p] # Stdin => ~isReader_[p] /\ ~isWriter_[p])'
    BY <1>7 DEF SetReader, OpenFd, MaySet, MayCall, FlagsMatchKernel, FailedObjects, OwnDescriptor
  <2>9. FlagsMatchKernel' BY <2>1, <2>5, <2>7, <2>8 DEF FlagsMatchKernel, Registrations
  <2>10. OpenIsOwned' BY <1>7 DEF SetReader, OpenFd, MaySet, MayCall, OpenIsOwned, Places, FailedObjects, OwnDescriptor, Distinct
  <2>. QED BY <2>1, <2>2, <2>3, <2>4, <2>5, <2>6, <2>9, <2>10
<1>8. ASSUME NEW o \in Clients, MaySet(o), SetWriter(o) PROVE IInv'
  <2>1. ClientTypeOK' BY <1>8 DEF SetWriter, OpenFd, MaySet, MayCall, FailedObjects, OwnDescriptor
  <2>2. Places' BY <1>8 DEF SetWriter, OpenFd, MaySet, MayCall, Places
  <2>3. Distinct' BY <1>8 DEF SetWriter, OpenFd, MaySet, MayCall, Places, Distinct, FailedObjects
  <2>4. FailedObjects' BY <1>8 DEF SetWriter, OpenFd, MaySet, MayCall, FailedObjects, Distinct, Places, OwnDescriptor, FlagsMatchKernel, Registrations
  <2>5. Registrations'
    <3>1. /\ kq' = kq \cup {<<clientFd_[o], "write">>}
          /\ UNCHANGED <<sock, clientFd_, isConnected_, mine>>
      BY <1>8 DEF SetWriter
    <3>2. isConnected_[o] /\ mine[o] # NoConn
          /\ (clientFd_[o] = Stdin \/ sock[clientFd_[o]] = mine[o])
      BY <1>8 DEF MaySet, MayCall, OwnDescriptor
    <3>. SUFFICES ASSUME NEW g \in Fds, NEW f1 \in Filters, <<g, f1>> \in kq'
                  PROVE  \E p \in Clients : /\ isConnected_[p] /\ clientFd_[p] = g
                                            /\ mine[p] # NoConn /\ sock[g] = mine[p]
      BY <3>1 DEF Registrations
    <3>3. CASE <<g, f1>> \in kq
      BY <3>3 DEF Registrations
    <3>4. CASE <<g, f1>> \notin kq
      <4>1. g = clientFd_[o] /\ g # Stdin
        BY <3>1, <3>4
      <4>. QED BY <3>2, <4>1
    <3>. QED BY <3>3, <3>4
  <2>6. OwnDescriptor' BY <1>8 DEF SetWriter, OpenFd, MaySet, MayCall, OwnDescriptor, Distinct, Places, FailedObjects
  <2>7. (\A p \in Clients : isConnected_[p] /\ ~failed[p] /\ clientFd_[p] # Stdin =>
            /\ isReader_[p] <=> <<clientFd_[p], "read">> \in kq
            /\ isWriter_[p] <=> <<clientFd_[p], "write">> \in kq)'
    BY <1>8 DEF SetWriter, OpenFd, MaySet, MayCall, FlagsMatchKernel, OwnDescriptor, Distinct, FailedObjects, Registrations
  <2>8. (\A p \in Clients : ~isConnected_[p] /\ clientFd_[p] # Stdin => ~isReader_[p] /\ ~isWriter_[p])'
    BY <1>8 DEF SetWriter, OpenFd, MaySet, MayCall, FlagsMatchKernel, FailedObjects, OwnDescriptor
  <2>9. FlagsMatchKernel' BY <2>1, <2>5, <2>7, <2>8 DEF FlagsMatchKernel, Registrations
  <2>10. OpenIsOwned' BY <1>8 DEF SetWriter, OpenFd, MaySet, MayCall, OpenIsOwned, Places, FailedObjects, OwnDescriptor, Distinct
  <2>. QED BY <2>1, <2>2, <2>3, <2>4, <2>5, <2>6, <2>9, <2>10
<1>9. ASSUME NEW o \in Clients, MayCall(o), RemoveReader(o) PROVE IInv'
  <2>1. ClientTypeOK' BY <1>9 DEF RemoveReader, MayCall, FailedObjects, OwnDescriptor
  <2>2. Places' BY <1>9 DEF RemoveReader, MayCall, Places
  <2>3. Distinct' BY <1>9 DEF RemoveReader, MayCall, Places, Distinct, FailedObjects
  <2>4. FailedObjects' BY <1>9 DEF RemoveReader, MayCall, FailedObjects, Distinct, Places, OwnDescriptor, FlagsMatchKernel, Registrations
  <2>5. Registrations' BY <1>9, ZenonT(30) DEF RemoveReader, MayCall, Registrations, Distinct, Places, FailedObjects, OwnDescriptor, FlagsMatchKernel
  <2>6. OwnDescriptor' BY <1>9 DEF RemoveReader, MayCall, OwnDescriptor, Distinct, Places, FailedObjects
  <2>7. (\A p \in Clients : isConnected_[p] /\ ~failed[p] /\ clientFd_[p] # Stdin =>
            /\ isReader_[p] <=> <<clientFd_[p], "read">> \in kq
            /\ isWriter_[p] <=> <<clientFd_[p], "write">> \in kq)'
    BY <1>9 DEF RemoveReader, MayCall, FlagsMatchKernel, OwnDescriptor, Distinct, FailedObjects, Registrations
  <2>8. (\A p \in Clients : ~isConnected_[p] /\ clientFd_[p] # Stdin => ~isReader_[p] /\ ~isWriter_[p])'
    BY <1>9 DEF RemoveReader, MayCall, FlagsMatchKernel, FailedObjects, OwnDescriptor
  <2>9. FlagsMatchKernel' BY <2>1, <2>5, <2>7, <2>8 DEF FlagsMatchKernel, Registrations
  <2>10. OpenIsOwned' BY <1>9 DEF RemoveReader, MayCall, OpenIsOwned, Places, FailedObjects, OwnDescriptor, Distinct
  <2>. QED BY <2>1, <2>2, <2>3, <2>4, <2>5, <2>6, <2>9, <2>10
<1>10. ASSUME NEW o \in Clients, MayCall(o), RemoveWriter(o) PROVE IInv'
  <2>1. ClientTypeOK' BY <1>10 DEF RemoveWriter, MayCall, FailedObjects, OwnDescriptor
  <2>2. Places' BY <1>10 DEF RemoveWriter, MayCall, Places
  <2>3. Distinct' BY <1>10 DEF RemoveWriter, MayCall, Places, Distinct, FailedObjects
  <2>4. FailedObjects' BY <1>10 DEF RemoveWriter, MayCall, FailedObjects, Distinct, Places, OwnDescriptor, FlagsMatchKernel, Registrations
  <2>5. Registrations' BY <1>10 DEF RemoveWriter, MayCall, Registrations, Distinct, Places, FailedObjects, OwnDescriptor, FlagsMatchKernel
  <2>6. OwnDescriptor' BY <1>10 DEF RemoveWriter, MayCall, OwnDescriptor, Distinct, Places, FailedObjects
  <2>7. (\A p \in Clients : isConnected_[p] /\ ~failed[p] /\ clientFd_[p] # Stdin =>
            /\ isReader_[p] <=> <<clientFd_[p], "read">> \in kq
            /\ isWriter_[p] <=> <<clientFd_[p], "write">> \in kq)'
    BY <1>10 DEF RemoveWriter, MayCall, FlagsMatchKernel, OwnDescriptor, Distinct, FailedObjects, Registrations
  <2>8. (\A p \in Clients : ~isConnected_[p] /\ clientFd_[p] # Stdin => ~isReader_[p] /\ ~isWriter_[p])'
    BY <1>10 DEF RemoveWriter, MayCall, FlagsMatchKernel, FailedObjects, OwnDescriptor
  <2>9. FlagsMatchKernel' BY <2>1, <2>5, <2>7, <2>8 DEF FlagsMatchKernel, Registrations
  <2>10. OpenIsOwned' BY <1>10 DEF RemoveWriter, MayCall, OpenIsOwned, Places, FailedObjects, OwnDescriptor, Distinct
  <2>. QED BY <2>1, <2>2, <2>3, <2>4, <2>5, <2>6, <2>9, <2>10
<1>11. ASSUME NEW o \in Clients, MayCall(o), Close(o) PROVE IInv'
  <2>1. ClientTypeOK' BY <1>11 DEF Close, Released, Removed, Flagged, ReaderGone, WriterGone, ShutdownOk, OpenFd, MayCall, FailedObjects, OwnDescriptor
  <2>2. Places'
    <3>1. UNCHANGED <<acceptQ, peer, mine, clientFd_>> /\ \A fd \in Fds : sock'[fd] \in {sock[fd], NoConn}
      BY <1>11 DEF Close, Released, ShutdownOk
    <3>2. \A k \in DOMAIN acceptQ : acceptQ[k] # NoConn
      OBVIOUS
    <3>. QED BY <3>1, <3>2 DEF Places
  <2>3. Distinct'
    <3>1. UNCHANGED <<mine, failed>> /\ \A fd \in Fds : sock'[fd] \in {sock[fd], NoConn}
      BY <1>11 DEF Close, Released, ShutdownOk
    <3>. QED BY <3>1 DEF Distinct
  <2>4. FailedObjects' BY <1>11 DEF Close, Released, Removed, Flagged, ReaderGone, WriterGone, ShutdownOk, OpenFd, MayCall, FailedObjects, Distinct, Places, OwnDescriptor, FlagsMatchKernel, Registrations
  <2>5. Registrations'
    <3>1. ~failed[o] /\ isConnected_[o] /\ clientFd_[o] \in Fds \cup {Stdin}
      BY <1>11 DEF MayCall, OwnDescriptor, Close
    <3>2. ASSUME clientFd_[o] # Stdin, NEW f \in Filters PROVE <<clientFd_[o], f>> \notin kq'
      <4>1. ReaderGone(o) /\ \A g \in Filters : <<clientFd_[o], g>> \in kq => g \in Flagged(o)
        BY <3>1, <3>2 DEF FlagsMatchKernel, ReaderGone, Flagged
      <4>2. \A g \in Filters : <<clientFd_[o], g>> \in kq => <<clientFd_[o], g>> \in Removed(o)
        BY <4>1 DEF Removed
      <4>3. kq' \subseteq kq \ Removed(o)
        BY <1>11 DEF Close, Released
      <4>. QED BY <4>2, <4>3
    <3>3. kq' \subseteq kq /\ \A fd \in Fds : fd # clientFd_[o] => sock'[fd] = sock[fd]
      BY <1>11 DEF Close, Released
    <3>4. \A p \in Clients : p # o => isConnected_'[p] = isConnected_[p]
      BY <1>11 DEF Close
    <3>5. clientFd_' = clientFd_ /\ mine' = mine
      BY <1>11 DEF Close
    <3>. SUFFICES ASSUME NEW g \in Fds, NEW f1 \in Filters, <<g, f1>> \in kq'
                  PROVE \E p \in Clients : /\ isConnected_'[p] /\ clientFd_'[p] = g
                                           /\ mine'[p] # NoConn /\ sock'[g] = mine'[p]
      BY DEF Registrations
    <3>6. PICK p \in Clients : /\ isConnected_[p] /\ clientFd_[p] = g
                               /\ mine[p] # NoConn /\ sock[g] = mine[p]
      BY <3>3 DEF Registrations
    <3>7. g # Stdin
      BY FdsAssumption
    <3>8. p # o /\ g # clientFd_[o]
      BY <3>2, <3>6, <3>7
    <3>. QED BY <3>3, <3>4, <3>5, <3>6, <3>8
  <2>6. OwnDescriptor' BY <1>11 DEF Close, Released, Removed, Flagged, ReaderGone, WriterGone, ShutdownOk, OpenFd, MayCall, OwnDescriptor, Distinct, Places, FailedObjects
  <2>7. (\A p \in Clients : isConnected_[p] /\ ~failed[p] /\ clientFd_[p] # Stdin =>
            /\ isReader_[p] <=> <<clientFd_[p], "read">> \in kq
            /\ isWriter_[p] <=> <<clientFd_[p], "write">> \in kq)'
    <3>1. SUFFICES ASSUME NEW p \in Clients, p # o, isConnected_[p], ~failed[p], clientFd_[p] # Stdin
                   PROVE /\ isReader_'[p] <=> <<clientFd_[p], "read">> \in kq'
                         /\ isWriter_'[p] <=> <<clientFd_[p], "write">> \in kq'
      BY <1>11 DEF Close
    <3>2. clientFd_[o] # clientFd_[p]
      BY <1>11, <3>1, Apart DEF Close
    <3>3. \A f \in Filters : <<clientFd_[p], f>> \in kq' <=> <<clientFd_[p], f>> \in kq
      BY <1>11, <3>2 DEF Close, Released, Removed
    <3>4. isReader_'[p] = isReader_[p] /\ isWriter_'[p] = isWriter_[p]
      BY <1>11, <3>1 DEF Close
    <3>. QED BY <3>1, <3>3, <3>4 DEF FlagsMatchKernel
  <2>8. (\A p \in Clients : ~isConnected_[p] /\ clientFd_[p] # Stdin => ~isReader_[p] /\ ~isWriter_[p])'
    BY <1>11 DEF Close, Released, Removed, Flagged, ReaderGone, WriterGone, ShutdownOk, OpenFd, MayCall, FlagsMatchKernel, FailedObjects, OwnDescriptor
  <2>9. FlagsMatchKernel' BY <2>1, <2>5, <2>7, <2>8 DEF FlagsMatchKernel, Registrations
  <2>10. OpenIsOwned'
    <3>1. \A fd \in Fds : sock'[fd] = sock[fd] \/ (sock'[fd] = NoConn /\ fd = clientFd_[o])
      BY <1>11 DEF Close, Released
    <3>2. clientFd_[o] \in Fds /\ sock'[clientFd_[o]] # NoConn => peer[sock[clientFd_[o]]] = "rst"
      BY <1>11 DEF Close, Released, ShutdownOk
    <3>3. UNCHANGED <<peer, clientFd_>> /\ \A p \in Clients : p # o => isConnected_'[p] = isConnected_[p]
      BY <1>11 DEF Close
    <3>. QED BY <3>1, <3>2, <3>3 DEF OpenIsOwned
  <2>. QED BY <2>1, <2>2, <2>3, <2>4, <2>5, <2>6, <2>9, <2>10
<1>12. ASSUME NEW o \in Clients, MayDestroy(o), Destroy(o) PROVE IInv'
  <2>1. ClientTypeOK' BY <1>12, SMTT(30) DEF Destroy, Released, Removed, Flagged, ReaderGone, WriterGone, ShutdownOk, OpenFd, MayDestroy, MayCall, FailedObjects, OwnDescriptor
  <2>2. Places'
    <3>1. UNCHANGED <<acceptQ, peer>> /\ \A fd \in Fds : sock'[fd] \in {sock[fd], NoConn}
      BY <1>12 DEF Destroy, Released
    <3>2. \A p \in Clients : /\ mine'[p] \in {mine[p], NoConn}
                             /\ clientFd_'[p] = Stdin => clientFd_[p] = Stdin /\ mine'[p] = mine[p]
      BY <1>12 DEF Destroy
    <3>3. \A i \in DOMAIN acceptQ : acceptQ[i] # NoConn
      OBVIOUS
    <3>4. /\ \A i, j \in DOMAIN acceptQ' : acceptQ'[i] = acceptQ'[j] => i = j
          /\ \A i \in DOMAIN acceptQ' : peer'[acceptQ'[i]] # "new"
      BY <3>1 DEF Places
    <3>7. \A i \in DOMAIN acceptQ', fd \in Fds : sock'[fd] # acceptQ'[i]
      BY <3>1, <3>3 DEF Places
    <3>8. \A i \in DOMAIN acceptQ', p \in Clients : mine'[p] # acceptQ'[i]
      BY <3>1, <3>2, <3>3 DEF Places
    <3>5. \A fd \in Fds : sock'[fd] # NoConn => peer'[sock'[fd]] # "new"
      BY <3>1 DEF Places
    <3>9. \A p \in Clients : mine'[p] # NoConn => peer'[mine'[p]] # "new"
      BY <3>1, <3>2 DEF Places
    <3>6. \A p \in Clients : clientFd_'[p] = Stdin => mine'[p] # NoConn
      BY <3>2 DEF Places
    <3>. QED BY <3>4, <3>5, <3>6, <3>7, <3>8, <3>9 DEF Places
  <2>3. Distinct'
    <3>1. \A fd \in Fds : sock'[fd] \in {sock[fd], NoConn}
      BY <1>12 DEF Destroy, Released
    <3>2. \A p \in Clients : mine'[p] \in {mine[p], NoConn} /\ (failed'[p] => failed[p])
      BY <1>12 DEF Destroy
    <3>. QED BY <3>1, <3>2 DEF Distinct
  <2>4. FailedObjects' BY <1>12 DEF Destroy, Released, Removed, Flagged, ReaderGone, WriterGone, ShutdownOk, OpenFd, MayDestroy, MayCall, FailedObjects, Distinct, Places, OwnDescriptor, FlagsMatchKernel, Registrations
  <2>5. Registrations'
    <3>1. kq' \subseteq kq /\ \A fd \in Fds : isConnected_[o] /\ fd # clientFd_[o] => sock'[fd] = sock[fd]
      BY <1>12 DEF Destroy, Released
    <3>2. ~isConnected_[o] => sock' = sock
      BY <1>12 DEF Destroy
    <3>3. ASSUME isConnected_[o], clientFd_[o] # Stdin, NEW f \in Filters PROVE <<clientFd_[o], f>> \notin kq'
      <4>1. clientFd_[o] \in Fds
        BY <3>3 DEF OwnDescriptor, FailedObjects
      <4>2. ~failed[o] => ReaderGone(o) /\ \A g \in Filters : <<clientFd_[o], g>> \in kq => g \in Flagged(o)
        BY <3>3 DEF FlagsMatchKernel, ReaderGone, Flagged
      <4>3. failed[o] => \A g \in Filters : <<clientFd_[o], g>> \in kq => g = "read" /\ isReader_[o]
        BY <3>3 DEF FailedObjects
      <4>4. \A g \in Filters : <<clientFd_[o], g>> \in kq => <<clientFd_[o], g>> \in Removed(o)
        BY <4>2, <4>3 DEF Removed, Flagged
      <4>5. clientFd_[o] >= 0
        <5>1. Fds \subseteq Nat
          BY FdsAssumption
        <5>2. clientFd_[o] \in Nat
          BY <5>1, <4>1, Zenon
        <5>. QED BY <5>2
      <4>6. Released(o)
        BY <1>12, <3>3, <4>5 DEF Destroy
      <4>7. kq' \subseteq kq \ Removed(o)
        BY <4>6 DEF Released
      <4>. QED BY <4>4, <4>7
    <3>4. \A p \in Clients : p # o =>
            isConnected_'[p] = isConnected_[p] /\ clientFd_'[p] = clientFd_[p] /\ mine'[p] = mine[p]
      BY <1>12 DEF Destroy
    <3>. SUFFICES ASSUME NEW g \in Fds, NEW f1 \in Filters, <<g, f1>> \in kq'
                  PROVE \E p \in Clients : /\ isConnected_'[p] /\ clientFd_'[p] = g
                                           /\ mine'[p] # NoConn /\ sock'[g] = mine'[p]
      BY DEF Registrations
    <3>6. PICK p \in Clients : /\ isConnected_[p] /\ clientFd_[p] = g
                               /\ mine[p] # NoConn /\ sock[g] = mine[p]
      BY <3>1 DEF Registrations
    <3>7. g # Stdin
      BY FdsAssumption
    <3>8. p # o
      BY <3>3, <3>6, <3>7
    <3>9. isConnected_[o] => g # clientFd_[o]
      BY <3>3, <3>7
    <3>. QED BY <3>1, <3>2, <3>4, <3>6, <3>8, <3>9
  <2>6. OwnDescriptor'
    <3>1. SUFFICES ASSUME NEW p \in Clients, p # o, isConnected_[p], ~failed[p]
                   PROVE /\ mine[p] # NoConn
                         /\ \/ clientFd_[p] \in Fds /\ sock'[clientFd_[p]] = mine[p]
                            \/ clientFd_[p] = Stdin /\ \A fd \in Fds : sock'[fd] # mine[p]
      BY <1>12 DEF Destroy, OwnDescriptor
    <3>2. mine[p] # NoConn /\ \A fd \in Fds : sock'[fd] \in {sock[fd], NoConn}
      BY <1>12, <3>1 DEF Destroy, Released, OwnDescriptor
    <3>3. CASE clientFd_[p] = Stdin
      BY <3>1, <3>2, <3>3 DEF OwnDescriptor
    <3>4. CASE clientFd_[p] # Stdin
      <4>1. isConnected_[o] => clientFd_[o] # clientFd_[p]
        BY <3>1, <3>4, Apart
      <4>2. clientFd_[p] \in Fds /\ sock[clientFd_[p]] = mine[p]
        BY <3>1, <3>4 DEF OwnDescriptor
      <4>3. sock'[clientFd_[p]] = sock[clientFd_[p]]
        BY <1>12, <4>1, <4>2 DEF Destroy, Released
      <4>. QED BY <3>2, <4>2, <4>3
    <3>. QED BY <3>3, <3>4
  <2>7. (\A p \in Clients : isConnected_[p] /\ ~failed[p] /\ clientFd_[p] # Stdin =>
            /\ isReader_[p] <=> <<clientFd_[p], "read">> \in kq
            /\ isWriter_[p] <=> <<clientFd_[p], "write">> \in kq)'
    <3>1. SUFFICES ASSUME NEW p \in Clients, p # o, isConnected_[p], ~failed[p], clientFd_[p] # Stdin
                   PROVE /\ isReader_'[p] <=> <<clientFd_[p], "read">> \in kq'
                         /\ isWriter_'[p] <=> <<clientFd_[p], "write">> \in kq'
      BY <1>12 DEF Destroy
    <3>2. isConnected_[o] => clientFd_[o] # clientFd_[p]
      BY <1>12, <3>1, Apart
    <3>3. \A f \in Filters : <<clientFd_[p], f>> \in kq' <=> <<clientFd_[p], f>> \in kq
      BY <1>12, <3>2 DEF Destroy, Released, Removed
    <3>4. isReader_'[p] = isReader_[p] /\ isWriter_'[p] = isWriter_[p]
      BY <1>12, <3>1 DEF Destroy
    <3>. QED BY <3>1, <3>3, <3>4 DEF FlagsMatchKernel
  <2>8. (\A p \in Clients : ~isConnected_[p] /\ clientFd_[p] # Stdin => ~isReader_[p] /\ ~isWriter_[p])'
    BY <1>12 DEF Destroy, Released, Removed, Flagged, ReaderGone, WriterGone, ShutdownOk, OpenFd, MayDestroy, MayCall, FlagsMatchKernel, FailedObjects, OwnDescriptor
  <2>9. FlagsMatchKernel' BY <2>1, <2>5, <2>7, <2>8 DEF FlagsMatchKernel, Registrations
  <2>10. OpenIsOwned' BY <1>12 DEF Destroy, Released, Removed, Flagged, ReaderGone, WriterGone, ShutdownOk, OpenFd, MayDestroy, MayCall, OpenIsOwned, Places, FailedObjects, OwnDescriptor, Distinct
  <2>. QED BY <2>1, <2>2, <2>3, <2>4, <2>5, <2>6, <2>9, <2>10
<1>. HIDE DEF IInv, ClientTypeOK, Filters, fields, Registration, Descriptors, Stdin
<1>13. ASSUME NEW o \in Clients, MayAccept(o), NEW c \in Conns,
              \/ \E fd \in Fds : \/ AcceptReset(o, c, fd)
                                 \/ Accept(o, c, fd)
                                 \/ \E f \in Filters : AcceptUnregistered(o, c, fd, f)
              \/ AcceptStdin(o, c)
              \/ \E f \in Filters : AcceptStdinFails(o, c, f)
       PROVE IInv'
  <2>1. ASSUME NEW fd \in Fds, AcceptReset(o, c, fd) PROVE IInv'
    BY <1>13, <1>4, <2>1
  <2>2. ASSUME NEW fd \in Fds, Accept(o, c, fd) PROVE IInv'
    BY <1>13, <1>5, <2>2
  <2>3. ASSUME NEW fd \in Fds, NEW f \in Filters, AcceptUnregistered(o, c, fd, f) PROVE IInv'
    BY <1>13, <1>6, <2>3
  <2>4. ASSUME AcceptStdin(o, c) PROVE IInv'
    BY <1>13, <1>15, <2>4
  <2>5. ASSUME NEW f \in Filters, AcceptStdinFails(o, c, f) PROVE IInv'
    BY <1>13, <1>16, <2>5
  <2>. QED BY <1>13, <2>1, <2>2, <2>3, <2>4, <2>5
<1>14. ASSUME NEW o \in Clients,
              \/ MaySet(o) /\ (SetReader(o) \/ SetWriter(o))
              \/ MayCall(o) /\ (RemoveReader(o) \/ RemoveWriter(o) \/ Close(o))
              \/ MayDestroy(o) /\ Destroy(o)
       PROVE IInv'
  BY <1>14, <1>7, <1>8, <1>9, <1>10, <1>11, <1>12
<1>. QED BY <1>1, <1>2, <1>3, <1>13, <1>14 DEF ClientNext, Peers

\* What the runs check, for every value of the constants.
LEMMA Invariance == ASSUME Habits = {} PROVE ClientSpec => []IInv
<1>1. ClientInit => IInv
  BY InitIInv
<1>2. IInv /\ [ClientNext]_clientVars => IInv'
  <2>1. ASSUME IInv, UNCHANGED clientVars PROVE IInv'
    BY <2>1 DEF clientVars, kernel, fields, IInv, ClientTypeOK, Places, Distinct, FailedObjects,
      Registrations, OwnDescriptor, FlagsMatchKernel, OpenIsOwned
  <2>. QED BY <2>1, NextIInv
<1>. QED BY <1>1, <1>2, PTL DEF ClientSpec

\* Every variable of the kernel and of the objects keeps its type
\* (ClientSocket.hpp:59-65).
THEOREM TypeCorrect == ASSUME Habits = {} PROVE ClientSpec => []ClientTypeOK
<1>1. IInv => ClientTypeOK
  BY DEF IInv
<1>. QED BY <1>1, Invariance, PTL

\* Nothing callers do to one object takes the descriptor from another, and no
\* object works on a connection it did not accept: it has its own, or it has
\* descriptor 0 and its own is closed (ClientSocket.hpp:40-176).
THEOREM ObjectsKeepTheirDescriptor == ASSUME Habits = {} PROVE ClientSpec => []OwnDescriptor
<1>1. IInv => OwnDescriptor
  BY DEF IInv
<1>. QED BY <1>1, Invariance, PTL

\* For the descriptors of connections, isReader_ and isWriter_ say what kqueue
\* has registered, and nothing stays registered without an object
\* (ClientSocket.hpp:178-232).
THEOREM FlagsAreTrue == ASSUME Habits = {} PROVE ClientSpec => []FlagsMatchKernel
<1>1. IInv => FlagsMatchKernel
  BY DEF IInv
<1>. QED BY <1>1, Invariance, PTL

\* Descriptors are lost to resets only (ClientSocket.hpp:69-76).
THEOREM OpenDescriptorsAreOwned == ASSUME Habits = {} PROVE ClientSpec => []OpenIsOwned
<1>1. IInv => OpenIsOwned
  BY DEF IInv
<1>. QED BY <1>1, Invariance, PTL

-----------------------------------------------------------------------------
(* The loop of the server.                                                  *)

LoopTypes ==
  /\ clientFds_ \in [Descriptors -> Conns \cup {Absent, Null}]
  /\ events_ \subseteq [ident : Descriptors \cup {Listener}, filter : Filters, eof : BOOLEAN]
  /\ edge \in BOOLEAN
  /\ pc \in {"setReadable", "setWritable", "loop", "dropping", "afterRead",
             "afterWrite", "crashed"}
  /\ cur \in Conns \cup {NoConn}

\* Objects are named by their connection, and one whose accept() has failed
\* is the one about to be dropped.
Named ==
  /\ \A c \in Conns : mine[c] \in {NoConn, c}
  /\ \A c \in Conns : failed[c] => pc = "dropping" /\ cur = c

\* The object about to be destroyed, failed or replaced in the map.
Leaving(c) == pc = "dropping" /\ cur = c

\* The client the thread is working on.
Held ==
  /\ pc = "dropping" => cur \in Conns /\ mine[cur] = cur
  /\ pc = "dropping" => failed[cur] \/ clientFd_[cur] = Stdin
  /\ pc = "afterRead" => cur \in Conns /\ isConnected_[cur]
  /\ pc = "afterWrite" => cur \in Conns

\* An entry keeps its descriptor from being reused, even after a close() that
\* did not get past shutdown(2).
Entries ==
  /\ \A fd \in Descriptors : clientFds_[fd] \in Conns =>
       /\ clientFd_[clientFds_[fd]] = fd /\ mine[clientFds_[fd]] = clientFds_[fd]
       /\ ~Leaving(clientFds_[fd])
  /\ \A fd \in Descriptors, gd \in Fds :
       clientFds_[fd] \in Conns => (sock[gd] = clientFds_[fd] <=> gd = fd)
  /\ \A c \in Conns : isConnected_[c] /\ ~Leaving(c) => clientFds_[clientFd_[c]] = c

ServerInv == LoopTypes /\ Named /\ Held /\ Entries

LEMMA InitServerInv == Init => ServerInv
BY ClientsAssumption, MarksAssumption, NoConnAssumption
   DEF Init, ClientInit, ServerInv, LoopTypes, Named, Held, Entries

-----------------------------------------------------------------------------
(* closeSocket().                                                           *)

\* It calls close() on a connected object, or nothing that has a state.
LEMMA CloseIsClose ==
  ASSUME IInv, ServerInv, NEW fd \in Descriptors, NEW next, closeSocket(fd, next)
  PROVE  (\E c \in Clients : Close(c)) \/ UNCHANGED clientVars
BY ClientsAssumption DEF closeSocket

LEMMA CloseKeeps ==
  ASSUME IInv, ServerInv, NEW fd \in Descriptors, NEW next, closeSocket(fd, next), pc = "loop",
         next \in {"loop", "afterWrite"}
  PROVE  /\ clientFds_' \in [Descriptors -> Conns \cup {Absent, Null}]
         /\ pc' \in {next, "crashed"}
         /\ \A c \in Conns : mine'[c] \in {NoConn, c} /\ ~failed'[c]
         /\ Entries'
<1>. DEFINE c == clientFds_[fd]
<1>1. \A d \in Conns : ~failed[d] /\ ~Leaving(d)
  BY DEF ServerInv, Named, Leaving
<1>2. CASE c \notin Conns
  <2>1. UNCHANGED <<clientVars, clientFds_>> /\ pc' \in {next, "crashed"}
    BY <1>2 DEF closeSocket
  <2>2. UNCHANGED <<sock, clientFd_, isConnected_, mine, failed>>
    BY <2>1 DEF clientVars, kernel, fields
  <2>3. \A d \in Conns : ~Leaving(d)'
    BY <2>1 DEF Leaving
  <2>4. Entries'
    BY <1>1, <2>1, <2>2, <2>3 DEF ServerInv, Entries
  <2>. QED BY <1>1, <2>1, <2>2, <2>4 DEF ServerInv, LoopTypes, Named
<1>3. CASE c \in Conns /\ ~isConnected_[c]
  <2>1. /\ UNCHANGED <<mine, failed, clientFd_, isConnected_, sock>>
        /\ clientFds_' = [clientFds_ EXCEPT ![fd] = Absent]
        /\ pc' = next
    BY <1>3 DEF closeSocket, clientVars, kernel, fields
  <2>2. \A d \in Conns : isConnected_[d] => clientFd_[d] \in Descriptors /\ clientFd_[d] # fd
    BY <1>1, <1>3, ClientsAssumption DEF IInv, OwnDescriptor, ServerInv, Entries, Descriptors
  <2>3. \A d \in Conns : ~Leaving(d)'
    BY <2>1 DEF Leaving
  <2>4. Entries'
    BY <1>1, <2>1, <2>2, <2>3, MarksAssumption DEF ServerInv, LoopTypes, Entries
  <2>. QED BY <1>1, <2>1, <2>4 DEF ServerInv, LoopTypes, Named
<1>4. CASE c \in Conns /\ isConnected_[c]
  <2>1. Close(c) /\ c \in Clients /\ clientFd_[c] = fd
    BY <1>4, ClientsAssumption DEF closeSocket, ServerInv, Entries
  <2>2. clientFds_' = IF ~ShutdownOk(fd) THEN clientFds_ ELSE [clientFds_ EXCEPT ![fd] = Absent]
    BY <1>4, <2>1 DEF closeSocket
  <2>3. pc' = next /\ \A d \in Conns : ~Leaving(d)'
    BY <1>4 DEF closeSocket, Leaving
  <2>4. /\ UNCHANGED <<mine, failed, clientFd_>>
        /\ isConnected_' = [isConnected_ EXCEPT ![c] = FALSE]
        /\ sock' = IF ShutdownOk(fd) THEN [sock EXCEPT ![fd] = NoConn] ELSE sock
    BY <2>1 DEF Close, Released
  <2>5. clientFds_' \in [Descriptors -> Conns \cup {Absent, Null}]
    BY <2>2 DEF ServerInv, LoopTypes
  <2>6. \A d \in Conns : mine'[d] \in {NoConn, d} /\ ~failed'[d]
    BY <1>1, <2>4 DEF ServerInv, Named
  <2>7. \A g \in Descriptors : clientFds_'[g] \in Conns =>
          clientFd_'[clientFds_'[g]] = g /\ mine'[clientFds_'[g]] = clientFds_'[g]
    BY <2>2, <2>4, MarksAssumption DEF ServerInv, LoopTypes, Entries
  <2>8. \A g \in Descriptors, h \in Fds :
          clientFds_'[g] \in Conns => (sock'[h] = clientFds_'[g] <=> h = g)
    <3>1. CASE ~ShutdownOk(fd)
      BY <2>2, <2>4, <3>1 DEF ServerInv, Entries
    <3>2. CASE ShutdownOk(fd)
      <4>1. /\ \A g \in Descriptors : clientFds_'[g] \in Conns => g # fd /\ clientFds_'[g] = clientFds_[g]
            /\ sock'[fd] = NoConn /\ \A h \in Fds : h # fd => sock'[h] = sock[h]
        BY <2>2, <2>4, <3>2, MarksAssumption DEF ServerInv, LoopTypes, IInv, ClientTypeOK, ShutdownOk
      <4>. QED BY <4>1, NoConnAssumption DEF ServerInv, Entries
    <3>. QED BY <3>1, <3>2
  <2>9. \A d \in Conns : isConnected_'[d] => clientFds_'[clientFd_'[d]] = d
    <3>1. SUFFICES ASSUME NEW d \in Conns, isConnected_'[d]
                   PROVE  clientFds_'[clientFd_'[d]] = d
      OBVIOUS
    <3>2. isConnected_ \in [Conns -> BOOLEAN]
      BY ClientsAssumption DEF IInv, ClientTypeOK
    <3>3. d # c /\ isConnected_[d] /\ ~failed[d]
      BY <1>1, <2>4, <3>1, <3>2
    <3>4. clientFds_[clientFd_[d]] = d /\ clientFd_[d] \in Descriptors
      BY <1>1, <3>3, ClientsAssumption DEF ServerInv, Entries, IInv, OwnDescriptor, Descriptors
    <3>5. clientFd_[d] # fd
      BY <3>3, <3>4
    <3>. QED BY <2>2, <2>4, <3>4, <3>5 DEF ServerInv, LoopTypes
  <2>. QED BY <2>3, <2>5, <2>6, <2>7, <2>8, <2>9 DEF Entries
<1>. QED BY <1>2, <1>3, <1>4

-----------------------------------------------------------------------------
(* Every step is one that callers of ClientSocket may take.                 *)

LEMMA StepIsClientStep ==
  ASSUME IInv, ServerInv, Next
  PROVE  ClientNext \/ UNCHANGED clientVars
<1>. USE ClientsAssumption
<1>1. CASE Poll \/ AcceptNothing \/ setReadable \/ setWritable
  BY <1>1 DEF Poll, AcceptNothing, setReadable, setWritable, Registered
<1>2. CASE Drop
  <2>1. cur \in Clients /\ MayDestroy(cur)
    BY <1>2 DEF Drop, ServerInv, Held, Named, MayDestroy, MayCall
  <2>. QED BY <1>2, <2>1 DEF Drop, ClientNext
<1>3. CASE AfterRead
  <2>1. cur \in Clients /\ MaySet(cur)
    BY <1>3 DEF AfterRead, ServerInv, Held, Named, MaySet, MayCall
  <2>. QED BY <1>3, <2>1 DEF AfterRead, ClientNext
<1>4. CASE AfterWrite
  <2>1. cur \in Clients /\ MayCall(cur)
    BY <1>4 DEF AfterWrite, ServerInv, Held, Named, MayCall
  <2>. QED BY <1>4, <2>1 DEF AfterWrite, ClientNext
<1>5. ASSUME NEW c \in Conns,
             \/ \E fd \in Fds : AcceptLost(c, fd) \/ AcceptClient(c, fd)
             \/ AcceptZero(c) \/ AcceptFails(c)
      PROVE  ClientNext
  <2>1. pc = "loop" /\ Taken(c)
    BY <1>5 DEF AcceptLost, AcceptClient, AcceptZero, AcceptFails, Unusable, Dispatched,
      AcceptReset, Accept, AcceptUnregistered, AcceptStdin, AcceptStdinFails, OptionFails
  <2>2. c = acceptQ[1] /\ 1 \in DOMAIN acceptQ
    BY <2>1 DEF Taken, IInv, ClientTypeOK
  <2>3. mine[c] = NoConn
    BY <2>2 DEF IInv, Places, ServerInv, Named
  <2>4. MayAccept(c)
    BY <2>1, <2>3 DEF MayAccept, MayCall, ServerInv, Named
  <2>5. \/ \E fd \in Fds : \/ AcceptReset(c, c, fd) \/ Accept(c, c, fd)
                          \/ \E f \in Filters : AcceptUnregistered(c, c, fd, f)
        \/ AcceptStdin(c, c) \/ \E f \in Filters : AcceptStdinFails(c, c, f)
    BY <1>5 DEF AcceptLost, AcceptClient, AcceptZero, AcceptFails, Unusable
  <2>. QED BY <2>4, <2>5 DEF ClientNext
<1>6. ASSUME NEW c \in Clients, Close(c), pc = "loop" PROVE ClientNext
  <2>1. MayCall(c)
    BY <1>6 DEF MayCall, ServerInv, Named
  <2>. QED BY <1>6, <2>1 DEF ClientNext
<1>7. ASSUME NEW fd \in Descriptors, NEW f \in Filters, DispatchEof(fd, f) \/ NullClient(fd, f)
      PROVE  ClientNext \/ UNCHANGED clientVars
  BY <1>7, <1>6, CloseIsClose DEF DispatchEof, NullClient, Dispatched
<1>8. ASSUME NEW fd \in Descriptors, HandleRead(fd) \/ HandleWrite(fd)
      PROVE  ClientNext \/ UNCHANGED clientVars
  BY <1>8, <1>6, CloseIsClose DEF HandleRead, HandleWrite, Dispatched
<1>9. ASSUME NEW c \in Conns, Arrive(c) \/ HangUp(c) PROVE ClientNext
  BY <1>9 DEF Arrive, HangUp, ClientNext, Peers
<1>. QED BY <1>1, <1>2, <1>3, <1>4, <1>5, <1>7, <1>8, <1>9 DEF Next, Server

-----------------------------------------------------------------------------
(* Every step keeps ServerInv.                                              *)

\* Steps that change nothing ServerInv speaks of but events_, edge and pc.
LEMMA PeersKeep ==
  ASSUME IInv, ServerInv, NEW c \in Conns, Arrive(c) \/ HangUp(c)
  PROVE  ServerInv'
<1>1. UNCHANGED <<sock, clientFd_, isConnected_, mine, failed, clientFds_, events_, pc, cur>>
  BY DEF Arrive, HangUp, Connect, Finish, Reset, fields, loop
<1>2. edge' \in BOOLEAN
  BY DEF Arrive, HangUp, ServerInv, LoopTypes
<1>. QED BY <1>1, <1>2 DEF ServerInv, LoopTypes, Named, Held, Entries, Leaving

LEMMA PollKeeps ==
  ASSUME IInv, ServerInv, Poll \/ AcceptNothing \/ setReadable \/ setWritable
  PROVE  ServerInv'
<1>1. events_' \subseteq [ident : Descriptors \cup {Listener}, filter : Filters, eof : BOOLEAN]
  <2>1. \A r \in kq : r[1] \in Descriptors /\ r[2] \in Filters
    BY DEF IInv, ClientTypeOK
  <2>2. CASE Poll
    <3>. DEFINE All == [ident : Descriptors \cup {Listener}, filter : Filters, eof : BOOLEAN]
    <3>1. \A r \in kq : Event(r[1], r[2], TRUE) \in All /\ Event(r[1], r[2], FALSE) \in All
      BY <2>1 DEF Event
    <3>2. Arrival \in All
      BY DEF Arrival, Event, Filters
    <3>3. PICK ends \in SUBSET kq, ready \in SUBSET kq :
            events_' = {Event(r[1], r[2], TRUE) : r \in ends}
                         \cup {Event(r[1], r[2], FALSE) : r \in ready}
                         \cup {e \in {Arrival} : edge}
      BY <2>2 DEF Poll
    <3>. QED BY <3>1, <3>2, <3>3
  <2>. QED BY <2>2 DEF AcceptNothing, Dispatched, setReadable, setWritable, Registered, ServerInv, LoopTypes
<1>2. UNCHANGED <<kernel, fields, mine, failed, clientFds_, cur>> /\ edge' \in BOOLEAN
  BY DEF Poll, AcceptNothing, Dispatched, setReadable, setWritable, Registered, clientVars,
         ServerInv, LoopTypes
<1>3. \/ pc' = pc
      \/ pc = "setReadable" /\ pc' = "setWritable"
      \/ pc = "setWritable" /\ pc' = "loop"
  BY DEF Poll, AcceptNothing, Dispatched, setReadable, setWritable, Registered
<1>4. LoopTypes' BY <1>1, <1>2, <1>3 DEF ServerInv, LoopTypes
<1>5. Named' BY <1>2, <1>3 DEF kernel, fields, ServerInv, Named
<1>6. Held' BY <1>2, <1>3 DEF kernel, fields, ServerInv, Held
<1>7. Entries' BY <1>2, <1>3 DEF kernel, fields, ServerInv, Entries, Leaving
<1>. QED BY <1>4, <1>5, <1>6, <1>7 DEF ServerInv

LEMMA AcceptKeeps ==
  ASSUME IInv, ServerInv, NEW c \in Conns,
         \/ \E fd \in Fds : AcceptLost(c, fd) \/ AcceptClient(c, fd)
         \/ AcceptZero(c) \/ AcceptFails(c)
  PROVE  ServerInv'
<1>. USE ClientsAssumption
<1>1. /\ pc = "loop" /\ Taken(c)
      /\ events_' \subseteq [ident : Descriptors \cup {Listener}, filter : Filters, eof : BOOLEAN]
      /\ edge' \in BOOLEAN
  BY DEF AcceptLost, AcceptClient, AcceptZero, AcceptFails, Unusable, Dispatched, ServerInv, LoopTypes,
    AcceptReset, Accept, AcceptUnregistered, AcceptStdin, AcceptStdinFails, OptionFails
<1>2. c = acceptQ[1] /\ 1 \in DOMAIN acceptQ
  BY <1>1 DEF Taken, IInv, ClientTypeOK
<1>3. mine[c] # c /\ \A gd \in Fds : sock[gd] # c
  BY <1>2 DEF IInv, Places
<1>4. \A fd \in Descriptors : clientFds_[fd] # c
  BY <1>3 DEF ServerInv, Entries
<1>5. \A d \in Conns : ~failed[d] /\ ~Leaving(d)
  BY <1>1 DEF ServerInv, Named, Leaving
<1>6. ~isConnected_[c]
  BY <1>2, <1>5 DEF IInv, OwnDescriptor, Places, ServerInv, Named
<1>7. \A d \in Conns : isConnected_[d] => clientFd_[d] \in Descriptors
  BY <1>5 DEF IInv, OwnDescriptor, Descriptors
<1>8. \A fd \in Fds : sock[fd] = NoConn =>
        clientFds_[fd] \notin Conns /\ \A d \in Conns : isConnected_[d] => clientFd_[d] # fd
  <2>1. \A fd \in Fds : fd # Stdin
    BY FdsAssumption
  <2>. QED BY <1>5, <2>1, NoConnAssumption DEF IInv, OwnDescriptor, ServerInv, Entries, Descriptors
<1>9. ASSUME NEW fd \in Fds, AcceptLost(c, fd) PROVE ServerInv'
  <2>1. /\ UNCHANGED <<clientFds_, pc, cur, edge, clientFd_, isConnected_, mine, failed>>
        /\ sock' = [sock EXCEPT ![fd] = c] /\ sock[fd] = NoConn
    BY <1>9 DEF AcceptLost, AcceptReset, Dispatched, fields, Lowest, Free
  <2>2. LoopTypes' /\ Named' /\ Held'
    BY <1>1, <2>1 DEF ServerInv, LoopTypes, Named, Held
  <2>3. \A g \in Descriptors, h \in Fds :
          clientFds_[g] \in Conns => (sock'[h] = clientFds_[g] <=> h = g)
    BY <1>4, <1>8, <2>1 DEF ServerInv, Entries, IInv, ClientTypeOK
  <2>4. Entries'
    BY <2>1, <2>3 DEF ServerInv, Entries, Leaving
  <2>. QED BY <2>2, <2>4 DEF ServerInv
<1>10. ASSUME NEW fd \in Fds, AcceptClient(c, fd) PROVE ServerInv'
  <2>0. sock[fd] = NoConn /\ fd \in Descriptors
    BY <1>10 DEF AcceptClient, Accept, Lowest, Free, Descriptors
  <2>1. /\ clientFds_' = [clientFds_ EXCEPT ![fd] = c]
        /\ sock' = [sock EXCEPT ![fd] = c]
        /\ clientFd_' = [clientFd_ EXCEPT ![c] = fd]
        /\ isConnected_' = [isConnected_ EXCEPT ![c] = TRUE]
        /\ mine' = [mine EXCEPT ![c] = c]
        /\ failed' = [failed EXCEPT ![c] = FALSE]
        /\ UNCHANGED <<pc, cur, edge>>
    BY <1>8, <1>10, <2>0 DEF AcceptClient, Accept, Filed, Dispatched
  <2>2. LoopTypes' /\ Named' /\ Held'
    BY <1>1, <1>5, <2>0, <2>1 DEF ServerInv, LoopTypes, Named, Held, IInv, ClientTypeOK
  <2>3. \A g \in Descriptors : clientFds_'[g] \in Conns =>
          /\ clientFd_'[clientFds_'[g]] = g /\ mine'[clientFds_'[g]] = clientFds_'[g]
    BY <1>4, <2>0, <2>1 DEF ServerInv, LoopTypes, Entries, IInv, ClientTypeOK
  <2>4. \A g \in Descriptors, h \in Fds :
          clientFds_'[g] \in Conns => (sock'[h] = clientFds_'[g] <=> h = g)
    BY <1>3, <1>4, <1>8, <2>0, <2>1 DEF ServerInv, LoopTypes, Entries, IInv, ClientTypeOK
  <2>5. \A d \in Conns : isConnected_'[d] => clientFds_'[clientFd_'[d]] = d
    BY <1>5, <1>7, <1>8, <2>0, <2>1 DEF ServerInv, LoopTypes, Entries, IInv, ClientTypeOK
  <2>6. \A d \in Conns : ~Leaving(d)'
    BY <1>5, <2>1 DEF Leaving
  <2>. QED BY <2>2, <2>3, <2>4, <2>5, <2>6 DEF ServerInv, Entries
<1>11. ASSUME AcceptZero(c) PROVE ServerInv'
  <2>. DEFINE old == clientFds_[Stdin]
  <2>0. Stdin \in Descriptors /\ Stdin \notin Fds
    BY FdsAssumption DEF Descriptors
  <2>1. /\ clientFds_' = [clientFds_ EXCEPT ![Stdin] = c]
        /\ clientFd_' = [clientFd_ EXCEPT ![c] = Stdin]
        /\ isConnected_' = [isConnected_ EXCEPT ![c] = TRUE]
        /\ mine' = [mine EXCEPT ![c] = c]
        /\ failed' = [failed EXCEPT ![c] = FALSE]
        /\ UNCHANGED <<sock, edge>>
        /\ IF old \in Conns THEN pc' = "dropping" /\ cur' = old ELSE UNCHANGED <<pc, cur>>
    BY <1>11 DEF AcceptZero, AcceptStdin, OptionFails, Filed, Dispatched
  <2>2. old \in Conns => old # c /\ clientFd_[old] = Stdin /\ mine[old] = old
    BY <1>4, <2>0 DEF ServerInv, Entries
  <2>3. LoopTypes'
    BY <1>1, <2>0, <2>1 DEF ServerInv, LoopTypes
  <2>4. Named' /\ Held'
    BY <1>1, <1>5, <2>1, <2>2 DEF ServerInv, Named, Held, IInv, ClientTypeOK
  <2>5. \A g \in Descriptors : clientFds_'[g] \in Conns =>
          /\ clientFd_'[clientFds_'[g]] = g /\ mine'[clientFds_'[g]] = clientFds_'[g]
    BY <1>4, <2>0, <2>1 DEF ServerInv, LoopTypes, Entries, IInv, ClientTypeOK
  <2>6. \A g \in Descriptors : clientFds_'[g] \in Conns => ~Leaving(clientFds_[g])'
    <3>1. \A g \in Descriptors : g # Stdin /\ old \in Conns => clientFds_[g] # old
      BY <2>2 DEF ServerInv, Entries
    <3>. SUFFICES ASSUME NEW g \in Descriptors, pc' = "dropping" PROVE clientFds_'[g] # cur'
      BY DEF Leaving
    <3>2. old \in Conns /\ cur' = old
      BY <1>1, <2>1
    <3>. QED BY <2>0, <2>1, <2>2, <3>1, <3>2 DEF ServerInv, LoopTypes
  <2>7. \A g \in Descriptors, h \in Fds :
          clientFds_'[g] \in Conns => (sock'[h] = clientFds_'[g] <=> h = g)
    BY <1>3, <2>0, <2>1 DEF ServerInv, LoopTypes, Entries
  <2>8. \A d \in Conns : isConnected_'[d] /\ ~Leaving(d)' => clientFds_'[clientFd_'[d]] = d
    <3>1. SUFFICES ASSUME NEW d \in Conns, d # c, isConnected_[d], ~Leaving(d)'
                   PROVE  clientFds_'[clientFd_[d]] = d
      BY <2>0, <2>1 DEF ServerInv, LoopTypes, IInv, ClientTypeOK
    <3>2. clientFds_[clientFd_[d]] = d /\ clientFd_[d] \in Descriptors
      BY <1>5, <1>7, <3>1 DEF ServerInv, Entries
    <3>3. d # old
      BY <2>1, <3>1 DEF Leaving
    <3>. QED BY <2>1, <3>2, <3>3 DEF ServerInv, LoopTypes
  <2>9. Entries'
    BY <2>5, <2>6, <2>7, <2>8 DEF Entries
  <2>. QED BY <2>3, <2>4, <2>9 DEF ServerInv
<1>12. ASSUME AcceptFails(c) PROVE ServerInv'
  <2>1. /\ UNCHANGED <<clientFds_, edge>>
        /\ pc' = "dropping" /\ cur' = c
    BY <1>12 DEF AcceptFails, Dispatched
  <2>2. /\ isConnected_' = [isConnected_ EXCEPT ![c] = TRUE]
        /\ mine' = [mine EXCEPT ![c] = c]
        /\ failed' = [failed EXCEPT ![c] = TRUE]
        /\ \A d \in Conns : d # c => clientFd_'[d] = clientFd_[d]
        /\ \A gd \in Fds : sock'[gd] = sock[gd] \/ (sock[gd] = NoConn /\ sock'[gd] \in {NoConn, c})
    BY <1>12 DEF AcceptFails, Unusable, AcceptUnregistered, AcceptStdinFails, OptionFails,
      Lowest, Free, IInv, ClientTypeOK
  <2>3. LoopTypes' /\ Named' /\ Held'
    BY <1>1, <1>5, <2>1, <2>2 DEF ServerInv, LoopTypes, Named, Held, IInv, ClientTypeOK
  <2>4. \A g \in Descriptors : clientFds_[g] \in Conns =>
          /\ clientFd_'[clientFds_[g]] = g /\ mine'[clientFds_[g]] = clientFds_[g]
          /\ ~Leaving(clientFds_[g])'
    BY <1>4, <2>1, <2>2 DEF ServerInv, Entries, Leaving, IInv, ClientTypeOK
  <2>5. \A g \in Descriptors, h \in Fds :
          clientFds_[g] \in Conns => (sock'[h] = clientFds_[g] <=> h = g)
    BY <1>3, <1>4, <2>2, NoConnAssumption DEF ServerInv, Entries
  <2>6. \A d \in Conns : isConnected_'[d] /\ ~Leaving(d)' => clientFds_[clientFd_'[d]] = d
    BY <1>5, <2>1, <2>2 DEF ServerInv, Entries, Leaving, IInv, ClientTypeOK
  <2>. QED BY <2>1, <2>3, <2>4, <2>5, <2>6 DEF ServerInv, Entries
<1>. QED BY <1>9, <1>10, <1>11, <1>12

LEMMA DropKeeps == ASSUME IInv, ServerInv, Drop PROVE ServerInv'
<1>. USE ClientsAssumption
<1>1. /\ cur \in Conns /\ mine[cur] = cur /\ Leaving(cur)
      /\ \A d \in Conns : failed[d] \/ Leaving(d) => d = cur
  BY DEF Drop, ServerInv, Held, Named, Leaving
<1>2. /\ isConnected_' = [isConnected_ EXCEPT ![cur] = FALSE]
      /\ clientFd_' = [clientFd_ EXCEPT ![cur] = -1]
      /\ mine' = [mine EXCEPT ![cur] = NoConn]
      /\ failed' = [failed EXCEPT ![cur] = FALSE]
      /\ UNCHANGED <<clientFds_, events_, edge>> /\ pc' = "loop" /\ cur' = NoConn
  BY DEF Drop, Done, Destroy
<1>3. \A gd \in Descriptors : clientFds_[gd] \in Conns => clientFds_[gd] # cur
  BY <1>1 DEF ServerInv, Entries
<1>4. \A gd \in Fds : sock'[gd] = sock[gd] \/ (sock[gd] = cur /\ sock'[gd] = NoConn)
  <2>1. CASE isConnected_[cur] /\ clientFd_[cur] >= 0
    <3>1. sock' = IF ShutdownOk(clientFd_[cur]) THEN [sock EXCEPT ![clientFd_[cur]] = NoConn] ELSE sock
      BY <2>1 DEF Drop, Destroy, Released
    <3>2. ASSUME ShutdownOk(clientFd_[cur]) PROVE sock[clientFd_[cur]] = cur
      <4>1. clientFd_[cur] \in Fds /\ sock[clientFd_[cur]] # NoConn /\ clientFd_[cur] # Stdin
        BY <3>2, FdsAssumption DEF ShutdownOk
      <4>2. failed[cur]
        BY <4>1 DEF Drop, ServerInv, Held
      <4>. QED BY <1>1, <4>1, <4>2 DEF IInv, FailedObjects
    <3>. QED BY <3>1, <3>2 DEF IInv, ClientTypeOK
  <2>2. CASE ~(isConnected_[cur] /\ clientFd_[cur] >= 0)
    BY <2>2 DEF Drop, Destroy
  <2>. QED BY <2>1, <2>2
<1>5. LoopTypes' /\ Named' /\ Held'
  BY <1>1, <1>2 DEF ServerInv, LoopTypes, Named, Held, IInv, ClientTypeOK
<1>6. \A d \in Conns : ~Leaving(d)'
  BY <1>2 DEF Leaving
<1>7. \A g \in Descriptors : clientFds_[g] \in Conns =>
        clientFd_'[clientFds_[g]] = g /\ mine'[clientFds_[g]] = clientFds_[g]
  BY <1>2, <1>3 DEF ServerInv, Entries, IInv, ClientTypeOK
<1>8. \A g \in Descriptors, h \in Fds :
        clientFds_[g] \in Conns => (sock'[h] = clientFds_[g] <=> h = g)
  BY <1>3, <1>4, NoConnAssumption DEF ServerInv, Entries
<1>9. \A d \in Conns : isConnected_'[d] => clientFds_[clientFd_'[d]] = d
  BY <1>1, <1>2 DEF ServerInv, Entries, IInv, ClientTypeOK
<1>. QED BY <1>2, <1>5, <1>6, <1>7, <1>8, <1>9 DEF ServerInv, Entries

LEMMA AfterKeeps == ASSUME IInv, ServerInv, AfterRead \/ AfterWrite PROVE ServerInv'
<1>1. /\ UNCHANGED <<sock, clientFd_, isConnected_, mine, failed, clientFds_, events_, edge>>
      /\ pc' = "loop" /\ cur' = NoConn
  BY DEF AfterRead, AfterWrite, Done, SetWriter, RemoveWriter, clientVars, kernel, fields
<1>2. \A d \in Conns : ~failed[d] /\ ~Leaving(d) /\ ~Leaving(d)'
  BY <1>1 DEF AfterRead, AfterWrite, ServerInv, Named, Leaving
<1>. QED BY <1>1, <1>2 DEF ServerInv, LoopTypes, Named, Held, Entries

LEMMA DispatchKeeps ==
  ASSUME IInv, ServerInv, NEW fd \in Descriptors, NEW f \in Filters,
         DispatchEof(fd, f) \/ NullClient(fd, f) \/ HandleRead(fd) \/ HandleWrite(fd)
  PROVE  ServerInv'
<1>1. events_' \subseteq [ident : Descriptors \cup {Listener}, filter : Filters, eof : BOOLEAN]
      /\ edge' \in BOOLEAN /\ pc = "loop"
  BY DEF DispatchEof, NullClient, HandleRead, HandleWrite, Dispatched, ServerInv, LoopTypes
<1>2. \A d \in Conns : ~failed[d] /\ ~Leaving(d)
  BY <1>1 DEF ServerInv, Named, Leaving
<1>3. CASE DispatchEof(fd, f)
  BY <1>1, <1>3, CloseKeeps DEF DispatchEof, ServerInv, LoopTypes, Named, Held
<1>4. CASE NullClient(fd, f)
  <2>1. /\ UNCHANGED <<sock, clientFd_, isConnected_, mine, failed, cur>>
        /\ clientFds_' = [clientFds_ EXCEPT ![fd] = Null] /\ pc' = "crashed"
        /\ clientFds_[fd] \notin Conns
    BY <1>4 DEF NullClient, clientVars, kernel, fields
  <2>2. LoopTypes' /\ Named' /\ Held'
    BY <1>1, <1>2, <2>1 DEF ServerInv, LoopTypes, Named, Held
  <2>3. Entries'
    BY <1>2, <2>1, MarksAssumption DEF ServerInv, LoopTypes, Entries, Leaving, IInv, ClientTypeOK
  <2>. QED BY <2>2, <2>3 DEF ServerInv
<1>5. CASE HandleRead(fd)
  <2>1. CASE closeSocket(fd, "loop") /\ UNCHANGED cur
    BY <1>1, <1>5, <2>1, CloseKeeps DEF ServerInv, LoopTypes, Named, Held
  <2>2. CASE ~(closeSocket(fd, "loop") /\ UNCHANGED cur)
    <3>1. /\ UNCHANGED <<sock, clientFd_, isConnected_, mine, failed, clientFds_>>
          /\ pc' = "afterRead" /\ cur' \in Conns /\ isConnected_[cur']
      BY <1>5, <2>2 DEF HandleRead, clientVars, kernel, fields
    <3>. QED BY <1>1, <1>2, <3>1 DEF ServerInv, LoopTypes, Named, Held, Entries, Leaving
  <2>. QED BY <2>1, <2>2
<1>6. CASE HandleWrite(fd)
  <2>0. cur' \in Conns
    BY <1>6 DEF HandleWrite
  <2>1. CASE closeSocket(fd, "afterWrite")
    <3>1. pc' \in {"afterWrite", "crashed"}
      BY <1>1, <2>1, CloseKeeps
    <3>. QED BY <1>1, <2>0, <2>1, <3>1, CloseKeeps DEF ServerInv, LoopTypes, Named, Held
  <2>2. CASE ~closeSocket(fd, "afterWrite")
    <3>1. /\ UNCHANGED <<sock, clientFd_, isConnected_, mine, failed, clientFds_>>
          /\ pc' = "afterWrite"
      BY <1>6, <2>2 DEF HandleWrite, clientVars, kernel, fields
    <3>. QED BY <1>1, <1>2, <2>0, <3>1 DEF ServerInv, LoopTypes, Named, Held, Entries, Leaving
  <2>. QED BY <2>1, <2>2
<1>. QED BY <1>3, <1>4, <1>5, <1>6

LEMMA NextServerInv == ASSUME IInv, ServerInv, Next PROVE ServerInv'
BY PeersKeep, PollKeeps, AcceptKeeps, DropKeeps, AfterKeeps, DispatchKeeps DEF Next, Server, Filters

-----------------------------------------------------------------------------
LEMMA ServerInvariance == ASSUME Habits = {} PROVE Spec => [](IInv /\ ServerInv)
<1>1. Init => IInv /\ ServerInv
  BY InitIInv, InitServerInv DEF Init
<1>2. IInv /\ ServerInv /\ [Next]_vars => (IInv /\ ServerInv)'
  <2>1. ASSUME IInv, ServerInv, UNCHANGED clientVars PROVE IInv'
    BY <2>1 DEF clientVars, kernel, fields, IInv, ClientTypeOK, Places, Distinct, FailedObjects,
      Registrations, OwnDescriptor, FlagsMatchKernel, OpenIsOwned
  <2>2. ASSUME IInv, ServerInv, Next PROVE (IInv /\ ServerInv)'
    BY <2>1, <2>2, StepIsClientStep, NextIInv, NextServerInv
  <2>3. ASSUME IInv, ServerInv, UNCHANGED vars PROVE ServerInv'
    BY <2>3 DEF vars, clientVars, kernel, fields, loop, ServerInv, LoopTypes, Named, Held, Entries, Leaving
  <2>4. UNCHANGED vars => UNCHANGED clientVars
    BY DEF vars
  <2>. QED BY <2>1, <2>2, <2>3, <2>4
<1>. QED BY <1>1, <1>2, PTL DEF Spec

\* Every variable of the server keeps its type (Kqueue.hpp:29-266).
THEOREM ServerTypes == ASSUME Habits = {} PROVE Spec => []TypeOK
<1>1. IInv /\ ServerInv => TypeOK
  BY DEF IInv, ServerInv, LoopTypes, TypeOK
<1>. QED BY <1>1, ServerInvariance, PTL

\* The loop uses ClientSocket as its protocol asks: every step of the server
\* is a step of ClientSpec or changes nothing of it (Kqueue.hpp:194-266).
THEOREM ServerIsClient == ASSUME Habits = {} PROVE Spec => ImplementsClient
<1>1. Init => ClientInit
  BY DEF Init
<1>2. IInv /\ ServerInv /\ [Next]_vars => [ClientNext]_clientVars
  BY StepIsClientStep DEF vars
<1>. QED BY <1>1, <1>2, ServerInvariance, PTL DEF Spec, ImplementsClient, ClientSpec

\* Between two events the connected clients are in the map, each under the
\* descriptor it works on: its own connection's, or 0 when its connection is
\* closed (Kqueue.hpp:111-126 and :229).
THEOREM EntriesOwnSockets == ASSUME Habits = {} PROVE Spec => []MapOwnsSockets
<1>1. IInv /\ ServerInv => MapOwnsSockets
  BY DEF ServerInv, Entries, Leaving, MapOwnsSockets
<1>. QED BY <1>1, ServerInvariance, PTL

\* Descriptors leave the map open only when their peer has reset
\* (Kqueue.hpp:119-123).
THEOREM NothingLost == ASSUME Habits = {} PROVE Spec => []NoDescriptorLost
<1>1. ASSUME IInv, ServerInv PROVE NoDescriptorLost
  <2>. SUFFICES ASSUME pc = "loop", NEW fd \in Fds, sock[fd] # NoConn, peer[sock[fd]] # "rst"
                PROVE  clientFds_[fd] # Absent
    BY DEF NoDescriptorLost
  <2>1. PICK c \in Conns : isConnected_[c] /\ clientFd_[c] = fd
    BY <1>1, ClientsAssumption DEF IInv, OpenIsOwned
  <2>2. clientFds_[fd] = c
    BY <1>1, <2>1 DEF ServerInv, Entries, Leaving
  <2>. QED BY <2>2, MarksAssumption
<1>. QED BY <1>1, ServerInvariance, PTL
=============================================================================
