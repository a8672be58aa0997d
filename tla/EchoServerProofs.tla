-------------------------- MODULE EchoServerProofs --------------------------
(* The vector and the events of src/Socket.cc, for any number of           *)
(* connections and descriptors, and batches of any size.                    *)
EXTENDS EchoServer, SequenceTheorems, TLAPS

-----------------------------------------------------------------------------
(* The first event of a batch is not among the others.                      *)

Once(s) == \A i, j \in DOMAIN s : s[i] = s[j] => i = j

LEMMA Headed ==
  ASSUME NEW S, NEW s \in Seq(S), s # <<>>
  PROVE  /\ Head(s) \in S /\ Tail(s) \in Seq(S) /\ Head(s) \in ToSet(s)
         /\ ToSet(Tail(s)) \subseteq ToSet(s)
         /\ Once(s) => Once(Tail(s)) /\ Head(s) \notin ToSet(Tail(s))
<1>1. /\ Head(s) \in S /\ Tail(s) \in Seq(S) /\ Head(s) = s[1] /\ Len(s) \in Nat \ {0}
      /\ DOMAIN s = 1 .. Len(s) /\ DOMAIN Tail(s) = 1 .. Len(s) - 1
      /\ \A i \in 1 .. Len(s) - 1 : Tail(s)[i] = s[i + 1]
  BY HeadTailProperties, LenProperties, EmptySeq
<1>2. 1 \in 1 .. Len(s) /\ \A i \in 1 .. Len(s) - 1 : i + 1 \in 1 .. Len(s) /\ i + 1 # 1
  BY <1>1
<1>3. Once(s) => Once(Tail(s))
  BY <1>1, <1>2 DEF Once
<1>4. ToSet(Tail(s)) \subseteq ToSet(s) /\ Head(s) \in ToSet(s)
  BY <1>1, <1>2 DEF ToSet
<1>5. Once(s) => Head(s) \notin ToSet(Tail(s))
  BY <1>1, <1>2 DEF Once, ToSet
<1>. QED BY <1>1, <1>3, <1>4, <1>5

LEMMA RemovedType ==
  ASSUME NEW S, NEW s \in Seq(S), NEW i \in DOMAIN s
  PROVE  RemoveAt(s, i) \in Seq(S)
<1>1. i \in 1 .. Len(s) /\ Len(s) \in Nat
  BY LenProperties
<1>2. SubSeq(s, 1, i - 1) \in Seq(S) /\ SubSeq(s, i + 1, Len(s)) \in Seq(S)
  BY <1>1, SubSeqProperties
<1>. QED BY <1>2, ConcatProperties DEF RemoveAt

-----------------------------------------------------------------------------
(* The invariant.                                                           *)

Types ==
  /\ queue \in Seq(Conns)
  /\ owner \in [Fds -> Conns \cup {Free}] /\ registered \subseteq Fds
  /\ clientFds \in [Fds -> Nat]
  /\ events \in Seq(Fds \cup {Listener}) /\ fd \in Fds \cup {Listener}
  /\ pc \in {"wait", "dispatch", "accept", "reply", "killed"}

\* Whatever kqueue reports, or the loop still has to look at, is open; and
\* nothing is twice in a batch, so that what one event closes has no other.
Batch ==
  /\ registered \subseteq Clients
  /\ Once(events) /\ \A f \in ToSet(events) : f # Listener => owner[f] # Free
  /\ pc = "accept" => events # <<>> /\ Head(events) = Listener
  /\ pc = "reply" => fd \in Clients /\ fd \notin ToSet(events)

IInv == Types /\ Batch /\ ListMatches

LEMMA InitIInv == Init => IInv
<1>. SUFFICES ASSUME Init PROVE IInv
  OBVIOUS
<1>1. \A S : <<>> \in Seq(S) /\ ToSet(<<>>) = {} /\ Once(<<>>)
  BY DEF ToSet, Once
<1>2. Types
  BY <1>1 DEF Init, Types
<1>3. Batch /\ ListMatches
  BY <1>1, <1>2 DEF Init, Types, Batch, ListMatches, Clients
<1>. QED BY <1>2, <1>3 DEF IInv

\* Peers change nothing the thread keeps.
LEMMA PeersKeep ==
  ASSUME IInv, UNCHANGED server, queue' \in Seq(Conns)
  PROVE  IInv'
<1>1. UNCHANGED <<owner, registered, clientFds, events, pc, got, fd>>
  BY DEF server
<1>2. Clients' = Clients /\ ToSet(events)' = ToSet(events) /\ Once(events)' = Once(events)
  BY <1>1 DEF Clients, ToSet, Once
<1>. QED BY <1>1, <1>2 DEF IInv, Types, Batch, ListMatches

\* An event is done with, and at most its own descriptor is closed.
LEMMA ClosingKeeps ==
  ASSUME IInv, NEW f \in Clients, f \notin ToSet(events'), CloseClient(f),
         events' \in Seq(Fds \cup {Listener}), Once(events'), ToSet(events') \subseteq ToSet(events),
         pc' = "dispatch", UNCHANGED <<queue, fd>>
  PROVE  IInv'
<1>1. /\ owner' = [owner EXCEPT ![f] = Free] /\ registered' = registered \ {f}
      /\ clientFds' = [clientFds EXCEPT ![f] = 0] /\ f \in Fds
  BY DEF CloseClient, Clients
<1>2. Types'
  BY <1>1 DEF IInv, Types
<1>3. Clients' = Clients \ {f}
  BY <1>1 DEF IInv, Types, Clients
<1>4. Batch'
  <2>1. \A g \in ToSet(events') : g # Listener => g \in Fds /\ owner'[g] # Free
    <3>1. \A g \in ToSet(events') : g # Listener => g \in Fds /\ owner[g] # Free
      <4>1. \A g \in ToSet(events) : g \in Fds \cup {Listener}
        BY DEF IInv, Types, ToSet
      <4>. QED BY <4>1 DEF IInv, Batch
    <3>. QED BY <1>1, <3>1 DEF IInv, Types
  <2>. QED BY <1>1, <1>3, <2>1 DEF IInv, Batch
<1>5. ListMatches'
  BY <1>1, <1>3 DEF IInv, Types, ListMatches
<1>. QED BY <1>2, <1>4, <1>5 DEF IInv

LEMMA ServeKeeps == IInv /\ Serve => IInv'
<1>. SUFFICES ASSUME IInv, Serve PROVE IInv'
  OBVIOUS
<1>0. Types /\ Batch /\ ListMatches
  BY DEF IInv
<1>1. CASE Wait
  <2>0. PICK n \in 1 .. BatchSize :
          \E batch \in [1 .. n -> Ready] : IsInjective(batch) /\ events' = batch
    BY <1>1 DEF Wait
  <2>1. PICK batch \in [1 .. n -> Ready] : IsInjective(batch) /\ events' = batch
    BY <2>0
  <2>2. Ready \subseteq Clients \cup {Listener} /\ Clients \subseteq Fds
    BY <1>0 DEF Ready, Batch, Clients
  <2>3. DOMAIN batch = 1 .. n /\ n \in Nat /\ \A i \in DOMAIN batch : batch[i] \in Ready
    BY SizesAssumption
  <2>4. events' \in Seq(Fds \cup {Listener})
    <3>1. batch \in [1 .. n -> Fds \cup {Listener}]
      BY <2>2, <2>3
    <3>. QED BY <2>1, <2>3, <3>1, IsASeq
  <2>5. Once(events') /\ ToSet(events') \subseteq Clients \cup {Listener}
    BY <2>1, <2>2, <2>3 DEF IsInjective, Once, ToSet
  <2>6. pc' = "dispatch" /\ UNCHANGED <<queue, owner, registered, clientFds, fd>> /\ Clients' = Clients
    BY <1>1 DEF Wait, Clients
  <2>7. \A f \in Clients : owner[f] # Free
    BY DEF Clients
  <2>. QED BY <1>0, <2>4, <2>5, <2>6, <2>7 DEF IInv, Types, Batch, ListMatches
<1>2. CASE Done \/ AcceptBlocks \/ ReplyKilled
  <2>1. /\ UNCHANGED <<queue, owner, registered, clientFds, events, fd>>
        /\ pc' \in {"wait", "accept", "killed"}
        /\ pc' = "accept" => events # <<>> /\ Head(events) = Listener
    BY <1>2 DEF Done, AcceptBlocks, ReplyKilled
  <2>2. Clients' = Clients /\ ToSet(events)' = ToSet(events) /\ Once(events)' = Once(events)
    BY <2>1 DEF Clients, ToSet, Once
  <2>. QED BY <1>0, <2>1, <2>2 DEF IInv, Types, Batch, ListMatches
<1>3. ASSUME AtAccept, queue # <<>>, events' = Tail(events), pc' = "dispatch"
      PROVE  /\ events' \in Seq(Fds \cup {Listener}) /\ Once(events')
             /\ ToSet(events') \subseteq ToSet(events)
             /\ Tail(queue) \in Seq(Conns) /\ Head(queue) \in Conns
  <2>1. events # <<>>
    BY <1>0, <1>3 DEF AtAccept, Batch
  <2>. QED BY <1>0, <1>3, <2>1, Headed DEF Types, Batch
<1>4. CASE AcceptFails \/ AcceptRefused
  <2>1. /\ AtAccept /\ queue # <<>> /\ events' = Tail(events) /\ pc' = "dispatch"
        /\ queue' \in {queue, Tail(queue)} /\ UNCHANGED <<owner, registered, clientFds, fd>>
    BY <1>4 DEF AcceptFails, AcceptRefused
  <2>2. Clients' = Clients
    BY <2>1 DEF Clients
  <2>. QED BY <1>0, <1>3, <2>1, <2>2 DEF IInv, Types, Batch, ListMatches
<1>5. ASSUME NEW f \in Fds, Accepted(f) PROVE IInv'
  <2>1. /\ AtAccept /\ queue # <<>> /\ events' = Tail(events) /\ pc' = "dispatch" /\ f \notin Clients
        /\ owner' = [owner EXCEPT ![f] = Head(queue)]
        /\ registered' \in {registered, registered \cup {f}}
        /\ clientFds' = [clientFds EXCEPT ![f] = @ + 1]
        /\ queue' = Tail(queue) /\ fd' = fd
    BY <1>5 DEF Accepted
  <2>2. Head(queue) \in Conns /\ Head(queue) # Free
    BY <1>3, <2>1, NamesAssumption
  <2>3. Clients' = Clients \cup {f}
    BY <1>0, <2>1, <2>2 DEF Types, Clients
  <2>4. Types'
    BY <1>0, <1>3, <2>1, <2>2 DEF Types
  <2>5. Batch'
    <3>1. \A g \in ToSet(events') : g # Listener => owner'[g] # Free
      <4>1. \A g \in ToSet(events') : g # Listener => g \in Fds /\ owner[g] # Free
        BY <1>0, <1>3, <2>1 DEF Batch, Types, ToSet
      <4>. QED BY <1>0, <2>1, <2>2, <4>1 DEF Types
    <3>. QED BY <1>0, <1>3, <2>1, <2>3, <3>1 DEF Batch
  <2>6. ListMatches'
    BY <1>0, <2>1, <2>3 DEF Types, ListMatches
  <2>. QED BY <2>4, <2>5, <2>6 DEF IInv
<1>6. ASSUME AtRecv, events' = Tail(events)
      PROVE  /\ Head(events) \in Clients /\ Head(events) \notin ToSet(events')
             /\ events' \in Seq(Fds \cup {Listener}) /\ Once(events')
             /\ ToSet(events') \subseteq ToSet(events)
  <2>1. events # <<>> /\ Head(events) # Listener
    BY <1>6 DEF AtRecv
  <2>. QED BY <1>0, <1>6, <2>1, Headed DEF Types, Batch, Clients
<1>7. CASE Recv
  <2>1. /\ AtRecv /\ events' = Tail(events) /\ fd' = Head(events) /\ pc' = "reply"
        /\ UNCHANGED <<queue, owner, registered, clientFds>>
    BY <1>7 DEF Recv
  <2>2. Clients' = Clients /\ Clients \subseteq Fds
    BY <2>1 DEF Clients
  <2>. QED BY <1>0, <1>6, <2>1, <2>2 DEF IInv, Types, Batch, ListMatches
<1>8. CASE RecvFails
  <2>1. /\ AtRecv /\ events' = Tail(events) /\ CloseClient(Head(events)) /\ pc' = "dispatch"
        /\ UNCHANGED <<queue, fd>>
    BY <1>8 DEF RecvFails, AtRecv
  <2>. QED BY <1>6, <2>1, ClosingKeeps
<1>9. CASE Reply
  <2>1. /\ pc = "reply" /\ pc' = "dispatch" /\ UNCHANGED <<queue, events, fd>>
        /\ CloseClient(fd) \/ UNCHANGED <<owner, registered, clientFds>>
    BY <1>9 DEF Reply
  <2>2. ToSet(events)' = ToSet(events) /\ Once(events)' = Once(events)
    BY <2>1 DEF ToSet, Once
  <2>3. CASE CloseClient(fd)
    BY <1>0, <2>1, <2>2, <2>3, ClosingKeeps DEF Batch, Types
  <2>4. CASE UNCHANGED <<owner, registered, clientFds>>
    <3>1. Clients' = Clients
      BY <2>4 DEF Clients
    <3>. QED BY <1>0, <2>1, <2>2, <2>4, <3>1 DEF IInv, Types, Batch, ListMatches
  <2>. QED BY <2>1, <2>3, <2>4
<1>. QED BY <1>1, <1>2, <1>4, <1>5, <1>7, <1>8, <1>9 DEF Serve

LEMMA NextIInv == IInv /\ [Next]_vars => IInv'
<1>. SUFFICES ASSUME IInv, [Next]_vars PROVE IInv'
  OBVIOUS
<1>1. CASE Serve
  BY <1>1, ServeKeeps
<1>2. ASSUME NEW c \in Conns, Connect(c) \/ Send(c) \/ Finish(c) \/ Read(c) \/ Reset(c) PROVE IInv'
  <2>1. UNCHANGED server
    BY <1>2 DEF Connect, Send, Finish, Read, Reset
  <2>2. queue' \in Seq(Conns)
    <3>1. CASE Connect(c)
      BY <3>1, AppendProperties DEF Connect, IInv, Types
    <3>2. CASE Send(c) \/ Finish(c) \/ Read(c)
      BY <3>2 DEF Send, Finish, Read, IInv, Types
    <3>3. CASE Reset(c)
      BY <3>3, RemovedType DEF Reset, IInv, Types
    <3>. QED BY <1>2, <3>1, <3>2, <3>3
  <2>. QED BY <2>1, <2>2, PeersKeep
<1>3. CASE UNCHANGED vars
  BY <1>3, PeersKeep DEF vars, server, IInv, Types
<1>. QED BY <1>1, <1>2, <1>3 DEF Next

LEMMA Inductive == Spec => []IInv
BY InitIInv, NextIInv, PTL DEF Spec

(* The vector names each open client once, through refused registrations,   *)
(* reused descriptors and the events of one batch (Socket.cc 63-111).       *)
THEOREM ListIsRight == Spec => []ListMatches
BY Inductive, PTL DEF IInv

(* No event is dispatched and no answer sent for a descriptor that was      *)
(* closed earlier in the batch (Socket.cc 69-111).                          *)
THEOREM NoStaleEvent == Spec => []EventsAreOwned
<1>1. IInv => EventsAreOwned
  <2>. SUFFICES ASSUME IInv PROVE EventsAreOwned
    OBVIOUS
  <2>1. \A i \in DOMAIN events : events[i] \in ToSet(events)
    BY DEF ToSet
  <2>. QED BY <2>1 DEF IInv, Batch, EventsAreOwned, Clients
<1>. QED BY <1>1, Inductive, PTL
=============================================================================
