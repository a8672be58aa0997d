-------------------------- MODULE PollServerProofs --------------------------
(***************************************************************************)
(* Proofs about PollServer, for any set of connections and descriptors and  *)
(* any bound on the data.                                                   *)
(***************************************************************************)
EXTENDS PollServer, SequenceTheorems, FiniteSetTheorems, TLAPS

Distinct(q) == \A i, j \in DOMAIN q : i # j => q[i] # q[j]
Elements(q) == {q[i] : i \in DOMAIN q}

\* The accept queue holds each queued connection once.
QueueInv == Distinct(acceptQ) /\ \A c \in Elements(acceptQ) : stage[c] = "queued"

\* An open connection has one descriptor.
SocketInv ==
  /\ \A fd \in Fds : sock[fd] # NoConn => stage[sock[fd]] = "open"
  /\ \A fd, g \in Fds : fd # g /\ sock[fd] # NoConn => sock[fd] # sock[g]

\* A client filed under descriptor 0 has lost its connection.
StdinInv ==
  clientFds_[Stdin] \in Conns =>
    clientFd_[clientFds_[Stdin]] = Stdin /\ stage[clientFds_[Stdin]] = "closed"

\* Between accept(2) and the end of accept() the descriptor has no client.
SetupInv ==
  pc = "setup" =>
    cur \in Fds /\ sock[cur] # NoConn /\ clientFds_[cur] \notin Conns

\* The read handler and the response work on a client of the map.
ServeInv ==
  /\ pc \in {"reading", "replying"} => clientFds_[cur] \in Conns
  /\ pc = "replying" => cur \in Fds

DataInv == \A c \in Conns : unread[c] <= sent[c]

IInv == /\ TypeOK /\ QueueInv /\ SocketInv /\ MapOwnsSockets /\ StdinInv
        /\ SetupInv /\ ServeInv /\ DataInv /\ RegisteredIffClient

LEMMA InitIInv == Init => IInv
<1>. SUFFICES ASSUME Init PROVE IInv
  OBVIOUS
<1>. USE FdsAssumption, ChunksAssumption, MarksAssumption DEF Init, Descriptors, Stdin
<1>1. TypeOK
  <2>1. acceptQ \in Seq(Conns) /\ kq \subseteq Descriptors \X Filters
        /\ events_ \subseteq (Descriptors \cup {socket_}) \X Filters
    OBVIOUS
  <2>2. stage \in [Conns -> {"new", "queued", "open", "closed"}]
        /\ peer \in [Conns -> {"up", "fin", "rst"}] /\ pc \in States
    BY DEF States
  <2>3. sent \in [Conns -> 0..MaxChunks] /\ unread \in [Conns -> 0..MaxChunks]
        /\ inHand \in 0..MaxChunks /\ answered \in [Conns -> Nat]
    OBVIOUS
  <2>4. sock \in [Fds -> Conns \cup {NoConn}] /\ cur \in Descriptors
        /\ clientFds_ \in [Descriptors -> Conns \cup {Absent, Null}]
        /\ clientFd_ \in [Conns -> Descriptors \cup {-1}]
    OBVIOUS
  <2>. QED BY <2>1, <2>2, <2>3, <2>4 DEF TypeOK
<1>2. QueueInv /\ SocketInv /\ MapOwnsSockets /\ StdinInv
  BY DEF QueueInv, Distinct, Elements, SocketInv, MapOwnsSockets, StdinInv
<1>3. SetupInv /\ ServeInv /\ DataInv /\ RegisteredIffClient
  BY DEF SetupInv, ServeInv, DataInv, RegisteredIffClient
<1>. QED BY <1>1, <1>2, <1>3 DEF IInv

-----------------------------------------------------------------------------
(* What the operations on the accept queue do to its elements.              *)

LEMMA AppendFacts ==
  ASSUME NEW S, NEW q \in Seq(S), Distinct(q), NEW c \in S, c \notin Elements(q)
  PROVE  /\ Append(q, c) \in Seq(S) /\ Distinct(Append(q, c))
         /\ Elements(Append(q, c)) = Elements(q) \cup {c}
<1>. DEFINE n == Len(q)  p == Append(q, c)
<1>1. /\ n \in Nat /\ DOMAIN q = 1..n /\ DOMAIN p = 1..(n + 1) /\ p \in Seq(S)
      /\ (\A i \in 1..n : p[i] = q[i]) /\ p[n + 1] = c
  BY AppendProperties
<1>. HIDE DEF n, p
<1>2. \A i \in 1..n : q[i] # c
  BY <1>1 DEF Elements
<1>3. \A i \in 1..(n + 1) : i \in 1..n \/ i = n + 1
  BY <1>1
<1>4. Distinct(p)
  BY <1>1, <1>2, <1>3 DEF Distinct
<1>5. Elements(p) = Elements(q) \cup {c}
  BY <1>1, <1>3 DEF Elements
<1>. QED BY <1>1, <1>4, <1>5 DEF p

LEMMA RemoveAtFacts ==
  ASSUME NEW S, NEW q \in Seq(S), Distinct(q), NEW i \in DOMAIN q
  PROVE  /\ RemoveAt(q, i) \in Seq(S) /\ Distinct(RemoveAt(q, i))
         /\ Elements(RemoveAt(q, i)) = Elements(q) \ {q[i]}
<1>. DEFINE n == Len(q)  p == RemoveAt(q, i)
            a == SubSeq(q, 1, i - 1)  b == SubSeq(q, i + 1, Len(q))
<1>1. i \in 1..n /\ n \in Nat /\ DOMAIN q = 1..n
  OBVIOUS
<1>2. a \in Seq(S) /\ Len(a) = i - 1 /\ \A j \in 1..(i - 1) : a[j] = q[j]
  BY <1>1
<1>3. b \in Seq(S) /\ Len(b) = n - i /\ \A j \in 1..(n - i) : b[j] = q[i + j]
  BY <1>1
<1>4. p = a \o b
  BY DEF RemoveAt
<1>. HIDE DEF n, p, a, b
<1>5. p \in Seq(S) /\ Len(p) = n - 1
  <2>1. a \o b \in Seq(S) /\ Len(a \o b) = Len(a) + Len(b)
    BY <1>2, <1>3, ConcatProperties
  <2>. QED BY <1>1, <1>2, <1>3, <1>4, <2>1
<1>6. DOMAIN p = 1..(n - 1)
  BY <1>5
<1>7. ASSUME NEW j \in 1..(n - 1) PROVE p[j] = IF j < i THEN q[j] ELSE q[j + 1]
  <2>1. p[j] = IF j <= i - 1 THEN a[j] ELSE b[j - (i - 1)]
    BY <1>1, <1>2, <1>3, <1>4, ConcatProperties
  <2>2. CASE j <= i - 1 BY <1>1, <1>2, <2>1, <2>2
  <2>3. CASE ~(j <= i - 1)
    <3>1. j - (i - 1) \in 1..(n - i) /\ i + (j - (i - 1)) = j + 1 /\ ~(j < i)
      BY <1>1, <2>3
    <3>. QED BY <1>3, <2>1, <2>3, <3>1
  <2>. QED BY <2>2, <2>3
<1>8. Distinct(p)
  <2>. DEFINE f(j) == IF j < i THEN j ELSE j + 1
  <2>1. ASSUME NEW j \in 1..(n - 1), NEW k \in 1..(n - 1), j # k PROVE p[j] # p[k]
    <3>1. f(j) \in 1..n /\ f(k) \in 1..n /\ f(j) # f(k)
      BY <1>1, <2>1
    <3>2. p[j] = q[f(j)] /\ p[k] = q[f(k)]
      BY <1>7
    <3>. QED BY <1>1, <3>1, <3>2 DEF Distinct
  <2>. QED BY <1>6, <2>1 DEF Distinct
<1>9. Elements(p) = Elements(q) \ {q[i]}
  <2>1. ASSUME NEW j \in 1..n, j # i PROVE \E k \in 1..(n - 1) : p[k] = q[j]
    <3>1. CASE j < i
      <4>1. j \in 1..(n - 1)
        BY <1>1, <3>1
      <4>. QED BY <1>7, <3>1, <4>1
    <3>2. CASE ~(j < i)
      <4>1. j - 1 \in 1..(n - 1) /\ ~(j - 1 < i) /\ (j - 1) + 1 = j
        BY <1>1, <2>1, <3>2
      <4>. QED BY <1>7, <4>1
    <3>. QED BY <3>1, <3>2
  <2>2. ASSUME NEW k \in 1..(n - 1) PROVE p[k] \in Elements(q) \ {q[i]}
    <3>1. \E j \in 1..n : j # i /\ p[k] = q[j]
      BY <1>1, <1>7
    <3>. QED BY <1>1, <3>1 DEF Elements, Distinct
  <2>3. Elements(p) \subseteq Elements(q) \ {q[i]}
    BY <1>6, <2>2 DEF Elements
  <2>4. Elements(q) \ {q[i]} \subseteq Elements(p)
    BY <1>1, <1>6, <2>1 DEF Elements
  <2>. QED BY <2>3, <2>4
<1>. QED BY <1>5, <1>8, <1>9 DEF p

LEMMA TailFacts ==
  ASSUME NEW S, NEW q \in Seq(S), Distinct(q), q # <<>>
  PROVE  /\ Tail(q) \in Seq(S) /\ Distinct(Tail(q)) /\ Head(q) \in Elements(q)
         /\ Elements(Tail(q)) = Elements(q) \ {Head(q)}
<1>. DEFINE n == Len(q)  p == Tail(q)
<1>1. /\ n \in Nat /\ DOMAIN q = 1..n /\ DOMAIN p = 1..(n - 1) /\ p \in Seq(S)
      /\ (\A i \in 1..(n - 1) : p[i] = q[i + 1]) /\ Head(q) = q[1] /\ 1 \in 1..n
  BY HeadTailProperties
<1>. HIDE DEF n, p
<1>2. \A i \in 1..(n - 1) : i + 1 \in 1..n /\ i + 1 # 1
  BY <1>1
<1>3. Distinct(p)
  <2>1. ASSUME NEW j \in 1..(n - 1), NEW k \in 1..(n - 1), j # k PROVE p[j] # p[k]
    <3>1. j + 1 \in 1..n /\ k + 1 \in 1..n /\ j + 1 # k + 1
      BY <1>1, <2>1
    <3>2. p[j] = q[j + 1] /\ p[k] = q[k + 1]
      BY <1>1
    <3>. QED BY <1>1, <3>1, <3>2 DEF Distinct
  <2>. QED BY <1>1, <2>1 DEF Distinct
<1>4. \A i \in 1..n : i # 1 => i - 1 \in 1..(n - 1) /\ (i - 1) + 1 = i
  BY <1>1
<1>5. Elements(p) \subseteq Elements(q) \ {q[1]}
  BY <1>1, <1>2 DEF Elements, Distinct
<1>6. Elements(q) \ {q[1]} \subseteq Elements(p)
  <2>1. ASSUME NEW i \in 1..n, i # 1 PROVE q[i] \in Elements(p)
    <3>1. i - 1 \in 1..(n - 1) /\ q[i] = p[i - 1]
      BY <1>1, <1>4, <2>1
    <3>. QED BY <1>1, <3>1 DEF Elements
  <2>. QED BY <1>1, <2>1 DEF Elements
<1>. QED BY <1>1, <1>3, <1>5, <1>6 DEF Elements, p

-----------------------------------------------------------------------------
(* safetyClose(fd) frees fd and closes its connection, or does nothing.     *)

Closed(fd) ==
  /\ sock' \in [Fds -> Conns \cup {NoConn}]
  /\ stage' \in [Conns -> {"new", "queued", "open", "closed"}]
  /\ \A g \in Fds : sock'[g] = sock[g] \/ (g = fd /\ sock'[g] = NoConn)
  /\ \A c \in Conns :
        stage'[c] = stage[c] \/ (c = sock[fd] /\ sock'[fd] = NoConn /\ stage'[c] = "closed")

LEMMA SafetyCloseCloses ==
  ASSUME TypeOK, NEW fd \in Fds, safetyClose(fd) PROVE Closed(fd)
<1>1. CASE ShutdownOk(fd)
  <2>1. /\ sock' = [sock EXCEPT ![fd] = NoConn] /\ stage' = [stage EXCEPT ![sock[fd]] = "closed"]
        /\ sock[fd] \in Conns
    BY <1>1 DEF safetyClose, ShutdownOk, TypeOK
  <2>. QED BY <2>1 DEF Closed, TypeOK
<1>2. CASE ~ShutdownOk(fd)
  BY <1>2 DEF safetyClose, Closed, TypeOK
<1>. QED BY <1>1, <1>2

LEMMA ClosedKeeps ==
  ASSUME TypeOK, QueueInv, SocketInv, MarksAssumption, NEW fd \in Fds, Closed(fd),
         sock[fd] \in Conns, acceptQ' = acceptQ
  PROVE  QueueInv' /\ SocketInv'
<1>1. stage[sock[fd]] = "open"
  BY DEF SocketInv, MarksAssumption
<1>2. QueueInv'
  <2>1. \A c \in Elements(acceptQ) : c \in Conns
    BY DEF Elements, TypeOK
  <2>. QED BY <1>1, <2>1 DEF QueueInv, Closed, Elements, Distinct
<1>3. SocketInv'
  <2>1. ASSUME NEW g \in Fds, sock'[g] # NoConn PROVE stage'[sock'[g]] = "open"
    <3>1. sock'[g] = sock[g] /\ sock[g] \in Conns /\ stage[sock[g]] = "open"
      BY <2>1 DEF Closed, SocketInv, TypeOK
    <3>2. sock'[fd] = NoConn => g # fd
      BY <2>1
    <3>. QED BY <3>1, <3>2 DEF Closed, SocketInv
  <2>2. ASSUME NEW g \in Fds, NEW h \in Fds, g # h, sock'[g] # NoConn PROVE sock'[g] # sock'[h]
    BY <2>2 DEF Closed, SocketInv
  <2>. QED BY <2>1, <2>2 DEF SocketInv
<1>. QED BY <1>2, <1>3

LEMMA NextIInv == IInv /\ [Next]_vars => IInv'
<1>. SUFFICES ASSUME IInv, [Next]_vars PROVE IInv'
  OBVIOUS
<1>. USE FdsAssumption, ChunksAssumption, MarksAssumption
     DEF Descriptors, Stdin, Filters, States, Dead, Registration, IInv, TypeOK, QueueInv,
         SocketInv, MapOwnsSockets, StdinInv, SetupInv, ServeInv, DataInv, RegisteredIffClient,
         kernel, peers, server, Alive
<1>type. TypeOK OBVIOUS
<1>queue. QueueInv OBVIOUS
<1>socket. SocketInv OBVIOUS
<1>map. MapOwnsSockets OBVIOUS
<1>stdin. StdinInv OBVIOUS
<1>registered. RegisteredIffClient OBVIOUS
<1>1. ASSUME NEW c \in Conns, Connect(c) PROVE IInv'
  <2>1. stage[c] = "new" /\ stage' = [stage EXCEPT ![c] = "queued"] /\ acceptQ' = Append(acceptQ, c)
    BY <1>1 DEF Connect
  <2>2. UNCHANGED <<peer, sent, unread, sock, kq, server>>
    BY <1>1 DEF Connect
  <2>3. /\ acceptQ' \in Seq(Conns) /\ Distinct(acceptQ')
        /\ Elements(acceptQ') = Elements(acceptQ) \cup {c}
    BY <2>1, AppendFacts
  <2>4. TypeOK'
    BY <2>1, <2>2, <2>3
  <2>5. QueueInv'
    BY <2>1, <2>3
  <2>6. SocketInv' /\ MapOwnsSockets' /\ StdinInv'
    BY <2>1, <2>2
  <2>7. SetupInv' /\ ServeInv' /\ DataInv' /\ RegisteredIffClient'
    BY <2>2
  <2>. QED BY <2>4, <2>5, <2>6, <2>7
<1>2. ASSUME NEW c \in Conns, Send(c) PROVE IInv'
  <2>0. /\ UNCHANGED <<kernel, peer, server>> /\ sent[c] < MaxChunks
        /\ sent' = [sent EXCEPT ![c] = @ + 1] /\ unread' = [unread EXCEPT ![c] = @ + 1]
    <3>. HIDE DEF IInv
    <3>. QED BY <1>2 DEF Send
  <2>1. /\ UNCHANGED <<kernel, peer, server>>
        /\ sent' \in [Conns -> 0..MaxChunks] /\ unread' \in [Conns -> 0..MaxChunks]
        /\ \A d \in Conns : unread'[d] <= sent'[d]
    <3>1. DataInv /\ sent \in [Conns -> 0..MaxChunks] /\ unread \in [Conns -> 0..MaxChunks]
      OBVIOUS
    <3>. HIDE DEF IInv
    <3>. QED BY <2>0, <3>1
  <2>2. TypeOK'
    BY <2>1
  <2>3. QueueInv' /\ SocketInv' /\ MapOwnsSockets' /\ StdinInv'
    BY <2>1
  <2>4. SetupInv' /\ ServeInv' /\ DataInv' /\ RegisteredIffClient'
    BY <2>1
  <2>. QED BY <2>2, <2>3, <2>4
<1>3. ASSUME NEW c \in Conns, Finish(c) \/ Reset(c) PROVE IInv'
  <2>1. /\ UNCHANGED <<kernel, sent, unread, server>>
        /\ peer' \in [Conns -> {"up", "fin", "rst"}]
    <3>1. peer \in [Conns -> {"up", "fin", "rst"}]
      OBVIOUS
    <3>. HIDE DEF IInv
    <3>. QED BY <1>3, <3>1 DEF Finish, Reset
  <2>2. TypeOK'
    BY <2>1
  <2>3. QueueInv' /\ SocketInv' /\ MapOwnsSockets' /\ StdinInv'
    BY <2>1
  <2>4. SetupInv' /\ ServeInv' /\ DataInv' /\ RegisteredIffClient'
    BY <2>1
  <2>. QED BY <2>2, <2>3, <2>4
<1>4. ASSUME NEW i \in DOMAIN acceptQ, ResetQueued(i) PROVE IInv'
  <2>. DEFINE c == acceptQ[i]
  <2>1. /\ acceptQ' \in Seq(Conns) /\ Distinct(acceptQ')
        /\ Elements(acceptQ') = Elements(acceptQ) \ {c}
    <3>1. acceptQ \in Seq(Conns) /\ Distinct(acceptQ)
      OBVIOUS
    <3>2. acceptQ' = RemoveAt(acceptQ, i)
      BY <1>4 DEF ResetQueued
    <3>. HIDE DEF IInv
    <3>. QED BY <3>1, <3>2, RemoveAtFacts
  <2>2. c \in Conns /\ c \in Elements(acceptQ)
    BY DEF Elements
  <2>3. stage' = [stage EXCEPT ![c] = "closed"] /\ peer' = [peer EXCEPT ![c] = "rst"]
    BY <1>4 DEF ResetQueued
  <2>4. UNCHANGED <<sent, unread, sock, kq, server>>
    BY <1>4 DEF ResetQueued
  <2>5. TypeOK'
    BY <2>1, <2>2, <2>3, <2>4
  <2>6. QueueInv'
    BY <2>1, <2>2, <2>3
  <2>7. SocketInv' /\ MapOwnsSockets' /\ StdinInv'
    <3>1. stage[c] = "queued" /\ \A d \in Conns : d # c => stage'[d] = stage[d]
      BY <2>2, <2>3
    <3>2. SocketInv' /\ MapOwnsSockets'
      <4>1. sock \in [Fds -> Conns \cup {NoConn}]
        OBVIOUS
      <4>. HIDE DEF IInv, TypeOK, c
      <4>. QED BY <1>socket, <1>map, <2>4, <3>1, <4>1, ZenonT(30)
    <3>3. StdinInv'
      BY <2>4, <3>1
    <3>. QED BY <3>2, <3>3
  <2>8. SetupInv' /\ ServeInv'
    BY <2>4
  <2>9. DataInv'
    BY <2>4
  <2>10. RegisteredIffClient'
    <3>. HIDE DEF IInv, TypeOK, c
    <3>. QED BY <1>registered, <2>4
  <2>. QED BY <2>5, <2>6, <2>7, <2>8, <2>9, <2>10
<1>5. CASE Poll
  <2>1. UNCHANGED <<kernel, peers, unread, clientFds_, clientFd_, pc, cur, inHand, answered>>
    BY <1>5 DEF Poll
  <2>2. events_' \subseteq (Descriptors \cup {socket_}) \X Filters
    BY <1>5 DEF Poll, Ready, MaybeReady
  <2>3. TypeOK' /\ QueueInv' /\ SocketInv' /\ MapOwnsSockets' /\ StdinInv'
    BY <2>1, <2>2
  <2>4. SetupInv' /\ ServeInv' /\ DataInv' /\ RegisteredIffClient'
    BY <2>1
  <2>. QED BY <2>3, <2>4
<1>6. CASE AcceptNothing BY <1>6 DEF AcceptNothing, Taken
<1>7. ASSUME NEW fd \in Fds, Accept(fd) PROVE IInv'
  <2>. DEFINE c == Head(acceptQ)
  <2>1. /\ acceptQ' \in Seq(Conns) /\ Distinct(acceptQ') /\ c \in Elements(acceptQ)
        /\ Elements(acceptQ') = Elements(acceptQ) \ {c} /\ c \in Conns
    BY <1>7, TailFacts DEF Accept
  <2>2. /\ stage[c] = "queued" /\ stage' = [stage EXCEPT ![c] = "open"]
        /\ sock[fd] = NoConn /\ sock' = [sock EXCEPT ![fd] = c]
        /\ cur' = fd /\ pc' = "setup" /\ events_' \subseteq events_
    BY <1>7, <2>1 DEF Accept, Taken, Free
  <2>3. UNCHANGED <<kq, peer, sent, unread, clientFds_, clientFd_, inHand, answered>>
    BY <1>7 DEF Accept
  <2>4. TypeOK'
    BY <2>1, <2>2, <2>3
  <2>5. QueueInv'
    BY <2>1, <2>2
  <2>8. /\ \A d \in Conns : d # c => stage'[d] = stage[d]
        /\ \A g \in Fds : g # fd => sock'[g] = sock[g]
        /\ stage'[c] = "open" /\ sock'[fd] = c /\ c # NoConn
        /\ clientFds_[fd] \notin Conns /\ \A g \in Fds : sock[g] # c
    <3>1. /\ sock \in [Fds -> Conns \cup {NoConn}]
          /\ stage \in [Conns -> {"new", "queued", "open", "closed"}]
      OBVIOUS
    <3>. HIDE DEF IInv, TypeOK, c
    <3>. QED BY <1>socket, <1>map, <2>1, <2>2, <3>1
  <2>6. SocketInv'
    <3>1. sock \in [Fds -> Conns \cup {NoConn}]
      OBVIOUS
    <3>. HIDE DEF IInv, TypeOK, c
    <3>. QED BY <1>socket, <2>1, <2>8, <3>1
  <2>9. MapOwnsSockets'
    BY <2>3, <2>8
  <2>10. StdinInv'
    BY <2>1, <2>2, <2>3, <2>8
  <2>7. SetupInv'
    BY <2>2, <2>3, <2>8
  <2>11. ServeInv' /\ DataInv'
    BY <2>2, <2>3
  <2>12. RegisteredIffClient'
    BY <2>2, <2>3
  <2>. QED BY <2>4, <2>5, <2>6, <2>7, <2>9, <2>10, <2>11, <2>12
<1>8. ASSUME NEW fd \in Descriptors, DispatchRead(fd) PROVE IInv'
  <2>1. /\ UNCHANGED <<kernel, peers, unread, clientFd_, inHand, answered>>
        /\ events_' \subseteq events_ /\ <<fd, "read">> \in events_ /\ cur' = fd
        /\ \/ clientFds_[fd] # Absent /\ clientFds_' = clientFds_
           \/ clientFds_[fd] = Absent /\ clientFds_' = [clientFds_ EXCEPT ![fd] = Null]
    BY <1>8 DEF DispatchRead, Taken, Looked
  <2>2. pc' = IF clientFds_'[fd] = Null THEN "crashed" ELSE "reading"
    BY <1>8 DEF DispatchRead
  <2>3. \A g \in Descriptors : \/ clientFds_'[g] = clientFds_[g]
                               \/ clientFds_'[g] = Null /\ clientFds_[g] = Absent
    BY <2>1
  <2>4. TypeOK'
    <3>. HIDE DEF IInv
    <3>. QED BY <1>type, <2>1, <2>2
  <2>5. QueueInv' /\ SocketInv'
    BY <2>1
  <2>6. MapOwnsSockets'
    <3>. HIDE DEF IInv
    <3>. QED BY <1>type, <1>map, <2>1, <2>3
  <2>9. StdinInv'
    <3>. HIDE DEF IInv
    <3>. QED BY <1>type, <1>stdin, <2>1, <2>3
  <2>7. SetupInv' /\ ServeInv' /\ DataInv'
    BY <2>1, <2>2
  <2>8. RegisteredIffClient'
    BY <2>1, <2>3
  <2>. QED BY <2>4, <2>5, <2>6, <2>7, <2>8, <2>9
<1>9. ASSUME NEW fd \in Descriptors, DispatchWrite(fd) PROVE IInv'
  <2>1. /\ UNCHANGED <<kernel, peers, unread, clientFd_, inHand, answered>>
        /\ events_' \subseteq events_ /\ <<fd, "write">> \in events_ /\ cur' = fd
        /\ \/ clientFds_[fd] # Absent /\ clientFds_' = clientFds_
           \/ clientFds_[fd] = Absent /\ clientFds_' = [clientFds_ EXCEPT ![fd] = Null]
    BY <1>9 DEF DispatchWrite, Taken, Looked
  <2>2. pc' \in {"loop", "closing"}
    BY <1>9 DEF DispatchWrite
  <2>3. \A g \in Descriptors : \/ clientFds_'[g] = clientFds_[g]
                               \/ clientFds_'[g] = Null /\ clientFds_[g] = Absent
    BY <2>1
  <2>4. TypeOK'
    <3>. HIDE DEF IInv
    <3>. QED BY <1>type, <2>1, <2>2
  <2>5. QueueInv' /\ SocketInv'
    BY <2>1
  <2>6. MapOwnsSockets'
    <3>. HIDE DEF IInv
    <3>. QED BY <1>type, <1>map, <2>1, <2>3
  <2>9. StdinInv'
    <3>. HIDE DEF IInv
    <3>. QED BY <1>type, <1>stdin, <2>1, <2>3
  <2>7. SetupInv' /\ ServeInv' /\ DataInv'
    BY <2>1, <2>2
  <2>8. RegisteredIffClient'
    BY <2>1, <2>3
  <2>. QED BY <2>4, <2>5, <2>6, <2>7, <2>8, <2>9
<1>10. CASE AcceptFails BY <1>10 DEF AcceptFails
<1>11. ASSUME NEW fd \in Descriptors, Register(fd) PROVE IInv'
  <2>. DEFINE c == sock[cur]
  <2>0. /\ pc = "setup" /\ fd \in AcceptedFds \ {-1} /\ pc' = "loop"
        /\ clientFds_' = [clientFds_ EXCEPT ![fd] = c]
    BY <1>11 DEF Register
  <2>1. /\ cur \in Fds /\ c \in Conns /\ stage[c] = "open"
        /\ clientFds_[cur] \notin Conns /\ c \notin {Absent, Null}
    BY <2>0
  <2>9. fd = cur \/ (fd = Stdin /\ ShutdownOk(cur))
    <3>. HIDE DEF IInv, TypeOK
    <3>. QED BY <2>0 DEF AcceptedFds
  <2>2. UNCHANGED <<acceptQ, peer, sent, unread, events_, cur, inHand, answered>>
    BY <1>11 DEF Register
  <2>3. CASE fd = cur
    <3>0. /\ clientFd_' = [d \in Conns |-> CASE d = c -> cur [] d = clientFds_[cur] -> -1
                                            [] OTHER -> clientFd_[d]]
          /\ kq' = kq \cup Registration(cur) /\ UNCHANGED <<sock, stage>>
      BY <1>11, <2>1, <2>3 DEF Register
    <3>9. \A d \in Conns : d # clientFds_[cur]
      BY <2>1
    <3>8. /\ clientFd_' \in [Conns -> Descriptors \cup {-1}] /\ clientFd_'[c] = cur
          /\ \A d \in Conns : d # c => clientFd_'[d] = clientFd_[d]
      BY <2>1, <3>0, <3>9
    <3>1. kq' = kq \cup Registration(cur) /\ UNCHANGED <<sock, stage>>
      BY <3>0
    <3>2. TypeOK' /\ QueueInv' /\ SocketInv'
      BY <2>0, <2>1, <2>2, <2>3, <3>1, <3>8
    <3>3. MapOwnsSockets' /\ StdinInv'
      BY <2>0, <2>1, <2>2, <2>3, <3>1, <3>8
    <3>4. SetupInv' /\ ServeInv' /\ DataInv' /\ RegisteredIffClient'
      BY <2>0, <2>1, <2>2, <2>3, <3>1, <3>8
    <3>. QED BY <3>2, <3>3, <3>4
  <2>4. CASE fd = Stdin
    <3>. DEFINE old == clientFds_[Stdin]
    <3>1. /\ clientFd_' = [d \in Conns |-> CASE d = c -> Stdin [] d = old -> -1 [] OTHER -> clientFd_[d]]
          /\ kq' = kq \ Registration(Stdin) \/ kq' = kq \cup Registration(Stdin)
          /\ sock' = [sock EXCEPT ![cur] = NoConn] /\ stage' = [stage EXCEPT ![c] = "closed"]
      BY <1>11, <2>1, <2>4, <2>9 DEF Register, safetyClose
    <3>9. /\ clientFd_' \in [Conns -> Descriptors \cup {-1}] /\ clientFd_'[c] = Stdin
          /\ \A d \in Conns : d # c /\ d # old => clientFd_'[d] = clientFd_[d]
          /\ \A d \in Conns : d # c => stage'[d] = stage[d]
          /\ \A g \in Fds : g # cur => sock'[g] = sock[g]
          /\ sock'[cur] = NoConn /\ stage'[c] = "closed"
      BY <2>1, <3>1
    <3>2. TypeOK'
      BY <2>0, <2>1, <2>2, <2>4, <3>1, <3>9
    <3>10. /\ sock \in [Fds -> Conns \cup {NoConn}] /\ c = sock[cur]
           /\ acceptQ \in Seq(Conns) /\ c \in Conns /\ stage[c] = "open" /\ cur \in Fds
      BY <2>1
    <3>3. QueueInv'
      <4>. HIDE DEF IInv, TypeOK, c, old
      <4>1. \A d \in Elements(acceptQ) : d \in Conns
        BY <3>10 DEF Elements
      <4>. QED BY <1>queue, <2>2, <3>9, <3>10, <4>1
    <3>6. SocketInv'
      <4>. HIDE DEF IInv, TypeOK, c, old
      <4>. QED BY <1>socket, <3>9, <3>10
    <3>4. MapOwnsSockets'
      <4>1. ASSUME NEW g \in Fds, clientFds_'[g] \in Conns
            PROVE  /\ clientFds_'[g] = clientFds_[g] /\ clientFds_[g] # c
                   /\ clientFds_[g] # old /\ g # cur
        BY <2>0, <2>1, <2>4, <4>1
      <4>. HIDE DEF IInv, TypeOK, c, old
      <4>. QED BY <1>map, <3>9, <4>1
    <3>7. StdinInv'
      BY <2>0, <2>1, <2>2, <2>4, <3>9
    <3>5. SetupInv' /\ ServeInv' /\ DataInv'
      BY <2>0, <2>1, <2>2, <2>4
    <3>8. RegisteredIffClient'
      BY <2>0, <2>1, <2>2, <2>4, <3>1
    <3>. QED BY <3>2, <3>3, <3>4, <3>5, <3>6, <3>7, <3>8
  <2>. QED BY <2>3, <2>4, <2>9
<1>12. ASSUME NEW fd \in Descriptors, RegisterFails(fd) PROVE IInv'
  <2>. DEFINE c == sock[cur]
  <2>1. /\ pc = "setup" /\ cur \in Fds /\ c \in Conns /\ stage[c] = "open"
        /\ clientFds_[cur] \notin Conns /\ pc' = "loop" /\ fd \in {cur, Stdin}
    BY <1>12 DEF RegisterFails, AcceptedFds
  <2>2. UNCHANGED <<acceptQ, peer, sent, unread, clientFds_, clientFd_, events_, cur, inHand, answered>>
    BY <1>12 DEF RegisterFails
  <2>3. Closed(cur)
    BY <1>12, <2>1, SafetyCloseCloses DEF RegisterFails
  <2>4. kq' \subseteq kq /\ \A e \in kq : e[1] \notin {cur, Stdin} => e \in kq'
    BY <1>12, <2>1 DEF RegisterFails
  <2>5. TypeOK'
    BY <2>1, <2>2, <2>3, <2>4 DEF Closed
  <2>9. QueueInv' /\ SocketInv'
    BY <2>1, <2>2, <2>3, ClosedKeeps
  <2>6. MapOwnsSockets' /\ StdinInv'
    BY <2>1, <2>2, <2>3 DEF Closed
  <2>7. SetupInv' /\ ServeInv' /\ DataInv'
    BY <2>1, <2>2
  <2>8. RegisteredIffClient'
    BY <2>1, <2>2, <2>4
  <2>. QED BY <2>5, <2>6, <2>7, <2>8, <2>9
<1>13. CASE ReadData
  <2>1. /\ UNCHANGED <<kernel, peers, clientFds_, clientFd_, events_, cur, answered>>
        /\ pc = "reading" /\ pc' = "replying"
        /\ unread' \in [Conns -> 0..MaxChunks] /\ inHand' \in 0..MaxChunks
        /\ \A d \in Conns : unread'[d] <= unread[d]
    BY <1>13 DEF ReadData
  <2>6. cur \in Fds /\ clientFds_[cur] \in Conns
    <3>1. clientFd_[clientFds_[cur]] \in Fds
      BY <1>13 DEF ReadData
    <3>. QED BY <2>1, <3>1
  <2>2. TypeOK'
    BY <2>1
  <2>5. DataInv'
    <3>1. DataInv /\ sent \in [Conns -> 0..MaxChunks] /\ unread \in [Conns -> 0..MaxChunks]
      OBVIOUS
    <3>. HIDE DEF IInv, TypeOK
    <3>. QED BY <2>1, <3>1
  <2>3. QueueInv' /\ SocketInv' /\ MapOwnsSockets' /\ StdinInv'
    BY <2>1
  <2>4. SetupInv' /\ ServeInv' /\ RegisteredIffClient'
    BY <2>1, <2>6
  <2>. QED BY <2>2, <2>3, <2>4, <2>5
<1>14. CASE ReadNothing BY <1>14 DEF ReadNothing
<1>15. CASE Reply
  <2>1. /\ answered' \in [Conns -> Nat] /\ pc' = "loop" /\ inHand' = 0
        /\ UNCHANGED <<kernel, peers, unread, clientFds_, clientFd_, events_, cur>>
    BY <1>15 DEF Reply
  <2>. QED BY <2>1
<1>16. CASE ReplyFails BY <1>16 DEF ReplyFails
<1>17. CASE CloseClient
  <2>. DEFINE c == clientFds_[cur]
  <2>1. /\ cur \in Fds /\ c \in Conns /\ clientFd_[c] = cur /\ sock[cur] = c
        /\ stage[c] = "open" /\ pc' = "loop"
        /\ kq' = kq \ Registration(cur)
        /\ clientFd_' = [clientFd_ EXCEPT ![c] = -1]
        /\ clientFds_' = [clientFds_ EXCEPT ![cur] = Absent]
    BY <1>17 DEF CloseClient
  <2>2. UNCHANGED <<acceptQ, peer, sent, unread, events_, cur, inHand, answered>>
    BY <1>17 DEF CloseClient
  <2>3. Closed(cur)
    BY <1>17, <2>1, SafetyCloseCloses DEF CloseClient
  <2>4. TypeOK'
    BY <2>1, <2>2, <2>3 DEF Closed
  <2>7. QueueInv' /\ SocketInv'
    BY <2>1, <2>2, <2>3, ClosedKeeps
  <2>5. MapOwnsSockets' /\ StdinInv'
    BY <2>1, <2>2, <2>3 DEF Closed
  <2>6. SetupInv' /\ ServeInv' /\ DataInv' /\ RegisteredIffClient'
    BY <2>1, <2>2
  <2>. QED BY <2>4, <2>5, <2>6, <2>7
<1>18. CASE CloseNull BY <1>18 DEF CloseNull
<1>19. CASE CloseServer
  <2>1. /\ clientFds_' = [fd \in Descriptors |-> Absent] /\ clientFd_' = [c \in Conns |-> -1]
        /\ pc' = "exited"
        /\ UNCHANGED <<acceptQ, peers, unread, events_, cur, inHand, answered>>
    BY <1>19 DEF CloseServer
  <2>. DEFINE mapped == {fd \in Descriptors : clientFds_[fd] \in Conns}
              closed == {fd \in mapped : ShutdownOk(fd)}
  <2>2. /\ sock' = [fd \in Fds |-> IF fd \in closed THEN NoConn ELSE sock[fd]]
        /\ stage' = [c \in Conns |-> IF \E fd \in closed : sock[fd] = c THEN "closed" ELSE stage[c]]
        /\ kq' = kq \ (mapped \X Filters)
    BY <1>19 DEF CloseServer
  <2>8. \A fd \in closed : fd \in Fds /\ sock[fd] # NoConn /\ stage[sock[fd]] = "open"
    BY DEF ShutdownOk
  <2>10. kq' = kq \ (mapped \X Filters)
    BY <2>2
  <2>. HIDE DEF mapped, closed
  <2>3. \A fd \in Fds, f \in Filters : <<fd, f>> \notin kq'
    <3>1. ASSUME NEW fd \in Fds, NEW f \in Filters, <<fd, f>> \in kq PROVE fd \in mapped
      BY <3>1 DEF mapped
    <3>. QED BY <2>10, <3>1
  <2>4. TypeOK'
    BY <2>1, <2>2, <2>3
  <2>5. QueueInv'
    <3>1. ASSUME NEW i \in DOMAIN acceptQ PROVE stage'[acceptQ[i]] = "queued"
      <4>1. acceptQ[i] \in Conns /\ stage[acceptQ[i]] = "queued"
        BY DEF Elements
      <4>2. ~ \E fd \in closed : sock[fd] = acceptQ[i]
        BY <2>8, <4>1
      <4>. QED BY <2>2, <4>1, <4>2
    <3>2. UNCHANGED acceptQ /\ Distinct(acceptQ)
      BY <2>1
    <3>. HIDE DEF IInv
    <3>. QED BY <3>1, <3>2 DEF Elements, Distinct
  <2>9. SocketInv'
    <3>1. ASSUME NEW g \in Fds, sock'[g] # NoConn
          PROVE  g \notin closed /\ sock'[g] = sock[g] /\ sock[g] # NoConn
      BY <2>2, <3>1
    <3>2. ASSUME NEW g \in Fds, sock'[g] # NoConn PROVE stage'[sock'[g]] = "open"
      <4>1. ~ \E fd \in closed : sock[fd] = sock[g]
        BY <2>8, <3>1, <3>2
      <4>2. sock[g] \in Conns
        BY <3>1, <3>2
      <4>. QED BY <2>2, <3>1, <3>2, <4>1, <4>2
    <3>3. ASSUME NEW fd \in Fds, NEW g \in Fds, fd # g, sock'[fd] # NoConn
          PROVE  sock'[fd] # sock'[g]
      <4>1. CASE sock'[g] = NoConn
        BY <3>3, <4>1
      <4>2. CASE sock'[g] # NoConn
        BY <3>1, <3>3, <4>2
      <4>. QED BY <4>1, <4>2
    <3>. QED BY <3>2, <3>3
  <2>6. MapOwnsSockets' /\ StdinInv' /\ SetupInv' /\ ServeInv' /\ DataInv'
    BY <2>1
  <2>7. RegisteredIffClient'
    <3>1. ASSUME NEW fd \in Fds PROVE clientFds_'[fd] \notin Conns
      BY <2>1
    <3>2. ASSUME NEW fd \in Fds PROVE {f \in Filters : <<fd, f>> \in kq'} = {}
      BY <2>3
    <3>. QED BY <3>1, <3>2
  <2>. QED BY <2>4, <2>5, <2>6, <2>7, <2>9
<1>20. CASE UNCHANGED vars
  <2>1. TypeOK' BY <1>20 DEF vars
  <2>2. QueueInv' BY <1>20 DEF vars
  <2>3. SocketInv' /\ MapOwnsSockets' /\ StdinInv' BY <1>20 DEF vars
  <2>4. SetupInv' /\ ServeInv' /\ DataInv' /\ RegisteredIffClient' BY <1>20 DEF vars
  <2>. QED BY <2>1, <2>2, <2>3, <2>4
<1>. QED
  BY <1>1, <1>2, <1>3, <1>4, <1>5, <1>6, <1>7, <1>8, <1>9, <1>10, <1>11, <1>12,
     <1>13, <1>14, <1>15, <1>16, <1>17, <1>18, <1>19, <1>20
     DEF Next, Server, Environment

LEMMA Inductive == Spec => []IInv
  BY InitIInv, NextIInv, PTL DEF Spec

-----------------------------------------------------------------------------

\* Every variable of the event loop keeps its type: in particular no event, no
\* registration and no entry of clientFds_ is ever for the descriptor -1 that
\* accept() returns when it fails.
THEOREM TypeCorrect == Spec => []TypeOK
<1>1. IInv => TypeOK
  BY DEF IInv
<1>. QED BY Inductive, <1>1, PTL

\* Whatever system calls fail and whoever resets, a client in clientFds_ works
\* on its own connection, never on one that inherited its descriptor.
THEOREM MapIsSound == Spec => []MapOwnsSockets
<1>1. IInv => MapOwnsSockets
  BY DEF IInv
<1>. QED BY Inductive, <1>1, PTL

\* Whatever system calls fail and whoever resets, the registrations with kqueue
\* are those of the clients in clientFds_, both filters of each.
THEOREM RegistrationsMatch == Spec => []RegisteredIffClient
<1>1. IInv => RegisteredIffClient
  BY DEF IInv
<1>. QED BY Inductive, <1>1, PTL

-----------------------------------------------------------------------------
(***************************************************************************)
(* What may still be assumed of an event of a batch when earlier ones have  *)
(* been handled, and so what the server may answer and close.               *)
(***************************************************************************)

Serving == {"reading", "replying", "closing"}

\* A pending read event is for a client in the map, since only a client's own
\* read event, which is then no longer pending, takes it out.
BatchInv ==
  /\ \A f \in Filters : <<Stdin, f>> \in kq => clientFds_[Stdin] \in Conns
  /\ pc \notin Dead =>
       \A fd \in Descriptors : <<fd, "read">> \in events_ => clientFds_[fd] \in Conns
  /\ pc \in Serving => clientFds_[cur] \in Conns /\ <<cur, "read">> \notin events_
  /\ pc # "crashed"

\* Without failures at setup nothing is ever filed under descriptor 0.
NoStdin ==
  /\ \A f \in Filters : <<Stdin, f>> \notin kq /\ <<Stdin, f>> \notin events_
  /\ pc \in Serving => cur \in Fds

\* A pending read event still has its reason, and a client is closed for one.
ReasonInv ==
  /\ pc \notin Dead => \A fd \in Fds : <<fd, "read">> \in events_ => Readable(fd)
  /\ pc = "reading" => Readable(cur)
  /\ pc = "closing" => \/ peer[clientFds_[cur]] = "rst"
                       \/ peer[clientFds_[cur]] = "fin" /\ unread[clientFds_[cur]] = 0

-----------------------------------------------------------------------------
(* Responses.                                                               *)

\* A response is sent for data, which its buffer holds until then.
OwedInv == AnswersAreOwed /\ (pc = "replying" => inHand > 0)

LEMMA NextAnswers == IInv /\ OwedInv /\ [Next]_vars => OwedInv'
<1>. SUFFICES ASSUME IInv, OwedInv, [Next]_vars PROVE OwedInv'
  OBVIOUS
<1>0. /\ inHand \in Nat
      /\ \A c \in Conns : answered[c] \in Nat /\ unread[c] \in Nat /\ sent[c] \in Nat
      /\ \A c \in Conns : InHandOf(c) \in Nat
      /\ unread \in [Conns -> 0..MaxChunks] /\ sent \in [Conns -> 0..MaxChunks]
      /\ answered \in [Conns -> Nat] /\ cur \in Descriptors
  BY ChunksAssumption DEF IInv, TypeOK, InHandOf
<1>. DEFINE Still == UNCHANGED <<answered, unread, sent>>
<1>1. ASSUME Still, pc' # "replying" PROVE OwedInv'
  BY <1>0, <1>1 DEF OwedInv, AnswersAreOwed, InHandOf
<1>2. ASSUME Still, UNCHANGED <<pc, clientFds_, cur, inHand>> PROVE OwedInv'
  BY <1>2 DEF OwedInv, AnswersAreOwed, InHandOf
<1>3. ASSUME NEW c \in Conns, Send(c) PROVE OwedInv'
  <2>1. /\ sent' = [sent EXCEPT ![c] = @ + 1] /\ unread' = [unread EXCEPT ![c] = @ + 1]
        /\ UNCHANGED <<answered, pc, clientFds_, cur, inHand>>
    BY <1>3 DEF Send, server
  <2>2. \A d \in Conns : InHandOf(d)' = InHandOf(d)
    BY <2>1 DEF InHandOf
  <2>3. \A d \in Conns : sent'[d] - unread'[d] = sent[d] - unread[d] /\ sent'[d] \in Nat /\ unread'[d] \in Nat
    BY <1>0, <2>1
  <2>. QED BY <1>0, <2>1, <2>2, <2>3 DEF OwedInv, AnswersAreOwed
<1>4. CASE Environment
  <2>1. ASSUME NEW c \in Conns, Connect(c) \/ Finish(c) \/ Reset(c) PROVE OwedInv'
    BY <1>2, <2>1 DEF Connect, Finish, Reset, server
  <2>2. ASSUME NEW i \in DOMAIN acceptQ, ResetQueued(i) PROVE OwedInv'
    BY <1>2, <2>2 DEF ResetQueued, server
  <2>. QED BY <1>3, <1>4, <2>1, <2>2 DEF Environment
<1>5. CASE ReadData
  <2>. DEFINE c == clientFds_[cur]
  <2>1. /\ c \in Conns /\ cur \in Fds /\ clientFd_[c] = cur /\ sock[cur] = c
    <3>1. pc = "reading" /\ c \in Conns /\ clientFd_[c] \in Fds
      BY <1>5 DEF ReadData, IInv, ServeInv
    <3>2. cur \in Fds
      BY <1>0, <3>1, FdsAssumption DEF IInv, StdinInv, Descriptors, Stdin
    <3>. QED BY <3>1, <3>2 DEF IInv, MapOwnsSockets
  <2>2. PICK n \in 1..unread[c] : unread' = [unread EXCEPT ![c] = @ - n] /\ inHand' = n
    BY <1>5, <2>1 DEF ReadData
  <2>3. pc = "reading" /\ UNCHANGED <<answered, sent, clientFds_, cur>>
    BY <1>5 DEF ReadData, peers
  <2>4. /\ \A d \in Conns : InHandOf(d) = 0
        /\ \A d \in Conns : InHandOf(d)' = IF pc' = "replying" /\ c = d THEN n ELSE 0
    BY <2>2, <2>3 DEF InHandOf
  <2>5. \A d \in Conns : unread'[d] = IF d = c THEN unread[d] - n ELSE unread[d]
    BY <1>0, <2>1, <2>2
  <2>. QED BY <1>0, <2>2, <2>3, <2>4, <2>5 DEF OwedInv, AnswersAreOwed
<1>6. CASE Reply
  <2>. DEFINE c == clientFds_[cur]
  <2>1. /\ pc = "replying" /\ cur \in Fds /\ c \in Conns /\ sock[clientFd_[c]] = c
    BY <1>6 DEF Reply, IInv, ServeInv, MapOwnsSockets
  <2>2. /\ answered' = [answered EXCEPT ![c] = @ + 1] \/ answered' = answered
        /\ pc' = "loop" /\ UNCHANGED <<unread, sent>>
    BY <1>6, <2>1 DEF Reply, peers
  <2>3. /\ \A d \in Conns : InHandOf(d) = IF c = d THEN inHand ELSE 0
        /\ \A d \in Conns : InHandOf(d)' = 0
    BY <2>1, <2>2 DEF InHandOf
  <2>4. \A d \in Conns : answered'[d] = answered[d] \/ (d = c /\ answered'[d] = answered[d] + 1)
    BY <1>0, <2>2
  <2>. QED BY <1>0, <2>1, <2>2, <2>3, <2>4 DEF OwedInv, AnswersAreOwed
<1>7. CASE Poll \/ AcceptNothing
  BY <1>2, <1>7 DEF Poll, AcceptNothing, peers
<1>8. ASSUME NEW fd \in Descriptors, DispatchRead(fd) \/ DispatchWrite(fd) PROVE OwedInv'
  BY <1>1, <1>8 DEF DispatchRead, DispatchWrite, peers
<1>9. ASSUME NEW fd \in Fds, Accept(fd) PROVE OwedInv'
  BY <1>1, <1>9 DEF Accept, peers
<1>10. ASSUME NEW fd \in Descriptors, Register(fd) \/ RegisterFails(fd) PROVE OwedInv'
  BY <1>1, <1>10 DEF Register, RegisterFails, peers
<1>11. CASE AcceptFails \/ ReadNothing \/ ReplyFails
  BY <1>1, <1>11 DEF AcceptFails, ReadNothing, ReplyFails, peers
<1>12. CASE CloseClient \/ CloseNull \/ CloseServer
  BY <1>1, <1>12 DEF CloseClient, CloseNull, CloseServer, peers
<1>13. CASE UNCHANGED vars
  BY <1>2, <1>13 DEF vars
<1>. QED
  BY <1>4, <1>5, <1>6, <1>7, <1>8, <1>9, <1>10, <1>11, <1>12, <1>13 DEF Next, Server

\* On every connection the responses and the data still to be answered never
\* outnumber what its peer has sent, whatever fails.
THEOREM AnswersBounded == Spec => []AnswersAreOwed
<1>1. Init => OwedInv
  BY ChunksAssumption DEF Init, OwedInv, AnswersAreOwed, InHandOf
<1>2. OwedInv => AnswersAreOwed
  BY DEF OwedInv
<1>. QED BY Inductive, NextAnswers, <1>1, <1>2, PTL DEF Spec

-----------------------------------------------------------------------------
(* Stale events.                                                            *)

\* A handler that never asks for the client to be closed.
WriterContent == WriteResults \subseteq Nat

LEMMA NextBatch == WriterContent /\ IInv /\ BatchInv /\ [Next]_vars => BatchInv'
<1>. SUFFICES ASSUME WriterContent, IInv, BatchInv, [Next]_vars PROVE BatchInv'
  OBVIOUS
<1>. USE FdsAssumption, MarksAssumption DEF Descriptors, Stdin, Filters, Serving, BatchInv
<1>0. /\ cur \in Descriptors /\ kq \subseteq Descriptors \X Filters
      /\ clientFds_ \in [Descriptors -> Conns \cup {Absent, Null}] /\ sock \in [Fds -> Conns \cup {NoConn}]
      /\ pc = "setup" => cur \in Fds /\ sock[cur] \in Conns /\ clientFds_[cur] \notin Conns
  BY DEF IInv, TypeOK, SetupInv
\* Steps that leave the tables alone and do not begin to serve a client.
<1>1. ASSUME UNCHANGED <<kq, clientFds_, cur>>, events_' \subseteq events_, pc \notin Dead,
             pc' # "crashed", pc' \in Serving => pc \in Serving
      PROVE  BatchInv'
  BY <1>1
<1>2. CASE Environment
  <2>1. pc \notin Dead \/ pc \in Dead
    OBVIOUS
  <2>2. UNCHANGED <<kq, clientFds_, cur, events_, pc>>
    <3>1. ASSUME NEW c \in Conns, Connect(c) \/ Send(c) \/ Finish(c) \/ Reset(c)
          PROVE  UNCHANGED <<kq, clientFds_, cur, events_, pc>>
      BY <3>1 DEF Connect, Send, Finish, Reset, server, kernel
    <3>2. ASSUME NEW i \in DOMAIN acceptQ, ResetQueued(i)
          PROVE  UNCHANGED <<kq, clientFds_, cur, events_, pc>>
      BY <3>2 DEF ResetQueued, server
    <3>. QED BY <1>2, <3>1, <3>2 DEF Environment
  <2>. QED BY <2>2
<1>3. CASE Poll
  <2>1. /\ events_' \subseteq {<<socket_, "read">>} \cup kq
        /\ pc = "loop" /\ UNCHANGED <<kq, clientFds_, pc, cur>>
    BY <1>3 DEF Poll, Ready, MaybeReady, kernel
  <2>2. ASSUME NEW fd \in Descriptors, <<fd, "read">> \in events_' PROVE clientFds_[fd] \in Conns
    <3>1. <<fd, "read">> \in kq
      BY <2>1, <2>2
    <3>2. CASE fd = Stdin
      BY <3>1, <3>2
    <3>3. CASE fd \in Fds
      BY <3>1, <3>3 DEF IInv, RegisteredIffClient
    <3>. QED BY <3>2, <3>3
  <2>. QED BY <2>1, <2>2 DEF Dead
<1>4. CASE AcceptNothing
  BY <1>1, <1>4 DEF AcceptNothing, Taken, kernel, Dead
<1>5. ASSUME NEW fd \in Fds, Accept(fd) PROVE BatchInv'
  BY <1>5 DEF Accept, Taken, Dead
<1>6. ASSUME NEW fd \in Descriptors, DispatchRead(fd) PROVE BatchInv'
  <2>1. /\ pc = "loop" /\ <<fd, "read">> \in events_ /\ events_' = events_ \ {<<fd, "read">>}
        /\ clientFds_[fd] \in Conns
    BY <1>6 DEF DispatchRead, Taken, Dead
  <2>2. clientFds_' = clientFds_ /\ cur' = fd /\ pc' = "reading" /\ kq' = kq
    BY <1>6, <2>1 DEF DispatchRead, Looked, kernel
  <2>. QED BY <2>1, <2>2 DEF Dead
<1>7. ASSUME NEW fd \in Descriptors, DispatchWrite(fd) PROVE BatchInv'
  <2>1. pc = "loop" /\ pc' = "loop" /\ events_' \subseteq events_ /\ kq' = kq
    BY <1>7 DEF DispatchWrite, Taken, WriterContent, kernel
  <2>2. \A g \in Descriptors : clientFds_[g] \in Conns => clientFds_'[g] \in Conns
    BY <1>0, <1>7 DEF DispatchWrite, Looked
  <2>. QED BY <2>1, <2>2 DEF Dead
<1>8. CASE AcceptFails
  BY <1>1, <1>8 DEF AcceptFails, kernel, Dead
<1>9. ASSUME NEW fd \in Descriptors, Register(fd) PROVE BatchInv'
  <2>1. /\ pc = "setup" /\ pc' = "loop" /\ events_' = events_
        /\ clientFds_' = [clientFds_ EXCEPT ![fd] = sock[cur]]
        /\ kq' = kq \ Registration(fd) \/ kq' = kq \cup Registration(fd)
    BY <1>9 DEF Register
  <2>2. \A g \in Descriptors : g = fd \/ clientFds_[g] \in Conns => clientFds_'[g] \in Conns
    BY <1>0, <2>1
  <2>3. \A f \in Filters : <<Stdin, f>> \in kq' => <<Stdin, f>> \in kq \/ fd = Stdin
    BY <2>1 DEF Registration
  <2>. QED BY <2>1, <2>2, <2>3 DEF Dead
<1>10. ASSUME NEW fd \in Descriptors, RegisterFails(fd) PROVE BatchInv'
  BY <1>10 DEF RegisterFails, Dead
<1>11. CASE ReadData \/ ReadNothing \/ Reply \/ ReplyFails
  BY <1>1, <1>11 DEF ReadData, ReadNothing, Reply, ReplyFails, kernel, Dead
<1>12. CASE CloseClient
  <2>1. /\ pc = "closing" /\ pc' = "loop" /\ cur \in Fds /\ kq' \subseteq kq /\ events_' = events_
        /\ clientFds_' = [clientFds_ EXCEPT ![cur] = Absent]
    BY <1>0, <1>12 DEF CloseClient
  <2>. QED BY <1>0, <2>1 DEF Dead
<1>13. CASE CloseNull
  BY <1>13 DEF CloseNull
<1>14. CASE CloseServer
  <2>1. /\ pc' = "exited" /\ kq' = kq \ ({fd \in Descriptors : clientFds_[fd] \in Conns} \X Filters)
    BY <1>14 DEF CloseServer
  <2>2. \A f \in Filters : <<Stdin, f>> \notin kq'
    BY <2>1
  <2>. QED BY <2>1, <2>2 DEF Dead
<1>15. CASE UNCHANGED vars
  BY <1>15 DEF vars
<1>. QED
  BY <1>2, <1>3, <1>4, <1>5, <1>6, <1>7, <1>8, <1>9, <1>10, <1>11, <1>12, <1>13, <1>14, <1>15
     DEF Next, Server

LEMMA InductiveBatch == WriterContent => (Spec => []BatchInv)
<1>. SUFFICES ASSUME WriterContent PROVE Spec => []BatchInv
  OBVIOUS
<1>1. Init => BatchInv
  BY DEF Init, BatchInv, Serving
<1>2. IInv /\ BatchInv /\ [Next]_vars => BatchInv'
  BY NextBatch
<1>. QED BY Inductive, <1>1, <1>2, PTL DEF Spec

\* The read handler and closeSocket never get a null client, whatever system
\* calls fail, as long as the write handler asks for no client to be closed.
THEOREM NoNullClient == WriterContent => (Spec => []NullNeverUsed)
<1>. SUFFICES ASSUME WriterContent PROVE Spec => []NullNeverUsed
  OBVIOUS
<1>1. BatchInv => NullNeverUsed
  BY DEF BatchInv, NullNeverUsed
<1>. QED BY InductiveBatch, <1>1, PTL

-----------------------------------------------------------------------------
(* Closing.                                                                 *)

\* No call fails on a connection whose peer is well; send buffers may be full.
OnlySendFails == Faults \subseteq {"send"}

\* Then accept() never takes 0 for a descriptor, and closes nothing.
LEMMA SetupIsQuiet ==
  ASSUME OnlySendFails, IInv, pc = "setup", NEW fd \in AcceptedFds \ {-1}
  PROVE  fd = cur /\ fd \in Fds
<1>1. cur \in Fds /\ cur # Stdin
  BY FdsAssumption DEF IInv, SetupInv
<1>2. OptionsMayFail => ~ShutdownOk(cur)
  BY DEF OptionsMayFail, OnlySendFails, ShutdownOk
<1>. QED BY <1>1, <1>2 DEF AcceptedFds

LEMMA NextNoStdin ==
  OnlySendFails /\ IInv /\ NoStdin /\ [Next]_vars => NoStdin'
<1>. SUFFICES ASSUME OnlySendFails, IInv, NoStdin, [Next]_vars PROVE NoStdin'
  OBVIOUS
<1>. USE FdsAssumption DEF Descriptors, Stdin, Filters, Serving, NoStdin
<1>1. ASSUME events_' \subseteq events_ \cup {<<socket_, "read">>} \cup kq, kq' \subseteq kq,
             pc' \in Serving => pc \in Serving /\ cur' = cur
      PROVE  NoStdin'
  BY <1>1
<1>2. CASE Environment
  <2>1. ASSUME NEW c \in Conns, Connect(c) \/ Send(c) \/ Finish(c) \/ Reset(c) PROVE NoStdin'
    BY <1>1, <2>1 DEF Connect, Send, Finish, Reset, server, kernel
  <2>2. ASSUME NEW i \in DOMAIN acceptQ, ResetQueued(i) PROVE NoStdin'
    BY <1>1, <2>2 DEF ResetQueued, server
  <2>. QED BY <1>2, <2>1, <2>2 DEF Environment
<1>3. CASE Poll
  BY <1>1, <1>3 DEF Poll, Ready, MaybeReady, kernel
<1>4. ASSUME NEW fd \in Descriptors, DispatchRead(fd) \/ DispatchWrite(fd) PROVE NoStdin'
  <2>1. fd \in Fds
    BY <1>4 DEF DispatchRead, DispatchWrite, Taken
  <2>. QED BY <1>4, <2>1 DEF DispatchRead, DispatchWrite, Taken, kernel
<1>5. ASSUME NEW fd \in Fds, Accept(fd) PROVE NoStdin'
  BY <1>1, <1>5 DEF Accept, Taken
<1>6. ASSUME NEW fd \in Descriptors, Register(fd) PROVE NoStdin'
  <2>1. fd \in Fds
    BY <1>6, SetupIsQuiet DEF Register
  <2>2. /\ pc' = "loop" /\ events_' = events_
        /\ kq' = kq \ Registration(fd) \/ kq' = kq \cup Registration(fd)
    BY <1>6 DEF Register
  <2>. QED BY <2>1, <2>2 DEF Registration
<1>7. ASSUME NEW fd \in Descriptors, RegisterFails(fd) PROVE NoStdin'
  BY <1>7 DEF RegisterFails, OnlySendFails
<1>8. CASE AcceptNothing \/ AcceptFails \/ ReadData \/ ReadNothing \/ Reply \/ ReplyFails
  BY <1>1, <1>8
     DEF AcceptNothing, AcceptFails, ReadData, ReadNothing, Reply, ReplyFails, Taken, kernel
<1>9. CASE CloseClient \/ CloseNull \/ CloseServer
  BY <1>1, <1>9 DEF CloseClient, CloseNull, CloseServer, kernel
<1>10. CASE UNCHANGED vars
  BY <1>10 DEF vars
<1>. QED
  BY <1>2, <1>3, <1>4, <1>5, <1>6, <1>7, <1>8, <1>9, <1>10 DEF Next, Server

\* Data that has arrived and a hang-up stay until the connection is served.
LEMMA StaysReadable ==
  ASSUME NEW fd \in Fds, sock[fd] \in Conns, sock'[fd] = sock[fd], Readable(fd),
         peer'[sock[fd]] \in {peer[sock[fd]], "fin", "rst"},
         unread[sock[fd]] \in Nat, unread'[sock[fd]] \in {unread[sock[fd]], unread[sock[fd]] + 1}
  PROVE  Readable(fd)'
<1>1. CASE unread[sock[fd]] > 0
  BY <1>1 DEF Readable
<1>2. CASE peer[sock[fd]] # "up"
  BY <1>2 DEF Readable
<1>. QED BY <1>1, <1>2 DEF Readable

LEMMA NextReason ==
  OnlySendFails /\ WriterContent /\ IInv /\ BatchInv /\ NoStdin /\ ReasonInv /\ [Next]_vars
    => ReasonInv'
<1>. SUFFICES ASSUME OnlySendFails, WriterContent, IInv, BatchInv, NoStdin, ReasonInv, [Next]_vars
              PROVE  ReasonInv'
  OBVIOUS
<1>. USE FdsAssumption, MarksAssumption DEF Descriptors, Stdin
<1>0. /\ cur \in Descriptors /\ sock \in [Fds -> Conns \cup {NoConn}]
      /\ peer \in [Conns -> {"up", "fin", "rst"}]
      /\ unread \in [Conns -> 0..MaxChunks] /\ \A c \in Conns : unread[c] \in Nat
      /\ clientFds_ \in [Descriptors -> Conns \cup {Absent, Null}] /\ kq \subseteq Descriptors \X Filters
      /\ acceptQ \in Seq(Conns)
  BY ChunksAssumption DEF IInv, TypeOK
\* Pending read events and served clients are for connections in the map.
<1>1. ASSUME pc \notin Dead, NEW fd \in Fds, <<fd, "read">> \in events_
      PROVE  sock[fd] \in Conns /\ Readable(fd) /\ (pc \in Serving => fd # cur)
  BY <1>1 DEF IInv, BatchInv, MapOwnsSockets, ReasonInv
<1>2. pc \in Serving => /\ cur \in Fds /\ clientFds_[cur] \in Conns
                        /\ sock[cur] = clientFds_[cur] /\ clientFd_[clientFds_[cur]] = cur
  BY DEF NoStdin, BatchInv, IInv, MapOwnsSockets
<1>3. ASSUME pc \notin Dead, events_' \subseteq events_, pc' \notin {"reading", "closing"},
             UNCHANGED <<peer, unread>>,
             \A fd \in Fds : <<fd, "read">> \in events_ => sock'[fd] = sock[fd]
      PROVE  ReasonInv'
  BY <1>1, <1>3 DEF ReasonInv, Readable
<1>4. CASE pc \notin Dead /\ Environment
  <2>. DEFINE Grows ==
         \A d \in Conns :
           /\ peer'[d] \in {peer[d], "fin", "rst"}
           /\ unread'[d] \in {unread[d], unread[d] + 1}
           /\ peer[d] # "up" => unread'[d] = unread[d] /\ peer'[d] \in {peer[d], "rst"}
  <2>1. ASSUME NEW c \in Conns, Connect(c) \/ Reset(c) PROVE Grows /\ UNCHANGED <<sock, server>>
    BY <1>0, <2>1 DEF Connect, Reset, kernel
  <2>2. ASSUME NEW c \in Conns, Send(c) \/ Finish(c) PROVE Grows /\ UNCHANGED <<sock, server>>
    BY <1>0, <2>2 DEF Send, Finish, Alive, kernel
  <2>3. ASSUME NEW i \in DOMAIN acceptQ, ResetQueued(i) PROVE Grows /\ UNCHANGED <<sock, server>>
    BY <1>0, <2>3 DEF ResetQueued
  <2>4. Grows /\ UNCHANGED <<sock, server>>
    BY <1>4, <2>1, <2>2, <2>3 DEF Environment
  <2>. HIDE DEF Grows
  <2>5. ASSUME NEW fd \in Fds, sock[fd] \in Conns, Readable(fd) PROVE Readable(fd)'
    BY <1>0, <2>4, <2>5, StaysReadable DEF Grows
  <2>6. UNCHANGED <<clientFds_, events_, pc, cur>>
    BY <2>4 DEF server
  <2>7. ASSUME NEW fd \in Fds, <<fd, "read">> \in events_' PROVE Readable(fd)'
    BY <1>1, <1>4, <2>5, <2>6, <2>7
  <2>8. ASSUME pc' = "reading" PROVE Readable(cur)'
    <3>1. cur \in Fds /\ sock[cur] \in Conns /\ Readable(cur)
      BY <1>2, <2>6, <2>8 DEF Serving, ReasonInv
    <3>2. (\A fd \in Fds : sock[fd] \in Conns /\ Readable(fd) => Readable(fd)') /\ cur' = cur
      BY <2>5, <2>6
    <3>. QED BY <2>4, <3>1, <3>2, <1>0, StaysReadable DEF Grows, Readable
  <2>9. ASSUME pc' = "closing"
        PROVE  \/ peer'[clientFds_'[cur']] = "rst"
               \/ peer'[clientFds_'[cur']] = "fin" /\ unread'[clientFds_'[cur']] = 0
    BY <1>2, <2>4, <2>6, <2>9 DEF Serving, ReasonInv, Grows
  <2>. QED BY <2>7, <2>8, <2>9 DEF ReasonInv
<1>5. CASE Poll
  <2>1. /\ pc = "loop" /\ UNCHANGED <<sock, peer, unread, pc>>
        /\ \A fd \in Fds : <<fd, "read">> \in events_' => Readable(fd)
    BY <1>5 DEF Poll, Ready, MaybeReady, kernel, peers
  <2>. QED BY <2>1 DEF ReasonInv, Readable
<1>6. CASE AcceptNothing \/ AcceptFails
  BY <1>3, <1>6 DEF AcceptNothing, AcceptFails, Taken, kernel, peers, Dead
<1>7. ASSUME NEW fd \in Fds, Accept(fd) PROVE ReasonInv'
  <2>1. /\ pc = "loop" /\ pc' = "setup" /\ events_' \subseteq events_ /\ UNCHANGED <<peer, unread>>
        /\ sock[fd] = NoConn /\ sock' = [sock EXCEPT ![fd] = Head(acceptQ)]
    BY <1>7 DEF Accept, Taken, Free, peers
  <2>2. \A g \in Fds : <<g, "read">> \in events_ => sock'[g] = sock[g]
    BY <1>0, <1>1, <2>1 DEF Dead
  <2>. QED BY <1>3, <2>1, <2>2 DEF Dead
<1>8. ASSUME NEW fd \in Descriptors, DispatchRead(fd) PROVE ReasonInv'
  <2>1. fd \in Fds
    BY <1>8 DEF DispatchRead, Taken, NoStdin, Filters
  <2>2. /\ pc = "loop" /\ pc' # "closing" /\ events_' \subseteq events_ /\ <<fd, "read">> \in events_
        /\ cur' = fd /\ UNCHANGED <<sock, peer, unread>>
    BY <1>8 DEF DispatchRead, Taken, kernel, peers
  <2>3. \A g \in Fds : <<g, "read">> \in events_ => Readable(g)
    BY <2>2 DEF ReasonInv, Dead
  <2>. QED BY <2>1, <2>2, <2>3 DEF ReasonInv, Readable
<1>9. ASSUME NEW fd \in Descriptors, DispatchWrite(fd) PROVE ReasonInv'
  <2>1. pc = "loop" /\ pc' = "loop" /\ events_' \subseteq events_ /\ UNCHANGED <<sock, peer, unread>>
    BY <1>9 DEF DispatchWrite, Taken, WriterContent, kernel, peers
  <2>. QED BY <1>3, <2>1 DEF Dead
<1>10. ASSUME NEW fd \in Descriptors, Register(fd) PROVE ReasonInv'
  <2>1. fd = cur /\ fd \in Fds /\ clientFds_[fd] \notin Conns
    BY <1>10, SetupIsQuiet DEF Register, IInv, SetupInv
  <2>2. /\ pc = "setup" /\ pc' = "loop" /\ events_' = events_ /\ UNCHANGED <<sock, peer, unread>>
    BY <1>10, <2>1 DEF Register, peers
  <2>. QED BY <1>3, <2>2 DEF Dead
<1>11. ASSUME NEW fd \in Descriptors, RegisterFails(fd) PROVE ReasonInv'
  BY <1>11 DEF RegisterFails, OnlySendFails
<1>12. CASE ReadData
  <2>1. /\ pc = "reading" /\ pc' = "replying" /\ UNCHANGED <<events_, sock, peer>>
        /\ cur \in Fds /\ sock[cur] = clientFds_[cur] /\ sock[cur] \in Conns
    BY <1>2, <1>12 DEF ReadData, Serving, kernel, peers
  <2>2. \A d \in Conns : d # sock[cur] => unread'[d] = unread[d]
    BY <1>0, <1>2, <1>12, <2>1 DEF ReadData, Serving
  <2>3. ASSUME NEW fd \in Fds, <<fd, "read">> \in events_ PROVE Readable(fd)'
    <3>1. fd # cur /\ sock[fd] \in Conns /\ Readable(fd)
      BY <1>1, <2>1, <2>3 DEF Serving, Dead
    <3>2. sock[fd] # sock[cur]
      BY <2>1, <3>1 DEF IInv, SocketInv
    <3>. QED BY <2>1, <2>2, <3>1, <3>2 DEF Readable
  <2>. QED BY <2>1, <2>3 DEF ReasonInv
<1>13. CASE ReadNothing
  <2>1. /\ pc = "reading" /\ pc' = "closing" /\ UNCHANGED <<events_, sock, peer, unread, clientFds_, cur>>
        /\ unread[sock[cur]] = 0 /\ sock[cur] = clientFds_[cur] /\ sock[cur] \in Conns /\ Readable(cur)
    BY <1>2, <1>13 DEF ReadNothing, NothingToRead, Serving, ReasonInv, kernel, peers
  <2>2. peer[sock[cur]] \in {"fin", "rst"}
    BY <1>0, <2>1 DEF Readable
  <2>3. \A fd \in Fds : <<fd, "read">> \in events_ => Readable(fd)
    BY <2>1 DEF ReasonInv, Dead
  <2>. QED BY <2>1, <2>2, <2>3 DEF ReasonInv, Readable
<1>14. CASE Reply
  BY <1>3, <1>14 DEF Reply, kernel, peers, Dead
<1>15. CASE ReplyFails
  <2>1. /\ pc = "replying" /\ pc' \in {"closing", "killed"}
        /\ UNCHANGED <<events_, sock, peer, unread, clientFds_, cur>>
        /\ peer[clientFds_[cur]] = "rst"
    BY <1>2, <1>15 DEF ReplyFails, Serving, kernel, peers
  <2>3. \A fd \in Fds : <<fd, "read">> \in events_ => Readable(fd)
    BY <2>1 DEF ReasonInv, Dead
  <2>. QED BY <2>1, <2>3 DEF ReasonInv, Readable
<1>16. CASE CloseClient
  <2>1. /\ pc = "closing" /\ pc' = "loop" /\ UNCHANGED <<events_, peer, unread>>
        /\ cur \in Fds /\ safetyClose(cur)
    BY <1>2, <1>16 DEF CloseClient, Serving, peers
  <2>2. Closed(cur)
    BY <2>1, SafetyCloseCloses DEF IInv
  <2>3. \A g \in Fds : <<g, "read">> \in events_ => sock'[g] = sock[g]
    BY <1>1, <2>1, <2>2 DEF Closed, Serving, Dead
  <2>. QED BY <1>3, <2>1, <2>3 DEF Dead
<1>17. CASE CloseNull
  BY <1>2, <1>17 DEF CloseNull, Serving
<1>18. CASE CloseServer
  BY <1>2, <1>18 DEF CloseServer, Serving
<1>19. CASE UNCHANGED vars
  BY <1>19 DEF vars, ReasonInv, Readable
<1>. QED
  BY <1>4, <1>5, <1>6, <1>7, <1>8, <1>9, <1>10, <1>11, <1>12, <1>13, <1>14, <1>15, <1>16,
     <1>17, <1>18, <1>19 DEF Next, Server

HangupSeen(c) == peer[c] = "rst" \/ (peer[c] = "fin" /\ unread[c] = 0)

LEMMA ClosesOnHangup ==
  OnlySendFails /\ IInv /\ BatchInv /\ NoStdin /\ ReasonInv /\ [Next]_vars =>
    \A c \in Conns : stage[c] = "open" /\ stage'[c] = "closed" => HangupSeen(c)
<1>. SUFFICES ASSUME OnlySendFails, IInv, BatchInv, NoStdin, ReasonInv, [Next]_vars,
                     NEW c \in Conns, stage[c] = "open", stage'[c] = "closed"
              PROVE  HangupSeen(c)
  OBVIOUS
<1>0. /\ stage \in [Conns -> {"new", "queued", "open", "closed"}] /\ acceptQ \in Seq(Conns)
      /\ \A i \in DOMAIN acceptQ : acceptQ[i] \in Conns /\ stage[acceptQ[i]] = "queued"
  BY DEF IInv, TypeOK, QueueInv, Elements
<1>1. ASSUME Environment PROVE FALSE
  <2>1. ASSUME NEW d \in Conns, Connect(d) \/ Send(d) \/ Finish(d) \/ Reset(d) PROVE FALSE
    BY <1>0, <2>1 DEF Connect, Send, Finish, Reset, kernel
  <2>2. ASSUME NEW i \in DOMAIN acceptQ, ResetQueued(i) PROVE FALSE
    BY <1>0, <2>2 DEF ResetQueued
  <2>. QED BY <1>1, <2>1, <2>2 DEF Environment
<1>2. ASSUME NEW fd \in Fds, Accept(fd) PROVE FALSE
  BY <1>0, <1>2 DEF Accept
<1>3. ASSUME NEW fd \in Descriptors, Register(fd) PROVE FALSE
  <2>1. fd = cur /\ fd # Stdin /\ clientFds_[fd] \notin Conns
    BY <1>3, FdsAssumption, SetupIsQuiet DEF Register, IInv, SetupInv
  <2>. QED BY <1>3, <2>1 DEF Register
<1>4. ASSUME NEW fd \in Descriptors, RegisterFails(fd) PROVE FALSE
  BY <1>4 DEF RegisterFails, OnlySendFails
<1>5. CASE CloseClient
  <2>1. /\ pc = "closing" /\ cur \in Fds /\ safetyClose(cur) /\ sock[cur] = clientFds_[cur]
    BY <1>5 DEF CloseClient, BatchInv, Serving, NoStdin, IInv, MapOwnsSockets
  <2>2. Closed(cur)
    BY <2>1, SafetyCloseCloses DEF IInv
  <2>. QED BY <2>1, <2>2 DEF Closed, ReasonInv, HangupSeen
<1>6. ASSUME CloseNull \/ CloseServer PROVE FALSE
  BY <1>6, FdsAssumption, MarksAssumption DEF CloseNull, CloseServer, BatchInv, NoStdin, Serving
<1>7. ASSUME NEW fd \in Descriptors, DispatchRead(fd) \/ DispatchWrite(fd) PROVE FALSE
  BY <1>7 DEF DispatchRead, DispatchWrite, kernel
<1>8. ASSUME Poll \/ AcceptNothing \/ AcceptFails \/ ReadData \/ ReadNothing \/ Reply \/ ReplyFails
      PROVE  FALSE
  BY <1>8 DEF Poll, AcceptNothing, AcceptFails, ReadData, ReadNothing, Reply, ReplyFails, kernel
<1>9. CASE UNCHANGED vars
  BY <1>9 DEF vars
<1>. QED
  BY <1>1, <1>2, <1>3, <1>4, <1>5, <1>6, <1>7, <1>8, <1>9 DEF Next, Server

\* A live connection is never closed: its peer has finished and everything it
\* sent has been received, or it has reset.
THEOREM ClosesOnlyAfterHangup == OnlySendFails /\ WriterContent => (Spec => CloseOnlyAfterHangup)
<1>. SUFFICES ASSUME OnlySendFails, WriterContent PROVE Spec => CloseOnlyAfterHangup
  OBVIOUS
<1>1. Init => NoStdin /\ ReasonInv
  BY FdsAssumption DEF Init, NoStdin, ReasonInv, Serving
<1>2. IInv /\ NoStdin /\ [Next]_vars => NoStdin'
  BY NextNoStdin
<1>3. IInv /\ BatchInv /\ NoStdin /\ ReasonInv /\ [Next]_vars => ReasonInv'
  BY NextReason
<1>4. Spec => []BatchInv
  BY InductiveBatch
<1>5. IInv /\ BatchInv /\ NoStdin /\ ReasonInv /\ [Next]_vars =>
        \A c \in Conns : stage[c] = "open" /\ stage'[c] = "closed" =>
          \/ peer[c] = "rst"
          \/ peer[c] = "fin" /\ unread[c] = 0
  BY ClosesOnHangup DEF HangupSeen
<1>. QED BY Inductive, <1>1, <1>2, <1>3, <1>4, <1>5, PTL DEF Spec, CloseOnlyAfterHangup

-----------------------------------------------------------------------------
(* Descriptors, while no peer resets.                                       *)

KeptInv == (\A c \in Conns : peer[c] # "rst") /\ NoDescriptorLost

LEMMA NextKept ==
  OnlySendFails /\ ~MayReset /\ IInv /\ NoStdin /\ KeptInv /\ [Next]_vars => KeptInv'
<1>. SUFFICES ASSUME OnlySendFails, ~MayReset, IInv, NoStdin, KeptInv, [Next]_vars PROVE KeptInv'
  OBVIOUS
<1>. USE FdsAssumption, MarksAssumption DEF Descriptors, Stdin, KeptInv
<1>0. /\ cur \in Descriptors /\ sock \in [Fds -> Conns \cup {NoConn}]
      /\ peer \in [Conns -> {"up", "fin", "rst"}]
      /\ clientFds_ \in [Descriptors -> Conns \cup {Absent, Null}]
      /\ pc = "setup" => cur \in Fds /\ sock[cur] \in Conns
  BY DEF IInv, TypeOK, SetupInv
<1>1. ASSUME UNCHANGED <<peer, sock>>, pc # "setup",
             \A fd \in Fds : clientFds_[fd] \in Conns => clientFds_'[fd] = clientFds_[fd]
      PROVE  KeptInv'
  <2>1. \A fd \in Fds : sock[fd] # NoConn => clientFds_[fd] = sock[fd] /\ sock[fd] \in Conns
    BY <1>0, <1>1 DEF NoDescriptorLost
  <2>. QED BY <1>1, <2>1 DEF NoDescriptorLost
<1>2. CASE Environment
  <2>1. ASSUME NEW c \in Conns, Connect(c) \/ Send(c) \/ Finish(c) PROVE KeptInv'
    BY <1>0, <2>1 DEF Connect, Send, Finish, server, kernel, NoDescriptorLost
  <2>. QED BY <1>2, <2>1 DEF Environment, Reset, ResetQueued
<1>3. CASE Poll \/ AcceptNothing \/ ReadData \/ ReadNothing \/ Reply \/ ReplyFails \/ CloseNull
  BY <1>1, <1>3
     DEF Poll, AcceptNothing, Taken, ReadData, ReadNothing, Reply, ReplyFails, CloseNull, kernel, peers
<1>4. ASSUME NEW fd \in Descriptors, DispatchRead(fd) \/ DispatchWrite(fd) PROVE KeptInv'
  <2>1. /\ clientFds_' = Looked(fd) /\ pc = "loop" /\ UNCHANGED <<peer, sock>>
    BY <1>4 DEF DispatchRead, DispatchWrite, Taken, kernel, peers
  <2>. QED BY <1>0, <1>1, <2>1 DEF Looked
<1>5. ASSUME NEW fd \in Fds, Accept(fd) PROVE KeptInv'
  <2>1. /\ pc = "loop" /\ pc' = "setup" /\ cur' = fd /\ UNCHANGED <<peer, clientFds_>>
        /\ \A g \in Fds : g # fd => sock'[g] = sock[g]
    BY <1>0, <1>5 DEF Accept, Taken, peers
  <2>. QED BY <2>1 DEF NoDescriptorLost
<1>6. ASSUME AcceptFails PROVE FALSE
  BY <1>0, <1>6 DEF AcceptFails, AcceptedFds, OptionsMayFail, OnlySendFails
<1>7. ASSUME NEW fd \in Descriptors, Register(fd) PROVE KeptInv'
  <2>1. fd = cur /\ fd \in Fds /\ clientFds_[fd] \notin Conns
    BY <1>7, SetupIsQuiet DEF Register, IInv, SetupInv
  <2>2. /\ clientFds_' = [clientFds_ EXCEPT ![fd] = sock[cur]] /\ UNCHANGED <<sock, peer>>
    BY <1>7, <2>1 DEF Register, peers
  <2>. QED BY <1>0, <2>1, <2>2 DEF NoDescriptorLost
<1>8. ASSUME NEW fd \in Descriptors, RegisterFails(fd) PROVE FALSE
  BY <1>8 DEF RegisterFails, OnlySendFails
<1>9. CASE CloseClient
  <2>1. /\ pc = "closing" /\ cur \in Fds /\ sock[cur] = clientFds_[cur] /\ sock[cur] \in Conns
        /\ safetyClose(cur) /\ clientFds_' = [clientFds_ EXCEPT ![cur] = Absent] /\ peer' = peer
    BY <1>0, <1>9 DEF CloseClient, IInv, MapOwnsSockets, peers
  <2>2. sock' = [sock EXCEPT ![cur] = NoConn]
    BY <2>1 DEF safetyClose, ShutdownOk
  <2>. QED BY <1>0, <2>1, <2>2 DEF NoDescriptorLost
<1>10. ASSUME CloseServer PROVE FALSE
  BY <1>10 DEF CloseServer, NoStdin, Serving
<1>11. CASE UNCHANGED vars
  BY <1>11 DEF vars, NoDescriptorLost
<1>. QED
  BY <1>2, <1>3, <1>4, <1>5, <1>6, <1>7, <1>8, <1>9, <1>10, <1>11 DEF Next, Server

\* Without resets and failures at setup no descriptor is ever lost: the leak
\* needs a peer that resets (or a failing call).
THEOREM NothingLost == OnlySendFails /\ ~MayReset => (Spec => []NoDescriptorLost)
<1>. SUFFICES ASSUME OnlySendFails, ~MayReset PROVE Spec => []NoDescriptorLost
  OBVIOUS
<1>1. Init => NoStdin /\ KeptInv
  BY FdsAssumption DEF Init, NoStdin, KeptInv, NoDescriptorLost, Serving
<1>2. IInv /\ NoStdin /\ [Next]_vars => NoStdin'
  BY NextNoStdin
<1>3. IInv /\ NoStdin /\ KeptInv /\ [Next]_vars => KeptInv'
  BY NextKept
<1>4. KeptInv => NoDescriptorLost
  BY DEF KeptInv
<1>. QED BY Inductive, <1>1, <1>2, <1>3, <1>4, PTL DEF Spec

LEMMA NextSurvives ==
  OnlySendFails /\ WriterContent /\ IInv /\ BatchInv /\ NoStdin /\ KeptInv /\ ServerSurvives
    /\ [Next]_vars => ServerSurvives'
<1>. SUFFICES ASSUME OnlySendFails, WriterContent, IInv, BatchInv, NoStdin, KeptInv,
                     ServerSurvives, [Next]_vars
              PROVE  ServerSurvives'
  OBVIOUS
<1>. USE DEF ServerSurvives, Dead
<1>1. pc' # "crashed"
  BY NextBatch DEF BatchInv
<1>2. ASSUME Environment PROVE pc' = pc
  BY <1>2 DEF Environment, Connect, Send, Finish, Reset, ResetQueued, server
<1>3. ASSUME CloseNull \/ CloseServer PROVE FALSE
  BY <1>3, FdsAssumption, MarksAssumption DEF CloseNull, CloseServer, BatchInv, NoStdin, Serving
<1>4. ASSUME ReplyFails PROVE FALSE
  <2>1. /\ pc = "replying" /\ clientFds_[cur] \in Conns
        /\ sock[clientFd_[clientFds_[cur]]] = clientFds_[cur]
    BY <1>4 DEF ReplyFails, IInv, ServeInv, MapOwnsSockets
  <2>. QED BY <1>4, <2>1 DEF ReplyFails, KeptInv
<1>5. ASSUME NEW fd \in Descriptors, DispatchRead(fd) \/ DispatchWrite(fd) PROVE ServerSurvives'
  BY <1>1, <1>5 DEF DispatchRead, DispatchWrite
<1>6. ASSUME NEW fd \in Descriptors, Register(fd) \/ RegisterFails(fd) PROVE ServerSurvives'
  BY <1>6 DEF Register, RegisterFails
<1>7. ASSUME NEW fd \in Fds, Accept(fd) PROVE ServerSurvives'
  BY <1>7 DEF Accept
<1>8. CASE Poll \/ AcceptNothing \/ AcceptFails \/ ReadData \/ ReadNothing \/ Reply \/ CloseClient
  BY <1>8 DEF Poll, AcceptNothing, AcceptFails, ReadData, ReadNothing, Reply, CloseClient
<1>9. CASE UNCHANGED vars
  BY <1>9 DEF vars
<1>. QED
  BY <1>2, <1>3, <1>4, <1>5, <1>6, <1>7, <1>8, <1>9 DEF Next, Server

\* Peers that connect, send and finish as they like never end the process.
THEOREM Survives == OnlySendFails /\ WriterContent /\ ~MayReset => (Spec => []ServerSurvives)
<1>. SUFFICES ASSUME OnlySendFails, WriterContent, ~MayReset PROVE Spec => []ServerSurvives
  OBVIOUS
<1>1. Init => NoStdin /\ KeptInv /\ ServerSurvives
  BY FdsAssumption DEF Init, NoStdin, KeptInv, NoDescriptorLost, Serving, ServerSurvives, Dead
<1>2. IInv /\ NoStdin /\ [Next]_vars => NoStdin'
  BY NextNoStdin
<1>3. IInv /\ NoStdin /\ KeptInv /\ [Next]_vars => KeptInv'
  BY NextKept
<1>4. IInv /\ BatchInv /\ NoStdin /\ KeptInv /\ ServerSurvives /\ [Next]_vars => ServerSurvives'
  BY NextSurvives
<1>5. Spec => []BatchInv
  BY InductiveBatch
<1>. QED BY Inductive, <1>1, <1>2, <1>3, <1>4, <1>5, PTL DEF Spec

-----------------------------------------------------------------------------
(***************************************************************************)
(* Step simulation: the loop takes the steps of the abstract service, when  *)
(* no peer resets and no call fails.                                        *)
(***************************************************************************)

\* An open connection has a descriptor.
HeldInv == \A c \in Conns : stage[c] = "open" => \E fd \in Fds : sock[fd] = c

LEMMA NextHeld == OnlySendFails /\ IInv /\ NoStdin /\ HeldInv /\ [Next]_vars => HeldInv'
<1>. SUFFICES ASSUME OnlySendFails, IInv, NoStdin, HeldInv, [Next]_vars PROVE HeldInv'
  OBVIOUS
<1>. USE FdsAssumption, MarksAssumption
<1>0. /\ sock \in [Fds -> Conns \cup {NoConn}] /\ acceptQ \in Seq(Conns)
      /\ stage \in [Conns -> {"new", "queued", "open", "closed"}]
  BY DEF IInv, TypeOK
<1>1. ASSUME sock' = sock, \A c \in Conns : stage'[c] = "open" => stage[c] = "open" PROVE HeldInv'
  BY <1>1 DEF HeldInv
<1>2. CASE Environment
  <2>1. ASSUME NEW c \in Conns, Connect(c) \/ Send(c) \/ Finish(c) \/ Reset(c) PROVE HeldInv'
    BY <1>0, <1>1, <2>1 DEF Connect, Send, Finish, Reset, kernel
  <2>2. ASSUME NEW i \in DOMAIN acceptQ, ResetQueued(i) PROVE HeldInv'
    BY <1>0, <1>1, <2>2 DEF ResetQueued
  <2>. QED BY <1>2, <2>1, <2>2 DEF Environment
<1>3. ASSUME NEW fd \in Fds, Accept(fd) PROVE HeldInv'
  <2>1. /\ sock[fd] = NoConn /\ sock' = [sock EXCEPT ![fd] = Head(acceptQ)]
        /\ stage' = [stage EXCEPT ![Head(acceptQ)] = "open"]
    BY <1>3 DEF Accept, Free
  <2>2. ASSUME NEW c \in Conns, stage'[c] = "open" PROVE \E g \in Fds : sock'[g] = c
    <3>1. CASE c = Head(acceptQ)
      BY <1>0, <2>1, <3>1
    <3>2. CASE c # Head(acceptQ)
      <4>1. PICK g \in Fds : sock[g] = c
        BY <1>0, <2>1, <2>2, <3>2 DEF HeldInv
      <4>. QED BY <1>0, <2>1, <4>1
    <3>. QED BY <3>1, <3>2
  <2>. QED BY <2>2 DEF HeldInv
<1>4. ASSUME NEW fd \in Descriptors, Register(fd) PROVE HeldInv'
  <2>1. fd = cur /\ fd # Stdin /\ clientFds_[fd] \notin Conns
    BY <1>4, SetupIsQuiet DEF Register, IInv, SetupInv
  <2>. QED BY <1>1, <1>4, <2>1 DEF Register
<1>5. ASSUME NEW fd \in Descriptors, RegisterFails(fd) PROVE FALSE
  BY <1>5 DEF RegisterFails, OnlySendFails
<1>6. CASE CloseClient
  <2>1. cur \in Fds /\ safetyClose(cur)
    BY <1>6 DEF CloseClient, NoStdin, Serving, IInv, MapOwnsSockets
  <2>2. CASE ShutdownOk(cur)
    <3>1. sock' = [sock EXCEPT ![cur] = NoConn] /\ stage' = [stage EXCEPT ![sock[cur]] = "closed"]
      BY <2>1, <2>2 DEF safetyClose
    <3>2. ASSUME NEW c \in Conns, stage'[c] = "open" PROVE \E g \in Fds : sock'[g] = c
      <4>1. c # sock[cur] /\ stage[c] = "open"
        BY <1>0, <3>1, <3>2
      <4>2. PICK g \in Fds : sock[g] = c
        BY <4>1 DEF HeldInv
      <4>. QED BY <1>0, <3>1, <4>1, <4>2
    <3>. QED BY <3>2 DEF HeldInv
  <2>3. CASE ~ShutdownOk(cur)
    BY <1>1, <2>1, <2>3 DEF safetyClose
  <2>. QED BY <2>2, <2>3
<1>7. ASSUME CloseServer PROVE FALSE
  BY <1>7 DEF CloseServer, NoStdin, Serving, Stdin
<1>8. CASE \/ Poll \/ AcceptNothing \/ AcceptFails \/ ReadData \/ ReadNothing \/ Reply \/ ReplyFails
           \/ CloseNull \/ \E fd \in Descriptors : DispatchRead(fd) \/ DispatchWrite(fd)
  BY <1>1, <1>8
     DEF Poll, AcceptNothing, AcceptFails, ReadData, ReadNothing, Reply, ReplyFails, CloseNull,
         DispatchRead, DispatchWrite, kernel
<1>9. CASE UNCHANGED vars
  BY <1>1, <1>9 DEF vars
<1>. QED
  BY <1>2, <1>3, <1>4, <1>5, <1>6, <1>7, <1>8, <1>9 DEF Next, Server

\* A free descriptor means room for a connection.
LEMMA RoomForOne ==
  ASSUME IInv, HeldInv, IsFiniteSet(Fds), NEW fd \in Fds, sock[fd] = NoConn
  PROVE  Cardinality({c \in Conns : stage[c] = "open"}) < Cardinality(Fds)
<1>. DEFINE Open == {c \in Conns : stage[c] = "open"}  Busy == {g \in Fds : sock[g] # NoConn}
<1>1. IsFiniteSet(Fds \ {fd}) /\ Cardinality(Fds \ {fd}) = Cardinality(Fds) - 1
  BY FS_RemoveElement
<1>2. Busy \subseteq Fds \ {fd}
  OBVIOUS
<1>3. IsFiniteSet(Busy) /\ Cardinality(Busy) <= Cardinality(Fds \ {fd})
  BY <1>1, <1>2, FS_Subset
<1>4. [g \in Busy |-> sock[g]] \in Surjection(Busy, Open)
  <2>1. \A g \in Busy : sock[g] \in Open
    BY DEF IInv, TypeOK, SocketInv
  <2>2. \A c \in Open : \E g \in Busy : sock[g] = c
    BY MarksAssumption DEF HeldInv
  <2>. QED BY <2>1, <2>2 DEF Surjection
<1>5. IsFiniteSet(Open) /\ Cardinality(Open) <= Cardinality(Busy)
  BY <1>3, <1>4, FS_Surjection
<1>6. Cardinality(Fds) \in Nat /\ Cardinality(Busy) \in Nat /\ Cardinality(Open) \in Nat
  BY <1>3, <1>5, FS_CardinalityType
<1>. HIDE DEF Open, Busy
<1>. QED BY <1>1, <1>3, <1>5, <1>6 DEF Open
\* What a step of the loop means to the service.
LEMMA PhaseStep ==
  ASSUME stage \in [Conns -> {"new", "queued", "open", "closed"}], NEW c \in Conns,
         NEW s \in {"new", "queued", "open", "closed"}, stage' = [stage EXCEPT ![c] = s]
  PROVE  Phase' = [Phase EXCEPT ![c] = PhaseOf(s)]
<1>1. \A d \in Conns : stage'[d] = IF d = c THEN s ELSE stage[d]
  OBVIOUS
<1>2. Phase' = [d \in Conns |-> PhaseOf(stage'[d])]
  BY DEF Phase
<1>3. [Phase EXCEPT ![c] = PhaseOf(s)] = [d \in Conns |-> IF d = c THEN PhaseOf(s) ELSE PhaseOf(stage[d])]
  BY DEF Phase
<1>. QED BY <1>1, <1>2, <1>3

LEMMA PhaseNames ==
  /\ PhaseOf("new") = "new" /\ PhaseOf("queued") = "waiting"
  /\ PhaseOf("open") = "served" /\ PhaseOf("closed") = "released"
BY DEF PhaseOf

LEMMA PhaseIs ==
  ASSUME NEW c \in Conns, stage[c] \in {"new", "queued", "open", "closed"}
  PROVE  /\ Phase[c] = "new" <=> stage[c] = "new"
         /\ Phase[c] = "waiting" <=> stage[c] = "queued"
         /\ Phase[c] = "served" <=> stage[c] = "open"
<1>1. Phase[c] = PhaseOf(stage[c])
  BY DEF Phase
<1>. QED BY <1>1, PhaseNames

\* Steps that a peer takes.
LEMMA ConnectArrives ==
  ASSUME IInv, NEW c \in Conns, Connect(c)
  PROVE  Service!Arrive(c)
<1>1. /\ stage \in [Conns -> {"new", "queued", "open", "closed"}] /\ stage[c] = "new"
      /\ stage' = [stage EXCEPT ![c] = "queued"]
      /\ UNCHANGED <<peer, unread, answered, pc, clientFds_, cur, inHand>>
  BY DEF Connect, server, IInv, TypeOK
<1>2. Phase[c] = "new" /\ Phase' = [Phase EXCEPT ![c] = "waiting"]
  BY <1>1, PhaseIs, PhaseStep, PhaseNames
<1>3. HungUp' = HungUp /\ Pending' = Pending /\ answered' = answered
  BY <1>1 DEF HungUp, Pending, InHandOf
<1>. QED BY <1>2, <1>3 DEF Service!Arrive

LEMMA SendAsks ==
  ASSUME IInv, NEW c \in Conns, Send(c)
  PROVE  Service!Ask(c)
<1>1. /\ stage[c] \in {"queued", "open"} /\ peer[c] = "up"
      /\ unread \in [Conns -> 0..MaxChunks] /\ unread' = [unread EXCEPT ![c] = @ + 1]
      /\ UNCHANGED <<stage, peer, answered, pc, clientFds_, cur, inHand>>
  BY DEF Send, Alive, kernel, server, IInv, TypeOK
<1>2. Phase[c] \in {"waiting", "served"} /\ Phase' = Phase /\ ~HungUp[c] /\ HungUp' = HungUp
  BY <1>1, PhaseIs DEF Phase, HungUp
<1>3. \A d \in Conns : InHandOf(d)' = InHandOf(d) /\ InHandOf(d) \in Nat
  BY <1>1, ChunksAssumption DEF InHandOf, IInv, TypeOK
<1>4. Pending' = [Pending EXCEPT ![c] = @ + 1]
  <2>1. \A d \in Conns : unread'[d] + InHandOf(d) = (unread[d] + InHandOf(d)) + (IF d = c THEN 1 ELSE 0)
    BY <1>1, <1>3, ChunksAssumption
  <2>2. Pending' = [d \in Conns |-> unread'[d] + InHandOf(d)]
    BY <1>3 DEF Pending
  <2>. QED BY <1>1, <1>3, <2>1, <2>2, ChunksAssumption DEF Pending
<1>. QED BY <1>1, <1>2, <1>4 DEF Service!Ask, Service!Attached

LEMMA FinishHangsUp ==
  ASSUME IInv, NEW c \in Conns, Finish(c)
  PROVE  Service!HangUp(c)
<1>1. /\ stage[c] \in {"queued", "open"} /\ peer[c] = "up"
      /\ peer \in [Conns -> {"up", "fin", "rst"}] /\ peer' = [peer EXCEPT ![c] = "fin"]
      /\ UNCHANGED <<stage, unread, answered, pc, clientFds_, cur, inHand>>
  BY DEF Finish, Alive, kernel, server, IInv, TypeOK
<1>2. Phase[c] \in {"waiting", "served"} /\ Phase' = Phase /\ Pending' = Pending
  BY <1>1, PhaseIs DEF Phase, Pending, InHandOf
<1>3. ~HungUp[c] /\ HungUp' = [HungUp EXCEPT ![c] = TRUE]
  BY <1>1 DEF HungUp
<1>. QED BY <1>1, <1>2, <1>3 DEF Service!HangUp, Service!Attached

\* Steps that the server takes.
LEMMA AcceptAdmits ==
  ASSUME IInv, HeldInv, IsFiniteSet(Fds), NEW fd \in Fds, Accept(fd)
  PROVE  Service!Admit(Head(acceptQ)) /\ Head(acceptQ) \in Conns
<1>. DEFINE c == Head(acceptQ)
<1>1. c \in Conns /\ stage[c] = "queued"
  <2>1. acceptQ \in Seq(Conns) /\ acceptQ # <<>> /\ QueueInv
    BY DEF Accept, IInv, TypeOK
  <2>2. c \in Elements(acceptQ)
    BY <2>1, TailFacts DEF QueueInv
  <2>. QED BY <2>1, <2>2 DEF QueueInv, Elements
<1>2. /\ sock[fd] = NoConn /\ pc = "loop" /\ pc' = "setup"
      /\ stage \in [Conns -> {"new", "queued", "open", "closed"}]
      /\ stage' = [stage EXCEPT ![c] = "open"]
      /\ UNCHANGED <<peer, unread, answered>>
  BY DEF Accept, Free, Taken, peers, IInv, TypeOK
<1>. HIDE DEF c
<1>3. Phase[c] = "waiting" /\ Phase' = [Phase EXCEPT ![c] = "served"]
  BY <1>1, <1>2, PhaseIs, PhaseStep, PhaseNames
<1>4. HungUp' = HungUp /\ Pending' = Pending
  BY <1>2 DEF HungUp, Pending, InHandOf
<1>5. Service!Served = {d \in Conns : stage[d] = "open"}
  BY <1>2, PhaseIs DEF Service!Served
<1>6. Cardinality(Service!Served) < Cardinality(Fds)
  BY <1>2, <1>5, RoomForOne
<1>7. Service!Cardinality(Service!Served) = Cardinality(Service!Served)
  BY DEF Service!Cardinality, Cardinality
<1>. QED BY <1>1, <1>2, <1>3, <1>4, <1>6, <1>7 DEF Service!Admit, c

LEMMA ServedClient ==
  ASSUME IInv, BatchInv, NoStdin, pc \in Serving
  PROVE  /\ cur \in Fds /\ clientFds_[cur] \in Conns /\ sock[cur] = clientFds_[cur]
         /\ clientFd_[clientFds_[cur]] = cur /\ stage[clientFds_[cur]] = "open"
BY MarksAssumption DEF NoStdin, BatchInv, IInv, MapOwnsSockets, SocketInv

LEMMA ReplyAnswers ==
  ASSUME IInv, BatchInv, NoStdin, OwedInv, Faults = {}, Reply
  PROVE  Service!Answer(clientFds_[cur]) /\ clientFds_[cur] \in Conns
<1>. DEFINE c == clientFds_[cur]
<1>1. /\ pc = "replying" /\ pc' = "loop" /\ inHand > 0 /\ inHand \in Nat
      /\ c \in Conns /\ sock[clientFd_[c]] = c /\ stage[c] = "open"
  BY ServedClient, ChunksAssumption DEF Reply, Serving, OwedInv, IInv, TypeOK
<1>2. /\ answered' = [answered EXCEPT ![c] = @ + 1]
      /\ UNCHANGED <<stage, peer, unread, clientFds_, cur>>
      /\ stage[c] \in {"new", "queued", "open", "closed"}
      /\ \A d \in Conns : unread[d] \in Nat
  BY <1>1, ChunksAssumption DEF Reply, kernel, peers, IInv, TypeOK
<1>3. /\ \A d \in Conns : InHandOf(d) = IF d = c THEN inHand ELSE 0
      /\ \A d \in Conns : InHandOf(d)' = 0
  BY <1>1, <1>2 DEF InHandOf
<1>. HIDE DEF c
<1>4. Phase[c] = "served" /\ Phase' = Phase /\ HungUp' = HungUp
  BY <1>1, <1>2, PhaseIs DEF Phase, HungUp
<1>5. Pending[c] = unread[c] + inHand /\ inHand \in 1..Pending[c]
  BY <1>1, <1>2, <1>3 DEF Pending
<1>6. Pending' = [Pending EXCEPT ![c] = @ - inHand]
  <2>1. \A d \in Conns : Pending[d] = unread[d] + (IF d = c THEN inHand ELSE 0)
    BY <1>3 DEF Pending
  <2>2. Pending' = [d \in Conns |-> unread[d] + 0]
    BY <1>2, <1>3 DEF Pending
  <2>3. Pending = [d \in Conns |-> Pending[d]]
    BY DEF Pending
  <2>4. [Pending EXCEPT ![c] = @ - inHand] = [d \in Conns |-> IF d = c THEN Pending[d] - inHand ELSE Pending[d]]
    BY <2>3
  <2>5. \A d \in Conns : unread[d] + 0 = IF d = c THEN Pending[d] - inHand ELSE Pending[d]
    BY <1>1, <1>2, <2>1
  <2>. QED BY <2>2, <2>4, <2>5
<1>. QED BY <1>1, <1>2, <1>4, <1>5, <1>6 DEF Service!Answer, c

LEMMA CloseReleases ==
  ASSUME IInv, BatchInv, NoStdin, ReasonInv, KeptInv, CloseClient
  PROVE  Service!Release(clientFds_[cur]) /\ clientFds_[cur] \in Conns
<1>. DEFINE c == clientFds_[cur]
<1>1. /\ pc = "closing" /\ pc' = "loop" /\ cur \in Fds /\ c \in Conns
      /\ sock[cur] = c /\ clientFd_[c] = cur /\ stage[c] = "open"
      /\ peer[c] = "fin" /\ unread[c] = 0 /\ safetyClose(cur)
  BY ServedClient DEF CloseClient, Serving, ReasonInv, KeptInv
<1>2. /\ stage' = [stage EXCEPT ![c] = "closed"]
      /\ UNCHANGED <<peer, unread, answered>>
      /\ stage \in [Conns -> {"new", "queued", "open", "closed"}]
  BY <1>1, MarksAssumption DEF safetyClose, ShutdownOk, CloseClient, peers, IInv, TypeOK
<1>. HIDE DEF c
<1>3. Phase[c] = "served" /\ Phase' = [Phase EXCEPT ![c] = "released"]
  BY <1>1, <1>2, PhaseIs, PhaseStep, PhaseNames
<1>4. /\ \A d \in Conns : InHandOf(d) = 0
      /\ \A d \in Conns : InHandOf(d)' = 0
  BY <1>1 DEF InHandOf
<1>5. HungUp[c] /\ Pending[c] = 0
  <2>1. Pending[c] = 0
    BY <1>1, <1>4 DEF Pending
  <2>2. HungUp[c]
    BY <1>1 DEF HungUp
  <2>. QED BY <2>1, <2>2
<1>6. HungUp' = HungUp /\ Pending' = Pending
  BY <1>2, <1>4 DEF HungUp, Pending
<1>. QED BY <1>1, <1>2, <1>3, <1>5, <1>6 DEF Service!Release, c

LEMMA ReadDataIsSilent ==
  ASSUME IInv, BatchInv, NoStdin, ReadData
  PROVE  UNCHANGED Service!vars
<1>. DEFINE c == clientFds_[cur]
<1>1. pc = "reading" /\ pc' = "replying" /\ UNCHANGED <<stage, peer, answered, clientFds_, cur>>
  BY DEF ReadData, kernel, peers
<1>2. c \in Conns /\ clientFd_[c] = cur /\ sock[cur] = c
  BY <1>1, ServedClient DEF Serving
<1>3. PICK n \in 1..unread[c] : unread' = [unread EXCEPT ![c] = @ - n] /\ inHand' = n
  BY <1>2 DEF ReadData
<1>4. unread \in [Conns -> 0..MaxChunks] /\ MaxChunks \in Nat
  BY ChunksAssumption DEF IInv, TypeOK
<1>5. /\ \A d \in Conns : InHandOf(d) = 0
      /\ \A d \in Conns : InHandOf(d)' = IF d = c THEN n ELSE 0
  BY <1>1, <1>3 DEF InHandOf
<1>. HIDE DEF c
<1>6. \A d \in Conns : unread'[d] + (IF d = c THEN n ELSE 0) = unread[d] + 0
  BY <1>2, <1>3, <1>4
<1>7. Pending' = Pending
  BY <1>5, <1>6 DEF Pending
<1>. QED BY <1>1, <1>7 DEF Service!vars, Phase, HungUp
LEMMA NextServes ==
  Faults = {} /\ ~MayReset /\ WriterContent /\ IsFiniteSet(Fds) /\ IInv /\ BatchInv /\ NoStdin
    /\ OwedInv /\ ReasonInv /\ KeptInv /\ HeldInv /\ [Next]_vars => [Service!Next]_(Service!vars)
<1>. SUFFICES ASSUME Faults = {}, ~MayReset, WriterContent, IsFiniteSet(Fds), IInv, BatchInv,
                     NoStdin, OwedInv, ReasonInv, KeptInv, HeldInv, [Next]_vars
              PROVE  [Service!Next]_(Service!vars)
  OBVIOUS
<1>0. OnlySendFails
  BY DEF OnlySendFails
<1>1. ASSUME UNCHANGED <<stage, peer, unread, answered>>,
             pc # "replying", pc' # "replying"
      PROVE  UNCHANGED Service!vars
  BY <1>1 DEF Service!vars, Phase, HungUp, Pending, InHandOf
<1>2. ASSUME NEW c \in Conns, Connect(c) \/ Send(c) \/ Finish(c) PROVE Service!Next
  BY <1>2, ConnectArrives, SendAsks, FinishHangsUp DEF Service!Next
<1>3. CASE Environment
  BY <1>2, <1>3 DEF Environment, Reset, ResetQueued
<1>4. ASSUME NEW fd \in Fds, Accept(fd) PROVE Service!Next
  BY <1>4, AcceptAdmits DEF Service!Next
<1>5. CASE Reply
  BY <1>5, ReplyAnswers DEF Service!Next
<1>6. CASE CloseClient
  BY <1>6, CloseReleases DEF Service!Next
<1>7. CASE Poll \/ AcceptNothing \/ ReadNothing
  BY <1>1, <1>7 DEF Poll, AcceptNothing, ReadNothing, Taken, kernel, peers
<1>8. CASE ReadData
  BY <1>8, ReadDataIsSilent
<1>9. ASSUME NEW fd \in Descriptors, DispatchRead(fd) \/ DispatchWrite(fd)
      PROVE  UNCHANGED Service!vars
  BY <1>1, <1>9 DEF DispatchRead, DispatchWrite, Taken, kernel, peers
<1>10. ASSUME NEW fd \in Descriptors, Register(fd) PROVE UNCHANGED Service!vars
  <2>1. fd = cur /\ fd # Stdin /\ clientFds_[fd] \notin Conns /\ pc = "setup"
    BY <1>0, <1>10, FdsAssumption, SetupIsQuiet DEF Register, IInv, SetupInv
  <2>. QED BY <1>1, <1>10, <2>1 DEF Register, peers
<1>11. ASSUME NEW fd \in Descriptors, RegisterFails(fd) PROVE FALSE
  BY <1>11 DEF RegisterFails
<1>12. ASSUME AcceptFails PROVE FALSE
  <2>1. cur \in Fds /\ sock[cur] \in Conns
    BY <1>12 DEF AcceptFails, IInv, SetupInv, TypeOK
  <2>. QED BY <1>12, <2>1, FdsAssumption DEF AcceptFails, AcceptedFds, OptionsMayFail, KeptInv
<1>13. ASSUME ReplyFails PROVE FALSE
  BY <1>13, ServedClient DEF ReplyFails, KeptInv, Serving
<1>14. ASSUME CloseNull \/ CloseServer PROVE FALSE
  BY <1>14, ServedClient, FdsAssumption, MarksAssumption DEF CloseNull, CloseServer, Serving
<1>15. CASE UNCHANGED vars
  BY <1>15 DEF vars, Service!vars, Phase, HungUp, Pending, InHandOf
<1>. QED
  BY <1>3, <1>4, <1>5, <1>6, <1>7, <1>8, <1>9, <1>10, <1>11, <1>12, <1>13, <1>14, <1>15
     DEF Next, Server

\* With peers that do not reset and system calls that do not fail, every step of
\* the loop is one that the service allows, or none to it: a connection is
\* admitted when there is room, a response answers data that was asked and not
\* answered, a connection is released when its peer has hung up and nothing it
\* asked is unanswered (pollingHandler, accept, the read handler, closeSocket).
THEOREM ServesInSteps ==
  Faults = {} /\ ~MayReset /\ WriterContent /\ IsFiniteSet(Fds) => (Spec => Service!Spec)
<1>. SUFFICES ASSUME Faults = {}, ~MayReset, WriterContent, IsFiniteSet(Fds)
              PROVE  Spec => Service!Spec
  OBVIOUS
<1>1. Init => NoStdin /\ ReasonInv /\ KeptInv /\ OwedInv /\ HeldInv
  BY FdsAssumption, ChunksAssumption
     DEF Init, NoStdin, ReasonInv, Serving, KeptInv, NoDescriptorLost, OwedInv, AnswersAreOwed,
         InHandOf, HeldInv
<1>2. Init => Service!Init
  <2>. SUFFICES ASSUME Init PROVE Service!Init
    OBVIOUS
  <2>1. Phase = [c \in Conns |-> "new"]
    BY PhaseNames DEF Init, Phase
  <2>2. HungUp = [c \in Conns |-> FALSE]
    BY DEF Init, HungUp
  <2>3. Pending = [c \in Conns |-> 0]
    BY DEF Init, Pending, InHandOf
  <2>. QED BY <2>1, <2>2, <2>3 DEF Init, Service!Init
<1>3. OnlySendFails
  BY DEF OnlySendFails
<1>4. IInv /\ NoStdin /\ [Next]_vars => NoStdin'
  BY <1>3, NextNoStdin
<1>5. IInv /\ BatchInv /\ NoStdin /\ ReasonInv /\ [Next]_vars => ReasonInv'
  BY <1>3, NextReason
<1>6. IInv /\ NoStdin /\ KeptInv /\ [Next]_vars => KeptInv'
  BY <1>3, NextKept
<1>7. IInv /\ NoStdin /\ HeldInv /\ [Next]_vars => HeldInv'
  BY <1>3, NextHeld
<1>8. IInv /\ OwedInv /\ [Next]_vars => OwedInv'
  BY NextAnswers
<1>9. IInv /\ BatchInv /\ NoStdin /\ OwedInv /\ ReasonInv /\ KeptInv /\ HeldInv /\ [Next]_vars
        => [Service!Next]_(Service!vars)
  BY NextServes
<1>10. Spec => []BatchInv
  BY InductiveBatch
<1>. QED
  BY Inductive, <1>1, <1>2, <1>4, <1>5, <1>6, <1>7, <1>8, <1>9, <1>10, PTL DEF Spec, Service!Spec
=============================================================================
