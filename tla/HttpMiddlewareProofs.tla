------------------------ MODULE HttpMiddlewareProofs ------------------------
(* One thread per connection: for any number of connections and            *)
(* descriptors, no thread ever works on another's connection.              *)
EXTENDS HttpMiddleware, SequenceTheorems, TLAPS

-----------------------------------------------------------------------------
(* Queues that hold each connection once.                                   *)

Once(s) == \A i, j \in DOMAIN s : s[i] = s[j] => i = j

LEMMA Appended ==
  ASSUME NEW S, NEW s \in Seq(S), NEW x \in S, Once(s), x \notin ToSet(s)
  PROVE  /\ Append(s, x) \in Seq(S) /\ Once(Append(s, x))
         /\ ToSet(Append(s, x)) = ToSet(s) \cup {x}
<1>1. /\ Append(s, x) \in Seq(S) /\ Len(Append(s, x)) = Len(s) + 1 /\ Len(s) \in Nat
      /\ DOMAIN s = 1 .. Len(s) /\ DOMAIN Append(s, x) = 1 .. Len(s) + 1
      /\ \A i \in 1 .. Len(s) : Append(s, x)[i] = s[i]
      /\ Append(s, x)[Len(s) + 1] = x
  BY AppendProperties, LenProperties
<1>2. \A i \in DOMAIN s : s[i] # x
  BY DEF ToSet
<1>3. Once(Append(s, x))
  BY <1>1, <1>2 DEF Once
<1>4. ToSet(Append(s, x)) = ToSet(s) \cup {x}
  BY <1>1 DEF ToSet
<1>. QED BY <1>1, <1>3, <1>4

LEMMA Headed ==
  ASSUME NEW S, NEW s \in Seq(S), s # <<>>, Once(s)
  PROVE  /\ Head(s) \in S /\ Tail(s) \in Seq(S) /\ Once(Tail(s))
         /\ ToSet(Tail(s)) \subseteq ToSet(s) \ {Head(s)} /\ Head(s) \in ToSet(s)
<1>1. /\ Head(s) \in S /\ Tail(s) \in Seq(S) /\ Head(s) = s[1] /\ Len(s) \in Nat \ {0}
      /\ DOMAIN s = 1 .. Len(s) /\ DOMAIN Tail(s) = 1 .. Len(s) - 1
      /\ \A i \in 1 .. Len(s) - 1 : Tail(s)[i] = s[i + 1]
  BY HeadTailProperties, LenProperties, EmptySeq
<1>2. \A i \in 1 .. Len(s) - 1 : i + 1 \in 1 .. Len(s) /\ i + 1 # 1
  BY <1>1
<1>3. Once(Tail(s))
  BY <1>1, <1>2 DEF Once
<1>4. ToSet(Tail(s)) \subseteq ToSet(s) \ {Head(s)} /\ Head(s) \in ToSet(s)
  BY <1>1, <1>2 DEF ToSet, Once
<1>. QED BY <1>1, <1>3, <1>4

LEMMA Removed ==
  ASSUME NEW S, NEW s \in Seq(S), NEW i \in DOMAIN s, Once(s)
  PROVE  /\ RemoveAt(s, i) \in Seq(S) /\ Once(RemoveAt(s, i))
         /\ ToSet(RemoveAt(s, i)) \subseteq ToSet(s)
<1>1. i \in 1 .. Len(s) /\ Len(s) \in Nat /\ DOMAIN s = 1 .. Len(s)
  BY LenProperties
<1>. DEFINE l == SubSeq(s, 1, i - 1)
            r == SubSeq(s, i + 1, Len(s))
            at(k) == IF k < i THEN k ELSE k + 1
<1>2. /\ l \in Seq(S) /\ Len(l) = i - 1 /\ \A k \in 1 .. i - 1 : l[k] = s[k]
  BY <1>1, SubSeqProperties
<1>3. /\ r \in Seq(S) /\ Len(r) = Len(s) - i
      /\ \A k \in 1 .. Len(s) - i : r[k] = s[k + i]
  BY <1>1, SubSeqProperties
<1>. DEFINE m == l \o r
<1>. HIDE DEF l, r
<1>4. /\ m \in Seq(S) /\ Len(m) = Len(s) - 1
      /\ \A k \in 1 .. Len(s) - 1 : m[k] = s[at(k)] /\ at(k) \in 1 .. Len(s)
  <2>1. /\ m \in Seq(S) /\ Len(m) = Len(l) + Len(r)
        /\ \A k \in 1 .. Len(l) + Len(r) : m[k] = IF k <= Len(l) THEN l[k] ELSE r[k - Len(l)]
    BY <1>2, <1>3, ConcatProperties
  <2>2. Len(m) = Len(s) - 1
    BY <1>1, <1>2, <1>3, <2>1
  <2>3. ASSUME NEW k \in 1 .. Len(s) - 1 PROVE m[k] = s[at(k)] /\ at(k) \in 1 .. Len(s)
    <3>1. CASE k < i BY <1>1, <1>2, <1>3, <2>1, <3>1
    <3>2. CASE ~(k < i)
      <4>3. k \in 1 .. Len(l) + Len(r) /\ ~(k <= Len(l)) /\ Len(l) = i - 1
        BY <1>1, <1>2, <1>3, <3>2
      <4>4. m[k] = r[k - (i - 1)]
        BY <2>1, <4>3
      <4>1. m[k] = r[k - (i - 1)] /\ k - (i - 1) \in 1 .. Len(s) - i /\ (k - (i - 1)) + i = k + 1
        BY <1>1, <3>2, <4>4
      <4>2. r[k - (i - 1)] = s[k + 1]
        BY <1>3, <4>1
      <4>. QED BY <1>1, <3>2, <4>1, <4>2
    <3>. QED BY <3>1, <3>2
  <2>. QED BY <2>1, <2>2, <2>3
<1>5. RemoveAt(s, i) = m /\ DOMAIN m = 1 .. Len(s) - 1
  BY <1>4, LenProperties DEF RemoveAt, l, r
<1>. HIDE DEF m
<1>6. \A j, k \in 1 .. Len(s) - 1 : at(j) = at(k) => j = k
  BY <1>1
<1>. HIDE DEF at
<1>7. Once(m)
  BY <1>1, <1>4, <1>5, <1>6 DEF Once
<1>8. ToSet(m) \subseteq ToSet(s)
  BY <1>1, <1>4, <1>5 DEF ToSet
<1>. QED BY <1>4, <1>5, <1>7, <1>8

-----------------------------------------------------------------------------
(* The invariant.                                                           *)

Types ==
  /\ peer \in [Conns -> {"none", "open", "finished", "reset"}]
  /\ queue \in Seq(Conns)
  /\ owner \in [Fds -> Conns \cup {Nobody}]
  /\ clientSocket \in [Conns -> Fds \cup {Nobody}]
  /\ thread \in [Conns -> {"none", "recv", "handle", "close", "gone"}]

\* A connection is queued once at most, and has no thread as long as it is.
Queued ==
  /\ Once(queue)
  /\ \A c \in ToSet(queue) : thread[c] = "none" /\ peer[c] # "none"
  /\ \A c \in Conns : peer[c] = "none" => thread[c] = "none"

IInv == Types /\ Queued /\ OneThreadEach

LEMMA InitIInv == Init => IInv
<1>. SUFFICES ASSUME Init PROVE IInv
  OBVIOUS
<1>1. queue = <<>> /\ queue \in Seq(Conns) /\ ToSet(queue) = {}
  BY DEF Init, ToSet
<1>2. Types /\ OneThreadEach
  BY <1>1, NobodyAssumption DEF Init, Types, OneThreadEach, Working
<1>3. Queued
  BY <1>1 DEF Init, Queued, Once
<1>. QED BY <1>2, <1>3 DEF IInv

LEMMA NextIInv == IInv /\ [Next]_vars => IInv'
<1>. SUFFICES ASSUME IInv, [Next]_vars PROVE IInv'
  OBVIOUS
<1>. USE DEF IInv
<1>1. CASE UNCHANGED vars
  BY <1>1 DEF vars, Types, Queued, OneThreadEach, Working
<1>2. ASSUME NEW c \in Conns, Connect(c) PROVE IInv'
  <2>1. c \notin ToSet(queue)
    BY <1>2 DEF Connect, Queued
  <2>2. /\ queue' \in Seq(Conns) /\ Once(queue') /\ ToSet(queue') = ToSet(queue) \cup {c}
    BY <1>2, <2>1, Appended DEF Connect, Types, Queued
  <2>. QED BY <1>2, <2>2 DEF Connect, server, Types, Queued, OneThreadEach, Working
<1>3. ASSUME NEW c \in Conns, Send(c) \/ Finish(c) PROVE IInv'
  <2>1. UNCHANGED <<queue, owner, clientSocket, thread>>
    BY <1>3 DEF Send, Finish, server
  <2>2. peer' \in [Conns -> {"none", "open", "finished", "reset"}]
        /\ \A d \in Conns : peer'[d] = "none" <=> peer[d] = "none"
    BY <1>3 DEF Send, Finish, Types
  <2>3. ToSet(queue) \subseteq Conns
    BY DEF Types, ToSet
  <2>. QED BY <2>1, <2>2, <2>3 DEF Types, Queued, OneThreadEach, Working
<1>4. ASSUME NEW c \in Conns, Reset(c) PROVE IInv'
  <2>1. queue' \in Seq(Conns) /\ Once(queue') /\ ToSet(queue') \subseteq ToSet(queue)
    <3>1. CASE UNCHANGED queue
      BY <3>1 DEF Types, Queued
    <3>2. CASE ~UNCHANGED queue
      BY <1>4, <3>2, Removed DEF Reset, Types, Queued
    <3>. QED BY <3>1, <3>2
  <2>. QED BY <1>4, <2>1 DEF Reset, server, Types, Queued, OneThreadEach, Working
<1>5. ASSUME NEW f \in Fds, Accept(f) PROVE IInv'
  <2>1. PICK c \in Conns : c = Head(queue) /\ c \in ToSet(queue)
    BY <1>5, Headed DEF Accept, Types, Queued
  <2>2. queue' \in Seq(Conns) /\ Once(queue') /\ ToSet(queue') \subseteq ToSet(queue) \ {c}
    BY <1>5, <2>1, Headed DEF Accept, Types, Queued
  <2>3. /\ owner[f] = Nobody /\ owner' = [owner EXCEPT ![f] = c]
        /\ clientSocket' = [clientSocket EXCEPT ![c] = f]
        /\ thread' = [thread EXCEPT ![c] = "recv"] /\ UNCHANGED peer
    BY <1>5, <2>1 DEF Accept
  <2>4. thread[c] = "none" /\ peer[c] # "none"
    BY <2>1 DEF Queued
  <2>5. Types' /\ Queued'
    BY <2>2, <2>3, <2>4 DEF Types, Queued
  <2>6. OneThreadEach'
    BY <2>3, <2>4, NobodyAssumption DEF Types, OneThreadEach, Working
  <2>. QED BY <2>5, <2>6
<1>6. ASSUME NEW c \in Conns, Thread(c) PROVE IInv'
  <2>. HIDE DEF IInv
  <2>0. Types /\ Queued /\ OneThreadEach /\ ToSet(queue) \subseteq Conns
    BY DEF IInv, Types, ToSet
  <2>1. UNCHANGED <<peer, queue, clientSocket>>
    BY <1>6 DEF Thread, RecvData, RecvNothing, Handle, Close
  <2>2. CASE RecvData(c) \/ RecvNothing(c) \/ Handle(c)
    <3>1. /\ UNCHANGED owner /\ Working(c)
          /\ thread' \in {[thread EXCEPT ![c] = "handle"], [thread EXCEPT ![c] = "close"]}
      BY <2>2 DEF RecvData, RecvNothing, Handle, Working
    <3>2. ToSet(queue)' = ToSet(queue) /\ Once(queue)' = Once(queue)
      BY <2>1 DEF ToSet, Once
    <3>3. Types' /\ OneThreadEach'
      BY <2>0, <2>1, <3>1 DEF Types, OneThreadEach, Working
    <3>4. Queued'
      BY <2>0, <2>1, <3>1, <3>2 DEF Types, Queued, Working
    <3>. QED BY <3>3, <3>4 DEF IInv
  <2>3. CASE Close(c)
    <3>1. /\ owner' = [owner EXCEPT ![clientSocket[c]] = Nobody]
          /\ thread' = [thread EXCEPT ![c] = "gone"] /\ Working(c)
      BY <2>3 DEF Close, Working
    <3>2. clientSocket[c] \in Fds /\ owner[clientSocket[c]] = c
      BY <2>0, <3>1 DEF Types, OneThreadEach
    <3>3. Types' /\ Queued'
      <4>1. ToSet(queue)' = ToSet(queue) /\ Once(queue)' = Once(queue)
        BY <2>1 DEF ToSet, Once
      <4>. QED BY <2>0, <2>1, <3>1, <4>1 DEF Types, Queued, Working
    <3>4. OneThreadEach'
      BY <2>0, <2>1, <3>1, <3>2, NobodyAssumption DEF Types, OneThreadEach, Working
    <3>. QED BY <3>3, <3>4 DEF IInv
  <2>. QED BY <1>6, <2>2, <2>3 DEF Thread
<1>. QED BY <1>1, <1>2, <1>3, <1>4, <1>5, <1>6 DEF Next

(* While descriptor numbers are reused, the thread of a connection reads,   *)
(* answers and closes that connection, and no descriptor is open without    *)
(* its thread (Listener.hpp 44-71).                                         *)
THEOREM ThreadsOwnConnections == Spec => []OneThreadEach
<1>1. Spec => []IInv
  BY InitIInv, NextIInv, PTL DEF Spec
<1>. QED BY <1>1, PTL DEF IInv
=============================================================================
