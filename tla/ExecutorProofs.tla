--------------------------- MODULE ExecutorProofs ---------------------------
(* The rounds of a topology on the executor of taskflow/core/executor.hpp,  *)
(* for any number of workers, any graph of tasks without a cycle and any    *)
(* submissions, cancelled or not; and the waits of its workers on the       *)
(* notifier of taskflow/core/notifier.hpp.                                  *)
EXTENDS Executor, FiniteSetTheorems, SequenceTheorems, TLAPS

-----------------------------------------------------------------------------
(* Sequences without repetition.                                            *)

Once(s) == \A i, j \in DOMAIN s : s[i] = s[j] => i = j

LEMMA NothingInIt == \A S : <<>> \in Seq(S) /\ ToSet(<<>>) = {} /\ Once(<<>>)
BY DEF ToSet, Once

LEMMA Emptied == ASSUME NEW S, NEW s \in Seq(S), ToSet(s) = {} PROVE s = <<>>
<1>1. Len(s) \in Nat /\ DOMAIN s = 1 .. Len(s)
  BY LenProperties
<1>2. Len(s) # 0 => 1 \in DOMAIN s /\ s[1] \in ToSet(s)
  BY <1>1 DEF ToSet
<1>. QED BY <1>1, <1>2, EmptySeq

LEMMA Beheaded ==
  ASSUME NEW S, NEW s \in Seq(S), s # <<>>, Once(s)
  PROVE  /\ Head(s) \in S /\ Head(s) \in ToSet(s) /\ Tail(s) \in Seq(S) /\ Once(Tail(s))
         /\ ToSet(Tail(s)) = ToSet(s) \ {Head(s)}
<1>1. /\ Head(s) \in S /\ Tail(s) \in Seq(S) /\ Head(s) = s[1] /\ Len(s) \in Nat \ {0}
      /\ DOMAIN s = 1 .. Len(s) /\ DOMAIN Tail(s) = 1 .. Len(s) - 1
      /\ \A i \in 1 .. Len(s) - 1 : Tail(s)[i] = s[i + 1]
  BY HeadTailProperties, LenProperties, EmptySeq
<1>2. /\ 1 \in 1 .. Len(s) /\ \A i \in 1 .. Len(s) - 1 : i + 1 \in 1 .. Len(s) /\ i + 1 # 1
      /\ \A i \in 1 .. Len(s) : i # 1 => i - 1 \in 1 .. Len(s) - 1 /\ i = (i - 1) + 1
  BY <1>1
<1>3. Once(Tail(s)) /\ Head(s) \in ToSet(s)
  BY <1>1, <1>2 DEF Once, ToSet
<1>4. ToSet(Tail(s)) \subseteq ToSet(s) \ {Head(s)}
  BY <1>1, <1>2 DEF Once, ToSet
<1>5. ToSet(s) \ {Head(s)} \subseteq ToSet(Tail(s))
  <2>. SUFFICES ASSUME NEW i \in 1 .. Len(s), s[i] # s[1] PROVE s[i] \in ToSet(Tail(s))
    BY <1>1 DEF ToSet
  <2>1. i # 1
    OBVIOUS
  <2>2. i - 1 \in DOMAIN Tail(s) /\ Tail(s)[i - 1] = s[i]
    BY <1>1, <1>2, <2>1
  <2>. QED BY <2>2 DEF ToSet
<1>. QED BY <1>1, <1>3, <1>4, <1>5

LEMMA Curtailed ==
  ASSUME NEW S, NEW s \in Seq(S), s # <<>>, Once(s)
  PROVE  /\ Last(s) \in S /\ Last(s) \in ToSet(s) /\ Front(s) \in Seq(S) /\ Once(Front(s))
         /\ ToSet(Front(s)) = ToSet(s) \ {Last(s)}
<1>1. Len(s) \in Nat \ {0} /\ DOMAIN s = 1 .. Len(s) /\ \A i \in DOMAIN s : s[i] \in S
  BY LenProperties, EmptySeq, ElementOfSeq
<1>2. /\ Front(s) \in Seq(S) /\ Len(Front(s)) = Len(s) - 1
      /\ \A i \in 1 .. Len(s) - 1 : Front(s)[i] = s[i]
  BY <1>1, SubSeqProperties DEF Front
<1>3. DOMAIN Front(s) = 1 .. Len(s) - 1
  BY <1>2, LenProperties
<1>4. Last(s) = s[Len(s)] /\ Len(s) \in DOMAIN s
  BY <1>1 DEF Last
<1>a. ASSUME NEW n \in Nat
      PROVE  /\ \A i \in 1 .. n - 1 : i \in 1 .. n /\ i # n
             /\ \A i \in 1 .. n : i # n => i \in 1 .. n - 1
  OBVIOUS
<1>5. /\ \A i \in 1 .. Len(s) - 1 : i \in 1 .. Len(s) /\ i # Len(s)
      /\ \A i \in 1 .. Len(s) : i # Len(s) => i \in 1 .. Len(s) - 1
  <2>1. Len(s) \in Nat
    BY <1>1
  <2>. QED BY <1>a, <2>1
<1>6. /\ \A i \in 1 .. Len(s) - 1 : i \in DOMAIN s /\ i # Len(s)
      /\ \A i \in DOMAIN s : i # Len(s) => i \in 1 .. Len(s) - 1
  BY <1>1, <1>5
<1>7. Once(Front(s))
  BY <1>2, <1>3, <1>6 DEF Once
<1>8. ToSet(Front(s)) \subseteq ToSet(s) \ {Last(s)}
  BY <1>2, <1>3, <1>4, <1>6 DEF Once, ToSet
<1>9. ToSet(s) \ {Last(s)} \subseteq ToSet(Front(s))
  BY <1>2, <1>3, <1>4, <1>6 DEF ToSet
<1>. QED BY <1>1, <1>2, <1>4, <1>7, <1>8, <1>9 DEF ToSet

LEMMA Extended ==
  ASSUME NEW S, NEW s \in Seq(S), NEW x \in S, x \notin ToSet(s), Once(s)
  PROVE  Append(s, x) \in Seq(S) /\ Once(Append(s, x)) /\ ToSet(Append(s, x)) = ToSet(s) \cup {x}
<1>1. /\ Append(s, x) \in Seq(S) /\ Len(s) \in Nat /\ DOMAIN s = 1 .. Len(s)
      /\ DOMAIN Append(s, x) = 1 .. Len(s) + 1 /\ Append(s, x)[Len(s) + 1] = x
      /\ \A i \in 1 .. Len(s) : Append(s, x)[i] = s[i]
  BY AppendProperties, LenProperties
<1>2. \A i \in 1 .. Len(s) + 1 : i \in 1 .. Len(s) \/ i = Len(s) + 1
  BY <1>1
<1>3. Len(s) + 1 \in 1 .. Len(s) + 1 /\ 1 .. Len(s) \subseteq 1 .. Len(s) + 1
  BY <1>1
<1>4. Once(Append(s, x))
  BY <1>1, <1>2, <1>3 DEF Once, ToSet
<1>5. ToSet(Append(s, x)) = ToSet(s) \cup {x}
  BY <1>1, <1>2, <1>3 DEF ToSet
<1>. QED BY <1>1, <1>4, <1>5

Roots == {n \in Nodes : Predecessors(n) = {}}

LEMMA SourcesAre ==
  Sources \in Seq(Nodes) /\ Once(Sources) /\ ToSet(Sources) = Roots /\ Len(Sources) = Cardinality(Roots)
<1>1. IsFiniteSet(Roots) /\ Cardinality(Roots) \in Nat
  BY ExecutorAssumption, FS_Subset, FS_CardinalityType DEF Roots
<1>2. PICK g \in Bijection(1 .. Cardinality(Roots), Roots) : TRUE
  <2>1. PICK n \in Nat : ExistsBijection(1 .. n, Roots)
    BY <1>1, FS_NatBijection
  <2>. QED BY <2>1, FS_CountingElements DEF ExistsBijection
<1>3. \E f \in [1 .. Cardinality(Roots) -> Roots] : IsInjective(f)
  BY <1>2 DEF Bijection, Injection, IsInjective
<1>4. Sources \in [1 .. Cardinality(Roots) -> Roots] /\ IsInjective(Sources)
  BY <1>3 DEF Sources, Roots, SetToSeq
<1>. HIDE DEF Sources
<1>5. Sources \in Seq(Roots) /\ Len(Sources) = Cardinality(Roots)
  BY <1>1, <1>4, IsASeq
<1>6. Sources \in Seq(Nodes)
  <2>1. Sources \in [1 .. Cardinality(Roots) -> Nodes]
    BY <1>4 DEF Roots
  <2>. QED BY <1>1, <2>1, IsASeq
<1>7. Once(Sources)
  BY <1>4 DEF IsInjective, Once
<1>8. ToSet(Sources) = Roots
  <2>1. DOMAIN Sources = 1 .. Cardinality(Roots)
    BY <1>4
  <2>2. Sources \in Injection(1 .. Cardinality(Roots), Roots)
    BY <1>4 DEF Injection, IsInjective
  <2>3. Cardinality(1 .. Cardinality(Roots)) = Cardinality(Roots)
    BY <1>1, FS_Interval
  <2>4. Sources \in Surjection(1 .. Cardinality(Roots), Roots)
    BY <1>1, <2>2, <2>3, FS_Injection
  <2>. QED BY <2>1, <2>4 DEF ToSet, Surjection
<1>. QED BY <1>5, <1>6, <1>7, <1>8

-----------------------------------------------------------------------------
(* The invariant.                                                           *)

Whereabouts ==
  {"submit", "unlock", "join", "destroyed", "explore", "retry", "checkShared", "checkDone",
   "scan", "leave", "exited", "invoke", "successors", "pop", "topology", "finished", "schedule"}

Types ==
  /\ queue \in [Queues -> Seq(Nodes)] /\ _join_counter \in [Nodes -> Int]
  /\ topologies \in Seq([repeat : Int, cancelled : BOOLEAN])
  /\ pc \in [Threads -> Whereabouts] /\ _vtm \in [Workers -> Queues]
  /\ node \in [Workers -> Nodes \cup {None}] /\ _cache \in [Workers -> Nodes \cup {None}]
  /\ todo \in [Workers -> Seq(Nodes)]
  /\ \A w \in Workers :
       /\ pc[w] \in {"invoke", "successors"} => node[w] \in Nodes
       /\ pc[w] \notin {"invoke", "successors"} => _cache[w] = None
  /\ submitted \in Nat /\ ran \subseteq Nodes

\* The tasks that a worker is to run or to schedule, and the one it has run
\* but not counted off.
Keeps(w) ==
  CASE pc[w] = "invoke" -> {node[w]}
    [] pc[w] = "successors" -> {_cache[w]} \ {None}
    [] pc[w] = "schedule" -> ToSet(todo[w])
    [] OTHER -> {}
Ends(w) == IF pc[w] = "successors" THEN {node[w]} ELSE {}

Queued == UNION {ToSet(queue[q]) : q \in Queues}
Pending == Queued \cup UNION {Keeps(w) : w \in Workers}
Ending == UNION {Ends(w) : w \in Workers}

\* No task is in two places.
PlacesApart ==
  /\ \A q \in Queues : Once(queue[q])
  /\ \A q, r \in Queues : q # r => ToSet(queue[q]) \cap ToSet(queue[r]) = {}
  /\ \A v, w \in Workers : v # w => Keeps(v) \cap Keeps(w) = {}
  /\ \A q \in Queues, w \in Workers : ToSet(queue[q]) \cap Keeps(w) = {}
Apart ==
  /\ PlacesApart
  /\ \A w \in Workers : Once(todo[w])
  /\ \A v, w \in Workers : v # w => Ends(v) \cap Ends(w) = {}

\* What a task waits for: predecessors that have not run, or not told it yet.
Tells(w, m, n) == pc[w] = "successors" /\ node[w] = m /\ n \in ToSet(todo[w])
Waiting(n) == {m \in Predecessors(n) : m \notin ran \/ \E w \in Workers : Tells(w, m, n)}

\* A task waits for nothing once it is to run; the counters say how many it
\* waits for, or, when it has run, how many it will wait for in the next round.
Rounds ==
  /\ Ending \subseteq ran /\ Pending \cap ran = {}
  /\ \A w \in Workers : pc[w] = "successors" => ToSet(todo[w]) \subseteq ToSet(Successors[node[w]])
  /\ \A n \in Pending \cup ran : Waiting(n) = {}
  /\ topologies # <<>> =>
       \A n \in Nodes : _join_counter[n] = IF n \in ran THEN num_dependents(n)
                                                        ELSE Cardinality(Waiting(n))
  /\ topologies # <<>> /\ ~Head(topologies).cancelled =>
       \A n \in Nodes : Waiting(n) = {} => n \in Pending \cup ran

\* The topology's counter is the number of tasks to run or to count off.
Counts ==
  /\ left = Cardinality(Pending \cup Ending)
  /\ topologies = <<>> => left = 0
  /\ \A w \in Workers : pc[w] = "topology" => left = 0 /\ topologies # <<>>
  /\ \A v, w \in Workers : pc[v] = "topology" /\ pc[w] = "topology" => v = w

IInv == Types /\ Apart /\ Rounds /\ Counts

-----------------------------------------------------------------------------
(* Types.                                                                   *)

LEMMA WorkersAre ==
  /\ Workers \subseteq Threads /\ Workers \subseteq Queues /\ Shared \in Queues /\ Owner \in Threads
  /\ Shared \notin Workers /\ Owner \notin Workers /\ 1 \in Workers
  /\ IsFiniteSet(Nodes) /\ None \notin Nodes
  /\ \A n \in Nodes : /\ Successors[n] \in Seq(Nodes) /\ Once(Successors[n])
                      /\ IsFiniteSet(Predecessors(n)) /\ Predecessors(n) \subseteq Nodes
                      /\ num_dependents(n) \in Nat
<1>1. ASSUME NEW n \in Nodes
      PROVE  /\ Successors[n] \in Seq(Nodes) /\ Once(Successors[n])
             /\ IsFiniteSet(Predecessors(n)) /\ Predecessors(n) \subseteq Nodes
             /\ num_dependents(n) \in Nat
  <2>1. Predecessors(n) \subseteq Nodes
    BY DEF Predecessors
  <2>2. IsFiniteSet(Predecessors(n)) /\ num_dependents(n) \in Nat
    BY <2>1, ExecutorAssumption, FS_Subset, FS_CardinalityType DEF num_dependents
  <2>. QED BY <2>1, <2>2, ExecutorAssumption DEF IsInjective, Once
<1>2. 1 \in Workers
  <2>1. Cardinality(Workers) \in Nat
    BY NotifierAssumption, FS_CardinalityType DEF Workers
  <2>. QED BY <2>1, ExecutorAssumption
<1>. QED BY <1>1, <1>2, ExecutorAssumption DEF Threads, Queues

LEMMA InitTypes == Init => Types
<1>. SUFFICES ASSUME Init PROVE Types
  OBVIOUS
<1>1. queue \in [Queues -> Seq(Nodes)] /\ todo \in [Workers -> Seq(Nodes)] /\ topologies = <<>>
  BY NothingInIt DEF Init
<1>2. topologies \in Seq([repeat : Int, cancelled : BOOLEAN])
  BY <1>1, NothingInIt
<1>3. _vtm \in [Workers -> Queues]
  BY WorkersAre DEF Init
<1>4. pc \in [Threads -> Whereabouts] /\ \A w \in Workers : pc[w] = "explore"
  <2>1. pc = [t \in Threads |-> IF t = Owner THEN "submit" ELSE "explore"]
    BY DEF Init
  <2>2. Workers \subseteq Threads /\ Owner \notin Workers
    BY WorkersAre
  <2>3. \A t \in Threads : (IF t = Owner THEN "submit" ELSE "explore") \in Whereabouts
    BY DEF Whereabouts
  <2>4. pc \in [Threads -> Whereabouts]
    BY <2>1, <2>3
  <2>5. \A w \in Workers : pc[w] = "explore"
    BY <2>1, <2>2
  <2>. QED BY <2>4, <2>5
<1>. QED BY <1>1, <1>2, <1>3, <1>4 DEF Init, Types

Quiet == {"explore", "retry", "checkShared", "checkDone", "scan", "leave", "exited", "pop", "finished", "schedule", "topology"}

\* Nothing changes of what worker w has to do but where it is.
LEMMA MovingTypes ==
  ASSUME Types, UNCHANGED <<queue, _join_counter, node, _cache, todo, ran>>,
         topologies' \in Seq([repeat : Int, cancelled : BOOLEAN]), submitted' \in Nat,
         _vtm' \in [Workers -> Queues],
         NEW t \in Threads, NEW place \in Whereabouts, pc' = [pc EXCEPT ![t] = place],
         t \in Workers => place = pc[t] \/ (pc[t] \in Quiet /\ place \in Quiet)
  PROVE  Types'
<1>1. pc' \in [Threads -> Whereabouts] /\ \A w \in Workers : w # t => pc'[w] = pc[w]
  BY WorkersAre DEF Types
<1>2. t \in Workers => pc'[t] = place
  BY DEF Types
<1>. QED BY <1>1, <1>2 DEF Types, Quiet

\* Neither does what the owner, or the notifier, does.
LEMMA OtherTypes ==
  ASSUME Types, UNCHANGED <<_join_counter, node, _cache, todo, ran, _vtm>>,
         queue' \in [Queues -> Seq(Nodes)],
         topologies' \in Seq([repeat : Int, cancelled : BOOLEAN]), submitted' \in Nat,
         pc' \in [Threads -> Whereabouts], \A w \in Workers : pc'[w] = pc[w]
  PROVE  Types'
BY DEF Types

LEMMA TopologiesAre ==
  ASSUME Types, topologies # <<>>
  PROVE  /\ Head(topologies) \in [repeat : Int, cancelled : BOOLEAN]
         /\ Tail(topologies) \in Seq([repeat : Int, cancelled : BOOLEAN])
         /\ Len(topologies) \in Nat \ {0} /\ Head(topologies) = topologies[1]
         /\ \A i \in 1 .. Len(topologies) : topologies[i] \in [repeat : Int, cancelled : BOOLEAN]
         /\ DOMAIN topologies = 1 .. Len(topologies)
<1>. DEFINE T == [repeat : Int, cancelled : BOOLEAN]
<1>1. topologies \in Seq(T)
  BY DEF Types
<1>. HIDE DEF T
<1>2. /\ Head(topologies) = topologies[1] /\ Head(topologies) \in T /\ Tail(topologies) \in Seq(T)
      /\ Len(topologies) \in Nat \ {0} /\ DOMAIN topologies = 1 .. Len(topologies)
  BY <1>1, HeadTailProperties, LenProperties, EmptySeq
<1>3. \A i \in 1 .. Len(topologies) : topologies[i] \in T
  BY <1>1, ElementOfSeq
<1>. QED BY <1>2, <1>3 DEF T

\* What Cancel and RunAgain assign.
LEMMA TopologiesStay ==
  ASSUME Types, topologies # <<>>, NEW i \in 1 .. Len(topologies),
         NEW x \in [repeat : Int, cancelled : BOOLEAN], topologies' = [topologies EXCEPT ![i] = x]
  PROVE  /\ topologies' \in Seq([repeat : Int, cancelled : BOOLEAN]) /\ topologies' # <<>>
         /\ Head(topologies') = IF i = 1 THEN x ELSE Head(topologies)
<1>1. topologies' \in Seq([repeat : Int, cancelled : BOOLEAN]) /\ Len(topologies') = Len(topologies)
  BY ExceptSeq DEF Types
<1>2. topologies' # <<>> /\ Head(topologies') = topologies'[1]
  BY <1>1, TopologiesAre, HeadTailProperties, EmptySeq
<1>. QED BY <1>1, <1>2, TopologiesAre

-----------------------------------------------------------------------------
(* The invariant, and how steps keep it.                                    *)

LEMMA Facts ==
  ASSUME IInv
  PROVE  /\ Pending \subseteq Nodes /\ Ending \subseteq Nodes /\ Pending \cap Ending = {}
         /\ IsFiniteSet(Pending \cup Ending) /\ left \in Nat
         /\ left = 0 <=> Pending \cup Ending = {}
         /\ \A w \in Workers : Keeps(w) \subseteq Pending /\ Ends(w) \subseteq Ending
         /\ \A q \in Queues : ToSet(queue[q]) \subseteq Pending
         /\ \A n \in Nodes : IsFiniteSet(Waiting(n)) /\ Waiting(n) \subseteq Predecessors(n)
<1>1. \A q \in Queues : ToSet(queue[q]) \subseteq Nodes
  BY DEF IInv, Types, ToSet
<1>2. \A w \in Workers : Keeps(w) \subseteq Nodes
  BY DEF IInv, Types, ToSet, Keeps
<1>3. \A w \in Workers : Ends(w) \subseteq Nodes
  BY DEF IInv, Types, Ends
<1>4. Pending \subseteq Nodes /\ Ending \subseteq Nodes
  BY <1>1, <1>2, <1>3 DEF Pending, Queued, Ending
<1>5. IsFiniteSet(Pending \cup Ending)
  BY <1>4, WorkersAre, FS_Subset
<1>6. left \in Nat /\ (left = 0 <=> Pending \cup Ending = {})
  BY <1>5, FS_CardinalityType, FS_EmptySet DEF IInv, Counts
<1>7. /\ \A w \in Workers : Keeps(w) \subseteq Pending /\ Ends(w) \subseteq Ending
      /\ \A q \in Queues : ToSet(queue[q]) \subseteq Pending
  BY DEF Pending, Queued, Ending
<1>8. Pending \cap Ending = {}
  BY DEF IInv, Rounds
<1>9. \A n \in Nodes : IsFiniteSet(Waiting(n)) /\ Waiting(n) \subseteq Predecessors(n)
  <2>1. \A n \in Nodes : Waiting(n) \subseteq Predecessors(n)
    BY DEF Waiting
  <2>. QED BY <2>1, WorkersAre, FS_Subset
<1>. QED BY <1>4, <1>5, <1>6, <1>7, <1>8, <1>9

\* What the others have to do stays as it is.
LEMMA OthersKeep ==
  ASSUME NEW v \in Workers,
         pc'[v] = pc[v], node'[v] = node[v], _cache'[v] = _cache[v], todo'[v] = todo[v]
  PROVE  Keeps(v)' = Keeps(v) /\ Ends(v)' = Ends(v) /\ \A m, n : Tells(v, m, n)' = Tells(v, m, n)
BY DEF Keeps, Ends, Tells

LEMMA InPending ==
  \A x : x \in Pending <=> \/ \E q \in Queues : x \in ToSet(queue[q])
                         \/ \E w \in Workers : x \in Keeps(w)
BY DEF Pending, Queued

LEMMA InPendingNext ==
  (\A x : x \in Pending <=> \/ \E q \in Queues : x \in ToSet(queue[q])
                          \/ \E w \in Workers : x \in Keeps(w))'
BY InPending, PTL

\* Whatever worker w and queue q share out anew, no one else has.
LEMMA Sharing ==
  ASSUME Apart, NEW w \in Workers, NEW q \in Queues,
         \A v \in Workers : v # w => Keeps(v)' = Keeps(v),
         \A r \in Queues : r # q => queue'[r] = queue[r],
         Once(queue'[q]), ToSet(queue'[q]) \cap Keeps(w)' = {},
         (ToSet(queue'[q]) \cup Keeps(w)') \cap (Pending \ (ToSet(queue[q]) \cup Keeps(w))) = {}
  PROVE  /\ Pending' = (Pending \ (ToSet(queue[q]) \cup Keeps(w))) \cup ToSet(queue'[q]) \cup Keeps(w)'
         /\ PlacesApart'
<1>. DEFINE Q(r) == ToSet(queue[r])
            QQ(r) == ToSet(queue'[r])
            K(v) == Keeps(v)
            KK(v) == Keeps(v)'
<1>1. /\ \A r, s \in Queues : r # s => Q(r) \cap Q(s) = {}
      /\ \A u, v \in Workers : u # v => K(u) \cap K(v) = {}
      /\ \A r \in Queues, v \in Workers : Q(r) \cap K(v) = {}
  BY DEF Apart, PlacesApart
<1>2. /\ \A r \in Queues : r # q => QQ(r) = Q(r)
      /\ \A v \in Workers : v # w => KK(v) = K(v)
  OBVIOUS
<1>3. \A x : x \in Pending <=> (\E r \in Queues : x \in Q(r)) \/ \E v \in Workers : x \in K(v)
  BY InPending
<1>4. \A x : x \in Pending' <=> (\E r \in Queues : x \in QQ(r)) \/ \E v \in Workers : x \in KK(v)
  BY InPendingNext
<1>5. QQ(q) \cap KK(w) = {} /\ (QQ(q) \cup KK(w)) \cap (Pending \ (Q(q) \cup K(w))) = {}
  OBVIOUS
<1>6. \A r \in Queues : Once(queue'[r])
  BY DEF Apart, PlacesApart
<1>. HIDE DEF Q, QQ, K, KK
<1>7. \A r \in Queues : r # q => Q(r) \subseteq Pending \ (Q(q) \cup K(w))
  BY <1>1, <1>3
<1>8. \A v \in Workers : v # w => K(v) \subseteq Pending \ (Q(q) \cup K(w))
  BY <1>1, <1>3
<1>9. Pending' = (Pending \ (Q(q) \cup K(w))) \cup QQ(q) \cup KK(w)
  <2>1. Pending' \subseteq (Pending \ (Q(q) \cup K(w))) \cup QQ(q) \cup KK(w)
    BY <1>2, <1>4, <1>7, <1>8
  <2>2. (Pending \ (Q(q) \cup K(w))) \subseteq Pending'
    BY <1>2, <1>3, <1>4
  <2>3. QQ(q) \cup KK(w) \subseteq Pending'
    BY <1>4
  <2>. QED BY <2>1, <2>2, <2>3
<1>10. \A r, s \in Queues : r # s => QQ(r) \cap QQ(s) = {}
  BY <1>1, <1>2, <1>5, <1>7
<1>11. \A u, v \in Workers : u # v => KK(u) \cap KK(v) = {}
  BY <1>1, <1>2, <1>5, <1>8
<1>12. \A r \in Queues, v \in Workers : QQ(r) \cap KK(v) = {}
  BY <1>1, <1>2, <1>5, <1>7, <1>8
<1>. QED BY <1>6, <1>9, <1>10, <1>11, <1>12 DEF Q, QQ, K, KK, PlacesApart

TopologyStays ==
  /\ topologies' # <<>> => topologies # <<>> /\ (Head(topologies).cancelled => Head(topologies').cancelled)
  /\ topologies' = <<>> => left' = 0
  /\ \A w \in Workers : pc'[w] = "topology" => pc[w] = "topology" /\ topologies' # <<>>

\* Tasks change places, at most.
LEMMA SamePlaces ==
  ASSUME IInv, Types', Apart', Pending' = Pending, UNCHANGED <<_join_counter, left, ran>>, TopologyStays,
         \A w \in Workers : pc'[w] = "successors" <=> pc[w] = "successors",
         \A w \in Workers : pc[w] = "successors" => node'[w] = node[w] /\ todo'[w] = todo[w]
  PROVE  IInv'
<1>1. \A w \in Workers : Ends(w)' = Ends(w) /\ \A m, n : Tells(w, m, n)' <=> Tells(w, m, n)
  BY DEF Ends, Tells
<1>2. Ending' = Ending
  BY <1>1 DEF Ending
<1>3. \A n \in Nodes : Waiting(n)' = Waiting(n)
  BY <1>1 DEF Waiting
<1>4. Pending \subseteq Nodes /\ ran \subseteq Nodes
  BY Facts DEF IInv, Types
<1>5. Rounds'
  <2>1. Ending' \subseteq ran' /\ Pending' \cap ran' = {}
    BY <1>2 DEF IInv, Rounds
  <2>2. \A w \in Workers : pc'[w] = "successors" => ToSet(todo'[w]) \subseteq ToSet(Successors[node'[w]])
    BY DEF IInv, Rounds
  <2>3. \A n \in Pending' \cup ran' : Waiting(n)' = {}
    BY <1>3, <1>4 DEF IInv, Rounds
  <2>4. topologies' # <<>> =>
          \A n \in Nodes : _join_counter'[n] = IF n \in ran' THEN num_dependents(n)
                                                             ELSE Cardinality(Waiting(n)')
    BY <1>3 DEF IInv, Rounds, TopologyStays
  <2>5. topologies' # <<>> /\ ~Head(topologies').cancelled =>
          \A n \in Nodes : Waiting(n)' = {} => n \in Pending' \cup ran'
    BY <1>3 DEF IInv, Rounds, TopologyStays
  <2>. QED BY <2>1, <2>2, <2>3, <2>4, <2>5 DEF Rounds
<1>6. Counts'
  BY <1>2 DEF IInv, Counts, TopologyStays
<1>. QED BY <1>5, <1>6 DEF IInv

\* When the counter is zero and nothing was cancelled, every task has run: of
\* those that had not, one would depend on none of the others.
LEMMA AllRan ==
  ASSUME IInv, left = 0, topologies # <<>>, ~Head(topologies).cancelled
  PROVE  ran = Nodes
<1>1. Pending = {} /\ Ending = {}
  BY Facts
<1>2. \A w \in Workers : pc[w] # "successors"
  BY <1>1, Facts DEF Ends
<1>3. SUFFICES ASSUME Nodes \ ran # {} PROVE FALSE
  BY DEF IInv, Types
<1>4. PICK n \in Nodes \ ran : Predecessors(n) \cap (Nodes \ ran) = {}
  BY <1>3, AcyclicAssumption
<1>5. Waiting(n) = {}
  BY <1>2, <1>4, WorkersAre DEF Waiting, Tells
<1>. QED BY <1>1, <1>4, <1>5 DEF IInv, Rounds

\* A round begins with the tasks that depend on none.
LEMMA RoundBegins ==
  ASSUME IInv, left = 0, Types', Apart', Pending' = Roots, ran' = {}, left' = Len(Sources),
         topologies' # <<>>, \A n \in Nodes : _join_counter'[n] = num_dependents(n),
         \A w \in Workers : pc'[w] # "topology" /\ (pc'[w] = "successors" => pc[w] = "successors")
  PROVE  IInv'
<1>1. Pending = {} /\ Ending = {}
  BY Facts
<1>2. \A w \in Workers : pc'[w] # "successors"
  BY <1>1, Facts DEF Ends
<1>3. Ending' = {}
  BY <1>2 DEF Ending, Ends
<1>4. \A n \in Nodes : Waiting(n)' = Predecessors(n)
  BY <1>2 DEF Waiting, Tells
<1>5. Rounds'
  <2>1. \A n \in Roots : n \in Nodes /\ Predecessors(n) = {}
    BY DEF Roots
  <2>2. \A n \in Nodes : Predecessors(n) = {} => n \in Roots
    BY DEF Roots
  <2>. QED BY <1>2, <1>3, <1>4, <2>1, <2>2 DEF Rounds, num_dependents
<1>6. Counts'
  <2>1. left' = Cardinality(Pending' \cup Ending')
    BY <1>3, SourcesAre
  <2>. QED BY <2>1 DEF Counts
<1>. QED BY <1>5, <1>6 DEF IInv

-----------------------------------------------------------------------------
(* The steps, one kind after the other.                                     *)

\* Threads that look for work, wait, or end, and the owner.
LEMMA QuietKeeps ==
  ASSUME IInv, Types', UNCHANGED <<queue, _join_counter, left, ran, node, _cache, todo>>, TopologyStays,
         \A w \in Workers : \/ pc'[w] = pc[w]
                            \/ /\ pc'[w] \notin {"invoke", "successors", "schedule"}
                               /\ \/ pc[w] \notin {"invoke", "successors", "schedule"}
                                  \/ pc[w] = "schedule" /\ todo[w] = <<>>
  PROVE  IInv'
<1>1. \A w \in Workers : Keeps(w)' = Keeps(w) /\ Ends(w)' = Ends(w)
  BY NothingInIt DEF Keeps, Ends
<1>2. Pending' = Pending
  BY <1>1 DEF Pending, Queued
<1>3. Apart'
  BY <1>1 DEF IInv, Apart, PlacesApart
<1>. QED BY <1>2, <1>3, SamePlaces

\* A worker takes a task out of a queue.
LEMMA TakeKeeps ==
  ASSUME IInv, NEW w \in Workers, NEW q \in Queues, NEW n \in ToSet(queue[q]),
         NEW rest \in Seq(Nodes), Once(rest), ToSet(rest) = ToSet(queue[q]) \ {n},
         pc[w] \in {"explore", "retry", "pop"}, queue' = [queue EXCEPT ![q] = rest],
         pc' = [pc EXCEPT ![w] = "invoke"], node' = [node EXCEPT ![w] = n],
         _vtm' \in [Workers -> Queues],
         UNCHANGED <<_join_counter, left, ran, topologies, _cache, todo, submitted>>
  PROVE  IInv'
<1>0. Types /\ Apart /\ w \in Threads
  BY WorkersAre DEF IInv
<1>1. n \in Nodes /\ n \in Pending
  BY Facts
<1>2. /\ pc' \in [Threads -> Whereabouts] /\ pc'[w] = "invoke" /\ node'[w] = n
      /\ queue' \in [Queues -> Seq(Nodes)] /\ queue'[q] = rest
      /\ \A v \in Workers : v # w => pc'[v] = pc[v] /\ node'[v] = node[v]
      /\ \A r \in Queues : r # q => queue'[r] = queue[r]
  BY <1>0, WorkersAre DEF Types, Whereabouts
<1>3. Types'
  BY <1>0, <1>1, <1>2 DEF Types
<1>4. Keeps(w) = {} /\ Keeps(w)' = {n} /\ Ends(w)' = Ends(w)
  BY <1>2 DEF Keeps, Ends
<1>5. \A v \in Workers : v # w => Keeps(v)' = Keeps(v) /\ Ends(v)' = Ends(v)
  BY <1>2, OthersKeep
<1>6. /\ Pending' = (Pending \ (ToSet(queue[q]) \cup Keeps(w))) \cup ToSet(queue'[q]) \cup Keeps(w)'
      /\ PlacesApart'
  <2>1. /\ Once(queue'[q]) /\ ToSet(queue'[q]) \cap Keeps(w)' = {}
        /\ (ToSet(queue'[q]) \cup Keeps(w)') \cap (Pending \ (ToSet(queue[q]) \cup Keeps(w))) = {}
    BY <1>2, <1>4
  <2>. QED BY <1>0, <1>2, <1>5, <2>1, Sharing
<1>7. Pending' = Pending
  <2>1. ToSet(queue'[q]) \cup Keeps(w)' = ToSet(queue[q]) \cup Keeps(w)
    BY <1>2, <1>4
  <2>. QED BY <1>6, <2>1, Facts
<1>8. Apart'
  <2>1. \A v \in Workers : Ends(v)' = Ends(v)
    BY <1>4, <1>5
  <2>. QED BY <1>0, <1>6, <2>1 DEF Apart
<1>9. TopologyStays
  BY <1>2 DEF TopologyStays, IInv, Counts
<1>. QED BY <1>2, <1>3, <1>7, <1>8, <1>9, SamePlaces

\* A worker has dealt with task n.
LEMMA CountedOff ==
  ASSUME IInv, Types', Apart', UNCHANGED <<_join_counter, ran, topologies>>, left' = left - 1,
         NEW w \in Workers, NEW n \in Pending \cup Ending,
         Pending' \subseteq Pending, Ending' \subseteq Ending,
         Pending' \cup Ending' = (Pending \cup Ending) \ {n},
         Pending' = Pending \/ Head(topologies).cancelled,
         \A m \in Nodes : Waiting(m)' = Waiting(m),
         \A v \in Workers : pc'[v] = "successors" => ToSet(todo'[v]) \subseteq ToSet(Successors[node'[v]]),
         \A v \in Workers : v # w => pc'[v] = pc[v],
         pc'[w] = "topology" => left = 1
  PROVE  IInv'
<1>1. left # 0 /\ left \in Nat /\ topologies # <<>>
  BY Facts DEF IInv, Counts
<1>2. left' = Cardinality(Pending' \cup Ending')
  <2>1. IsFiniteSet(Pending \cup Ending) /\ left = Cardinality(Pending \cup Ending)
    BY Facts DEF IInv, Counts
  <2>2. n \in Pending \cup Ending
    OBVIOUS
  <2>3. Cardinality((Pending \cup Ending) \ {n}) = Cardinality(Pending \cup Ending) - 1
    BY <2>1, <2>2, FS_RemoveElement
  <2>. QED BY <2>1, <2>3
<1>3. Counts'
  <2>1. \A v \in Workers : pc[v] # "topology"
    BY <1>1 DEF IInv, Counts
  <2>2. \A v \in Workers : pc'[v] = "topology" => v = w /\ left' = 0
    BY <1>1, <2>1
  <2>. QED BY <1>1, <1>2, <2>2 DEF Counts
<1>4. Rounds'
  <2>1. Pending \subseteq Nodes /\ ran \subseteq Nodes
    BY Facts DEF IInv, Types
  <2>. QED BY <2>1 DEF IInv, Rounds
<1>. QED BY <1>3, <1>4 DEF IInv

LEMMA SkipKeeps == ASSUME IInv, NEW w \in Workers, SkipCancelled(w) PROVE IInv'
<1>. DEFINE n == node[w]
            place == IF left = 1 THEN "topology" ELSE "pop"
<1>0. Types /\ Apart /\ w \in Threads /\ Shared \in Queues /\ IInv
  BY WorkersAre DEF IInv
<1>1. /\ pc[w] = "invoke" /\ Head(topologies).cancelled /\ left' = left - 1
      /\ _cache' = [_cache EXCEPT ![w] = None] /\ node' = [node EXCEPT ![w] = None]
      /\ pc' = [pc EXCEPT ![w] = place]
      /\ UNCHANGED <<queue, _join_counter, ran, topologies, todo, _vtm, submitted>>
  BY DEF SkipCancelled, At, Goto, topologyVars
<1>2. place \in {"topology", "pop"} /\ place \in Whereabouts /\ (place = "topology" => left = 1)
  BY DEF Whereabouts
<1>. HIDE DEF place
<1>3. /\ pc' \in [Threads -> Whereabouts] /\ pc'[w] = place /\ _cache'[w] = None
      /\ \A v \in Workers : v # w => /\ pc'[v] = pc[v] /\ node'[v] = node[v]
                                     /\ _cache'[v] = _cache[v] /\ todo'[v] = todo[v]
  BY <1>0, <1>1, <1>2 DEF Types
<1>4. Types'
  BY <1>0, <1>1, <1>2, <1>3 DEF Types
<1>5. Keeps(w) = {n} /\ Keeps(w)' = {} /\ Ends(w)' = {} /\ Ends(w) = {}
  BY <1>1, <1>2, <1>3 DEF Keeps, Ends
<1>6. \A v \in Workers : v # w => Keeps(v)' = Keeps(v) /\ Ends(v)' = Ends(v)
  BY <1>3, OthersKeep
<1>. HIDE DEF n
<1>7. /\ Pending' = (Pending \ (ToSet(queue[Shared]) \cup Keeps(w))) \cup ToSet(queue'[Shared]) \cup Keeps(w)'
      /\ PlacesApart'
  <2>1. /\ Once(queue'[Shared]) /\ ToSet(queue'[Shared]) \cap Keeps(w)' = {}
        /\ (ToSet(queue'[Shared]) \cup Keeps(w)') \cap (Pending \ (ToSet(queue[Shared]) \cup Keeps(w))) = {}
    BY <1>0, <1>1, <1>5 DEF Apart, PlacesApart
  <2>. QED BY <1>0, <1>1, <1>6, <2>1, Sharing
<1>8. Pending' = Pending \ {n} /\ Ending' = Ending /\ n \in Pending /\ n \notin Ending
  <2>1. n \in Pending /\ n \notin Ending /\ ToSet(queue[Shared]) \subseteq Pending
    BY <1>0, <1>5, Facts
  <2>2. n \notin ToSet(queue[Shared])
    BY <1>0, <1>5 DEF Apart, PlacesApart
  <2>3. Ending' = Ending
    BY <1>5, <1>6 DEF Ending
  <2>. QED BY <1>1, <1>5, <1>7, <2>1, <2>2, <2>3
<1>9. Apart'
  BY <1>0, <1>1, <1>5, <1>6, <1>7 DEF Apart
<1>10. \A m \in Nodes : Waiting(m)' = Waiting(m)
  <2>1. \A v \in Workers : \A m, k : Tells(v, m, k)' <=> Tells(v, m, k)
    BY <1>1, <1>2, <1>3 DEF Tells
  <2>. QED BY <1>1, <2>1 DEF Waiting
<1>11. \A v \in Workers : pc'[v] = "successors" => ToSet(todo'[v]) \subseteq ToSet(Successors[node'[v]])
  BY <1>2, <1>3 DEF IInv, Rounds
<1>. QED BY <1>0, <1>1, <1>2, <1>3, <1>4, <1>8, <1>9, <1>10, <1>11, CountedOff

LEMMA InvokeKeeps == ASSUME IInv, NEW w \in Workers, Invoke(w) PROVE IInv'
<1>. DEFINE n == node[w]
<1>0. Types /\ Apart /\ w \in Threads /\ Shared \in Queues /\ IInv /\ n \in Nodes
  BY WorkersAre DEF IInv, Types, Invoke, At
<1>1. /\ pc[w] = "invoke" /\ ran' = ran \cup {n}
      /\ _join_counter' = [_join_counter EXCEPT ![n] = @ + num_dependents(n)]
      /\ todo' = [todo EXCEPT ![w] = Successors[n]]
      /\ _cache' = [_cache EXCEPT ![w] = None] /\ pc' = [pc EXCEPT ![w] = "successors"]
      /\ UNCHANGED <<queue, left, topologies, node, _vtm, submitted>>
  BY DEF Invoke, At, Goto, topologyVars
<1>2. /\ Successors[n] \in Seq(Nodes) /\ Once(Successors[n]) /\ num_dependents(n) \in Nat
  BY <1>0, WorkersAre
<1>3. /\ pc' \in [Threads -> Whereabouts] /\ pc'[w] = "successors" /\ _cache'[w] = None
      /\ todo'[w] = Successors[n] /\ node'[w] = n /\ todo' \in [Workers -> Seq(Nodes)]
      /\ \A v \in Workers : v # w => /\ pc'[v] = pc[v] /\ node'[v] = node[v]
                                     /\ _cache'[v] = _cache[v] /\ todo'[v] = todo[v]
  BY <1>0, <1>1, <1>2 DEF Types, Whereabouts
<1>4. Types'
  BY <1>0, <1>1, <1>2, <1>3 DEF Types
<1>5. Keeps(w) = {n} /\ Keeps(w)' = {} /\ Ends(w)' = {n} /\ Ends(w) = {}
  BY <1>1, <1>3 DEF Keeps, Ends
<1>6. \A v \in Workers : v # w => Keeps(v)' = Keeps(v) /\ Ends(v)' = Ends(v)
  BY <1>3, OthersKeep
<1>. HIDE DEF n
<1>7. /\ Pending' = (Pending \ (ToSet(queue[Shared]) \cup Keeps(w))) \cup ToSet(queue'[Shared]) \cup Keeps(w)'
      /\ PlacesApart'
  <2>1. /\ Once(queue'[Shared]) /\ ToSet(queue'[Shared]) \cap Keeps(w)' = {}
        /\ (ToSet(queue'[Shared]) \cup Keeps(w)') \cap (Pending \ (ToSet(queue[Shared]) \cup Keeps(w))) = {}
    BY <1>0, <1>1, <1>5 DEF Apart, PlacesApart
  <2>. QED BY <1>0, <1>1, <1>6, <2>1, Sharing
<1>8. Pending' = Pending \ {n} /\ Ending' = Ending \cup {n} /\ n \in Pending /\ n \notin ran
  <2>1. n \in Pending /\ ToSet(queue[Shared]) \subseteq Pending
    BY <1>0, <1>5, Facts
  <2>2. n \notin ToSet(queue[Shared])
    BY <1>0, <1>5 DEF Apart, PlacesApart
  <2>3. Ending' = Ending \cup {n}
    BY <1>5, <1>6 DEF Ending
  <2>. QED BY <1>1, <1>5, <1>7, <2>1, <2>2, <2>3 DEF IInv, Rounds
<1>9. Apart'
  <2>1. \A v \in Workers : Once(todo'[v])
    BY <1>0, <1>2, <1>3 DEF Apart
  <2>2. \A v \in Workers : n \notin Ends(v)
    BY <1>8, Facts DEF IInv, Rounds
  <2>. QED BY <1>0, <1>5, <1>6, <1>7, <2>1, <2>2 DEF Apart
<1>10. \A m \in Nodes : Waiting(m)' = Waiting(m)
  <2>. SUFFICES ASSUME NEW m \in Nodes, NEW k \in Predecessors(m)
                PROVE  (k \notin ran' \/ \E v \in Workers : Tells(v, k, m)')
                         <=> (k \notin ran \/ \E v \in Workers : Tells(v, k, m))
    BY DEF Waiting
  <2>1. \A v \in Workers : v # w => (Tells(v, k, m)' <=> Tells(v, k, m))
    BY <1>3 DEF Tells
  <2>2. ~Tells(w, k, m) /\ (Tells(w, k, m)' => k = n)
    BY <1>1, <1>3 DEF Tells
  <2>3. k = n => Tells(w, k, m)'
    BY <1>3 DEF Tells, Predecessors
  <2>. QED BY <1>1, <1>8, <2>1, <2>2, <2>3
<1>11. Rounds'
  <2>1. Ending' \subseteq ran' /\ Pending' \cap ran' = {}
    BY <1>1, <1>8 DEF IInv, Rounds
  <2>2. \A v \in Workers : pc'[v] = "successors" => ToSet(todo'[v]) \subseteq ToSet(Successors[node'[v]])
    BY <1>3 DEF IInv, Rounds
  <2>3. Pending' \cup ran' = Pending \cup ran /\ Pending \cup ran \subseteq Nodes
    BY <1>0, <1>1, <1>8, Facts DEF Types
  <2>4. \A m \in Pending' \cup ran' : Waiting(m)' = {}
    BY <1>10, <2>3 DEF IInv, Rounds
  <2>5. ASSUME topologies' # <<>>, NEW m \in Nodes
        PROVE  _join_counter'[m] = IF m \in ran' THEN num_dependents(m) ELSE Cardinality(Waiting(m)')
    <3>1. _join_counter[m] = IF m \in ran THEN num_dependents(m) ELSE Cardinality(Waiting(m))
      BY <1>1, <2>5 DEF IInv, Rounds
    <3>2. CASE m = n
      <4>1. Waiting(n) = {} /\ Cardinality(Waiting(n)) = 0
        BY <1>8, FS_EmptySet DEF IInv, Rounds
      <4>. QED BY <1>0, <1>1, <1>2, <1>8, <3>1, <3>2, <4>1 DEF Types
    <3>3. CASE m # n
      BY <1>0, <1>1, <1>10, <3>1, <3>3 DEF Types
    <3>. QED BY <3>2, <3>3
  <2>6. topologies' # <<>> /\ ~Head(topologies').cancelled =>
          \A m \in Nodes : Waiting(m)' = {} => m \in Pending' \cup ran'
    BY <1>1, <1>10, <2>3 DEF IInv, Rounds
  <2>. QED BY <2>1, <2>2, <2>4, <2>5, <2>6 DEF Rounds
<1>12. Counts'
  <2>1. Pending' \cup Ending' = Pending \cup Ending
    BY <1>8
  <2>2. \A v \in Workers : pc'[v] = "topology" => pc[v] = "topology"
    BY <1>3
  <2>. QED BY <1>1, <2>1, <2>2 DEF IInv, Counts
<1>. QED BY <1>4, <1>9, <1>11, <1>12 DEF IInv

LEMMA SuccessorKeeps == ASSUME IInv, NEW w \in Workers, Successor(w) PROVE IInv'
<1>a. PICK n : n = node[w]
  OBVIOUS
<1>b. PICK s : s = Head(todo[w])
  OBVIOUS
<1>c. PICK x : x = _cache[w]
  OBVIOUS
<1>0. /\ Types /\ Apart /\ w \in Threads /\ w \in Queues /\ IInv /\ n \in Nodes
      /\ todo[w] \in Seq(Nodes) /\ Once(todo[w]) /\ todo[w] # <<>> /\ x \in Nodes \cup {None}
  BY <1>a, <1>c, WorkersAre DEF IInv, Types, Apart, Successor, At
<1>1. /\ pc[w] = "successors" /\ todo' = [todo EXCEPT ![w] = Tail(@)]
      /\ _join_counter' = [_join_counter EXCEPT ![s] = @ - 1]
      /\ \/ _join_counter[s] # 1 /\ UNCHANGED <<left, _cache, queue>>
         \/ /\ _join_counter[s] = 1 /\ left' = left + 1 /\ _cache' = [_cache EXCEPT ![w] = s]
            /\ queue' = IF x = None THEN queue ELSE [queue EXCEPT ![w] = Append(@, x)]
      /\ UNCHANGED <<ran, topologies, pc, node, _vtm, submitted>>
  BY <1>b, <1>c DEF Successor, At, Push, topologyVars
<1>2. /\ s \in Nodes /\ s \in ToSet(todo[w]) /\ Tail(todo[w]) \in Seq(Nodes) /\ Once(Tail(todo[w]))
      /\ ToSet(Tail(todo[w])) = ToSet(todo[w]) \ {s}
  BY <1>0, <1>b, Beheaded
<1>3. /\ todo'[w] = Tail(todo[w]) /\ todo' \in [Workers -> Seq(Nodes)]
      /\ \A v \in Workers : v # w => todo'[v] = todo[v]
  BY <1>0, <1>1, <1>2 DEF Types
<1>4. /\ Ends(w) = {n} /\ n \in Ending /\ n \in ran /\ topologies # <<>>
      /\ \A v \in Workers : Ends(v)' = Ends(v)
  <2>1. Ends(w) = {n} /\ \A v \in Workers : Ends(v)' = Ends(v)
    BY <1>1, <1>a DEF Ends
  <2>2. n \in Ending
    BY <1>0, <2>1, Facts
  <2>. QED BY <1>0, <2>1, <2>2, Facts DEF IInv, Rounds, Counts
<1>5. Ending' = Ending
  BY <1>4 DEF Ending
<1>6. n \in Waiting(s) /\ s \notin Pending \cup ran
  <2>1. n \in Predecessors(s)
    BY <1>0, <1>1, <1>2, <1>a DEF IInv, Rounds, Predecessors
  <2>2. n \in Waiting(s)
    BY <1>1, <1>2, <1>a, <2>1 DEF Waiting, Tells
  <2>. QED BY <2>2 DEF IInv, Rounds
<1>7. /\ \A m \in Nodes : m # s => Waiting(m)' = Waiting(m)
      /\ Waiting(s)' = Waiting(s) \ {n}
  <2>1. \A v \in Workers : \A k, m : v # w => (Tells(v, k, m)' <=> Tells(v, k, m))
    BY <1>1, <1>3 DEF Tells
  <2>2. \A k, m : m # s => (Tells(w, k, m)' <=> Tells(w, k, m))
    BY <1>1, <1>2, <1>3 DEF Tells
  <2>3. \A k : ~Tells(w, k, s)' /\ (Tells(w, k, s) => k = n)
    <3>1. s \notin ToSet(todo'[w])
      BY <1>2, <1>3
    <3>2. \A k : ~(pc'[w] = "successors" /\ node'[w] = k /\ s \in ToSet(todo'[w]))
      BY <3>1
    <3>. QED BY <1>a, <3>2 DEF Tells
  <2>4. \A v \in Workers : v # w => ~Tells(v, n, s)
    <3>1. \A v \in Workers : v # w => n \notin Ends(v)
      BY <1>0, <1>4 DEF Apart
    <3>. QED BY <3>1 DEF Ends, Tells
  <2>5. \A m \in Nodes : m # s => Waiting(m)' = Waiting(m)
    <3>1. \A m \in Nodes : \A k : m # s =>
            ((\E v \in Workers : Tells(v, k, m)') <=> \E v \in Workers : Tells(v, k, m))
      BY <2>1, <2>2
    <3>. QED BY <1>1, <3>1 DEF Waiting
  <2>6. \A k : (\E v \in Workers : Tells(v, k, s)') <=> k # n /\ \E v \in Workers : Tells(v, k, s)
    <3>. SUFFICES ASSUME NEW k
                  PROVE  (\E v \in Workers : Tells(v, k, s)') <=> k # n /\ \E v \in Workers : Tells(v, k, s)
      OBVIOUS
    <3>1. CASE k = n
      BY <2>1, <2>3, <2>4, <3>1
    <3>2. CASE k # n
      BY <2>1, <2>3, <3>2
    <3>. QED BY <3>1, <3>2
  <2>7. Waiting(s)' = Waiting(s) \ {n}
    <3>1. Waiting(s)' = {k \in Predecessors(s) : k \notin ran \/ \E v \in Workers : Tells(v, k, s)'}
      BY <1>1 DEF Waiting
    <3>2. \A k : (k \notin ran \/ \E v \in Workers : Tells(v, k, s)')
               <=> k # n /\ (k \notin ran \/ \E v \in Workers : Tells(v, k, s))
      BY <1>4, <2>6
    <3>. QED BY <3>1, <3>2 DEF Waiting
  <2>. QED BY <2>5, <2>7
<1>8. /\ _join_counter[s] = Cardinality(Waiting(s)) /\ _join_counter'[s] = Cardinality(Waiting(s)')
      /\ (_join_counter[s] = 1) <=> (Waiting(s)' = {})
  <2>1. _join_counter[s] = Cardinality(Waiting(s))
    BY <1>2, <1>4, <1>6 DEF IInv, Rounds
  <2>2. IsFiniteSet(Waiting(s))
    BY <1>2, Facts
  <2>3. /\ IsFiniteSet(Waiting(s) \ {n}) /\ Cardinality(Waiting(s)) \in Nat
        /\ Cardinality(Waiting(s) \ {n}) = Cardinality(Waiting(s)) - 1
    BY <1>6, <2>2, FS_RemoveElement, FS_CardinalityType
  <2>4. _join_counter'[s] = _join_counter[s] - 1
    BY <1>0, <1>1, <1>2 DEF Types
  <2>5. Cardinality(Waiting(s) \ {n}) = 0 <=> Waiting(s) \ {n} = {}
    BY <2>3, FS_EmptySet
  <2>. QED BY <1>7, <2>1, <2>3, <2>4, <2>5
<1>9. Types' /\ PlacesApart' /\ Pending' = (IF _join_counter[s] = 1 THEN Pending \cup {s} ELSE Pending)
  <2>1. \A v \in Workers : v # w => Keeps(v)' = Keeps(v)
    BY <1>1, <1>3 DEF Keeps
  <2>2. _join_counter' \in [Nodes -> Int]
    BY <1>0, <1>1, <1>2 DEF Types
  <2>3. CASE _join_counter[s] # 1
    <3>1. Keeps(w)' = Keeps(w)
      BY <1>1, <2>3 DEF Keeps
    <3>2. Pending' = Pending /\ PlacesApart'
      <4>1. queue' = queue /\ \A v \in Workers : Keeps(v)' = Keeps(v)
        BY <1>1, <2>1, <2>3, <3>1
      <4>2. Pending' = Pending
        BY <4>1 DEF Pending, Queued
      <4>. QED BY <1>0, <4>1, <4>2 DEF Apart, PlacesApart
    <3>3. Types'
      BY <1>0, <1>1, <1>3, <2>2, <2>3 DEF Types
    <3>. QED BY <2>3, <3>2, <3>3
  <2>4. CASE _join_counter[s] = 1
    <3>1. _cache'[w] = s /\ _cache' \in [Workers -> Nodes \cup {None}] /\ \A v \in Workers : v # w => _cache'[v] = _cache[v]
      BY <1>0, <1>1, <1>2, <2>4 DEF Types
    <3>2. Keeps(w)' = {s} /\ Keeps(w) = {x} \ {None} /\ s # x /\ x \notin ToSet(queue[w])
          /\ s \notin ToSet(queue[w])
      <4>1. Keeps(w)' = {s} /\ Keeps(w) = {x} \ {None}
        BY <1>1, <1>2, <1>c, <3>1, WorkersAre DEF Keeps
      <4>2. s \notin Keeps(w) /\ s \notin ToSet(queue[w])
        BY <1>0, <1>6, Facts
      <4>3. Keeps(w) \cap ToSet(queue[w]) = {}
        BY <1>0 DEF Apart, PlacesApart
      <4>4. None \notin ToSet(queue[w])
        BY <1>0, WorkersAre, Facts
      <4>. QED BY <4>1, <4>2, <4>3, <4>4, <1>2, WorkersAre
    <3>3. /\ queue'[w] \in Seq(Nodes) /\ Once(queue'[w]) /\ queue' \in [Queues -> Seq(Nodes)]
          /\ ToSet(queue'[w]) = ToSet(queue[w]) \cup Keeps(w)
          /\ \A r \in Queues : r # w => queue'[r] = queue[r]
      <4>1. queue[w] \in Seq(Nodes) /\ Once(queue[w])
        BY <1>0 DEF Types, Apart, PlacesApart
      <4>2. CASE x = None
        BY <1>0, <1>1, <2>4, <3>2, <4>1, <4>2 DEF Types
      <4>3. CASE x # None
        <5>1. queue' = [queue EXCEPT ![w] = Append(queue[w], x)]
          BY <1>1, <2>4, <4>3
        <5>2. /\ Append(queue[w], x) \in Seq(Nodes) /\ Once(Append(queue[w], x))
              /\ ToSet(Append(queue[w], x)) = ToSet(queue[w]) \cup {x}
          BY <1>0, <3>2, <4>1, <4>3, Extended
        <5>. QED BY <1>0, <3>2, <4>3, <5>1, <5>2 DEF Types
      <4>. QED BY <4>2, <4>3
    <3>4. /\ Pending' = (Pending \ (ToSet(queue[w]) \cup Keeps(w))) \cup ToSet(queue'[w]) \cup Keeps(w)'
          /\ PlacesApart'
      <4>1. /\ ToSet(queue'[w]) \cap Keeps(w)' = {}
            /\ (ToSet(queue'[w]) \cup Keeps(w)') \cap (Pending \ (ToSet(queue[w]) \cup Keeps(w))) = {}
        BY <1>6, <3>2, <3>3
      <4>. QED BY <1>0, <2>1, <3>3, <4>1, Sharing
    <3>5. Pending' = Pending \cup {s}
      BY <1>0, <3>2, <3>3, <3>4, Facts
    <3>6. Types'
      BY <1>0, <1>1, <1>3, <2>2, <3>1, <3>3 DEF Types
    <3>. QED BY <2>4, <3>4, <3>5, <3>6
  <2>. QED BY <2>3, <2>4
<1>z. /\ Pending \subseteq Pending' /\ Pending' \subseteq Pending \cup {s}
      /\ s \in Pending' <=> Waiting(s)' = {}
  BY <1>6, <1>8, <1>9
<1>10. Apart'
  <2>1. \A v \in Workers : Once(todo'[v])
    BY <1>0, <1>2, <1>3 DEF Apart
  <2>. QED BY <1>0, <1>4, <1>9, <2>1 DEF Apart
<1>11. Rounds'
  <2>1. Ending' \subseteq ran' /\ Pending' \cap ran' = {}
    BY <1>1, <1>5, <1>6, <1>9 DEF IInv, Rounds
  <2>2. \A v \in Workers : pc'[v] = "successors" => ToSet(todo'[v]) \subseteq ToSet(Successors[node'[v]])
    BY <1>1, <1>2, <1>3 DEF IInv, Rounds
  <2>3. Pending \subseteq Nodes /\ ran \subseteq Nodes
    BY <1>0, Facts DEF Types
  <2>4. ASSUME NEW m \in Pending' \cup ran' PROVE Waiting(m)' = {}
    <3>1. CASE m = s
      BY <1>1, <1>6, <1>z, <3>1
    <3>2. CASE m # s
      <4>1. m \in Pending \cup ran /\ m \in Nodes
        BY <1>1, <1>z, <2>3, <3>2
      <4>. QED BY <1>7, <3>2, <4>1 DEF IInv, Rounds
    <3>. QED BY <3>1, <3>2
  <2>5. ASSUME topologies' # <<>>, NEW m \in Nodes
        PROVE  _join_counter'[m] = IF m \in ran' THEN num_dependents(m) ELSE Cardinality(Waiting(m)')
    <3>1. _join_counter[m] = IF m \in ran THEN num_dependents(m) ELSE Cardinality(Waiting(m))
      BY <1>1, <2>5 DEF IInv, Rounds
    <3>2. CASE m = s
      <4>1. s \notin ran' /\ _join_counter'[s] = Cardinality(Waiting(s)')
        BY <1>1, <1>6, <1>8
      <4>. QED BY <3>2, <4>1
    <3>3. CASE m # s
      <4>1. _join_counter'[m] = _join_counter[m]
        BY <1>0, <1>1, <3>3 DEF Types
      <4>. QED BY <1>1, <1>7, <3>1, <3>3, <4>1
    <3>. QED BY <3>2, <3>3
  <2>6. ASSUME topologies' # <<>> /\ ~Head(topologies').cancelled, NEW m \in Nodes, Waiting(m)' = {}
        PROVE  m \in Pending' \cup ran'
    <3>1. CASE m = s
      <4>1. Waiting(s)' = {}
        BY <2>6, <3>1
      <4>. QED BY <1>z, <3>1, <4>1
    <3>2. CASE m # s
      <4>1. Waiting(m) = {}
        BY <1>7, <2>6, <3>2
      <4>2. m \in Pending \cup ran
        BY <1>1, <2>6, <4>1 DEF IInv, Rounds
      <4>. QED BY <1>1, <1>z, <4>2
    <3>. QED BY <3>1, <3>2
  <2>. QED BY <2>1, <2>2, <2>4, <2>5, <2>6 DEF Rounds
<1>12. Counts'
  <2>1. \A v \in Workers : pc[v] # "topology"
    BY <1>4, Facts DEF IInv, Counts
  <2>2. left' = Cardinality(Pending' \cup Ending')
    <3>1. CASE _join_counter[s] # 1
      BY <1>1, <1>5, <1>9, <3>1 DEF IInv, Counts
    <3>2. CASE _join_counter[s] = 1
      <4>1. s \notin Pending \cup Ending
        BY <1>6 DEF IInv, Rounds
      <4>2. Pending' \cup Ending' = (Pending \cup Ending) \cup {s}
        BY <1>5, <1>9, <3>2
      <4>3. left = Cardinality(Pending \cup Ending) /\ IsFiniteSet(Pending \cup Ending)
        BY Facts DEF IInv, Counts
      <4>. QED BY <1>1, <3>2, <4>1, <4>2, <4>3, FS_AddElement
    <3>. QED BY <3>1, <3>2
  <2>. QED BY <1>1, <1>4, <2>1, <2>2 DEF Counts
<1>. QED BY <1>9, <1>10, <1>11, <1>12 DEF IInv

LEMMA TearDownKeeps == ASSUME IInv, NEW w \in Workers, TearDown(w) PROVE IInv'
<1>a. PICK n : n = node[w]
  OBVIOUS
<1>c. PICK x : x = _cache[w]
  OBVIOUS
<1>0. /\ Types /\ Apart /\ w \in Threads /\ w \in Queues /\ IInv /\ n \in Nodes
      /\ x \in Nodes \cup {None}
  BY <1>a, <1>c, WorkersAre DEF IInv, Types, Apart, TearDown, At
<1>1. /\ pc[w] = "successors" /\ todo[w] = <<>> /\ left' = left - 1
      /\ UNCHANGED <<queue, _join_counter, ran, topologies, _cache, todo, _vtm, submitted>>
      /\ \/ left # 1 /\ x # None /\ node' = [node EXCEPT ![w] = x] /\ pc' = [pc EXCEPT ![w] = "invoke"]
         \/ left # 1 /\ x = None /\ node' = [node EXCEPT ![w] = None] /\ pc' = [pc EXCEPT ![w] = "pop"]
         \/ left = 1 /\ node' = [node EXCEPT ![w] = None] /\ pc' = [pc EXCEPT ![w] = "topology"]
  BY <1>c DEF TearDown, At, Goto, NextTask, topologyVars
<1>2. Ends(w) = {n} /\ n \in Ending /\ Keeps(w) = {x} \ {None}
  <2>1. Ends(w) = {n} /\ Keeps(w) = {x} \ {None}
    BY <1>1, <1>a, <1>c DEF Ends, Keeps
  <2>. QED BY <1>0, <2>1, Facts
\* The last one has nothing in its cache.
<1>3. left = 1 => x = None
  <2>. SUFFICES ASSUME left = 1, x # None PROVE FALSE
    OBVIOUS
  <2>1. x \in Pending /\ x \notin Ending
    BY <1>0, <1>2, Facts
  <2>2. left = Cardinality(Pending \cup Ending) /\ IsFiniteSet(Pending \cup Ending)
    BY Facts DEF IInv, Counts
  <2>3. PICK y : Pending \cup Ending = {y}
    BY <2>2, FS_Singleton
  <2>. QED BY <1>2, <2>1, <2>3
<1>4. /\ pc' \in [Threads -> Whereabouts] /\ pc'[w] \in {"invoke", "pop", "topology"}
      /\ pc'[w] = "invoke" => x # None /\ node'[w] = x
      /\ pc'[w] # "invoke" => x = None
      /\ pc'[w] = "topology" => left = 1
      /\ node' \in [Workers -> Nodes \cup {None}]
      /\ \A v \in Workers : v # w => pc'[v] = pc[v] /\ node'[v] = node[v]
  <2>1. \E p \in {"invoke", "pop", "topology"}, y \in Nodes \cup {None} :
          /\ pc' = [pc EXCEPT ![w] = p] /\ node' = [node EXCEPT ![w] = y]
          /\ p = "invoke" => x # None /\ y = x
          /\ p # "invoke" => x = None
          /\ p = "topology" => left = 1
    BY <1>0, <1>1, <1>3
  <2>2. PICK p \in {"invoke", "pop", "topology"}, y \in Nodes \cup {None} :
          /\ pc' = [pc EXCEPT ![w] = p] /\ node' = [node EXCEPT ![w] = y]
          /\ p = "invoke" => x # None /\ y = x
          /\ p # "invoke" => x = None
          /\ p = "topology" => left = 1
    BY <2>1
  <2>3. p \in Whereabouts
    BY DEF Whereabouts
  <2>4. /\ pc' \in [Threads -> Whereabouts] /\ pc'[w] = p
        /\ node' \in [Workers -> Nodes \cup {None}] /\ node'[w] = y
        /\ \A v \in Workers : v # w => pc'[v] = pc[v] /\ node'[v] = node[v]
    BY <1>0, <2>2, <2>3 DEF Types
  <2>. QED BY <2>2, <2>4
<1>5. Types'
  BY <1>0, <1>1, <1>4, <1>c DEF Types
<1>6. Keeps(w)' = Keeps(w) /\ Ends(w)' = {}
  <2>1. Ends(w)' = {}
    BY <1>4 DEF Ends
  <2>2. CASE pc'[w] = "invoke"
    <3>1. Keeps(w)' = {node'[w]}
      BY <2>2 DEF Keeps
    <3>2. node'[w] = x /\ x # None
      BY <1>4, <2>2
    <3>3. Keeps(w) = {x}
      BY <1>2, <3>2
    <3>. QED BY <2>1, <3>1, <3>2, <3>3
  <2>3. CASE pc'[w] \in {"pop", "topology"}
    <3>1. Keeps(w)' = {}
      BY <2>3 DEF Keeps
    <3>2. Keeps(w) = {}
      BY <1>2, <1>4, <2>3
    <3>. QED BY <2>1, <3>1, <3>2
  <2>. QED BY <1>4, <2>1, <2>2, <2>3
<1>7. \A v \in Workers : v # w => Keeps(v)' = Keeps(v) /\ Ends(v)' = Ends(v)
  BY <1>1, <1>4, OthersKeep
<1>8. Pending' = Pending /\ PlacesApart'
  <2>1. queue' = queue /\ \A v \in Workers : Keeps(v)' = Keeps(v)
    BY <1>1, <1>6, <1>7
  <2>2. Pending' = Pending
    BY <2>1 DEF Pending, Queued
  <2>. QED BY <1>0, <2>1, <2>2 DEF Apart, PlacesApart
<1>9. Apart'
  BY <1>0, <1>1, <1>6, <1>7, <1>8 DEF Apart
<1>10. Ending' = Ending \ {n}
  <2>1. \A v \in Workers : v # w => n \notin Ends(v)
    BY <1>0, <1>2 DEF Apart
  <2>. QED BY <1>2, <1>6, <1>7, <2>1 DEF Ending
<1>11. \A m \in Nodes : Waiting(m)' = Waiting(m)
  <2>1. \A v \in Workers : \A k, m : v # w => (Tells(v, k, m)' <=> Tells(v, k, m))
    BY <1>1, <1>4 DEF Tells
  <2>2. \A k, m : ~Tells(w, k, m) /\ ~Tells(w, k, m)'
    BY <1>1, <1>4, NothingInIt DEF Tells
  <2>3. \A k, m : (\E v \in Workers : Tells(v, k, m)') <=> \E v \in Workers : Tells(v, k, m)
    BY <2>1, <2>2
  <2>. QED BY <1>1, <2>3 DEF Waiting
<1>12. \A v \in Workers : pc'[v] = "successors" => ToSet(todo'[v]) \subseteq ToSet(Successors[node'[v]])
  BY <1>1, <1>4 DEF IInv, Rounds
<1>13. n \in Pending \cup Ending /\ Pending' \cup Ending' = (Pending \cup Ending) \ {n}
  BY <1>0, <1>2, <1>8, <1>10, Facts
<1>. QED BY <1>0, <1>1, <1>4, <1>5, <1>8, <1>9, <1>10, <1>11, <1>12, <1>13, CountedOff

LEMMA ScheduleKeeps == ASSUME IInv, NEW w \in Workers, Schedule(w), todo[w] # <<>> PROVE IInv'
<1>b. PICK s : s = Head(todo[w])
  OBVIOUS
<1>0. /\ Types /\ Apart /\ w \in Threads /\ w \in Queues /\ IInv
      /\ todo[w] \in Seq(Nodes) /\ Once(todo[w])
  BY WorkersAre DEF IInv, Types, Apart
<1>1. /\ pc[w] = "schedule" /\ todo' = [todo EXCEPT ![w] = Tail(@)]
      /\ queue' = [queue EXCEPT ![w] = Append(queue[w], s)]
      /\ UNCHANGED <<_join_counter, left, ran, topologies, node, _cache, _vtm, submitted, pc>>
  BY <1>b DEF Schedule, At, Push
<1>2. /\ s \in Nodes /\ s \in ToSet(todo[w]) /\ Tail(todo[w]) \in Seq(Nodes) /\ Once(Tail(todo[w]))
      /\ ToSet(Tail(todo[w])) = ToSet(todo[w]) \ {s}
  BY <1>0, <1>b, Beheaded
<1>3. /\ todo'[w] = Tail(todo[w]) /\ todo' \in [Workers -> Seq(Nodes)]
      /\ \A v \in Workers : v # w => todo'[v] = todo[v]
  BY <1>0, <1>1, <1>2 DEF Types
<1>4. /\ Keeps(w) = ToSet(todo[w]) /\ Keeps(w)' = ToSet(todo[w]) \ {s}
      /\ \A v \in Workers : v # w => Keeps(v)' = Keeps(v)
      /\ \A v \in Workers : Ends(v)' = Ends(v)
  BY <1>1, <1>2, <1>3 DEF Keeps, Ends
<1>5. /\ queue' \in [Queues -> Seq(Nodes)] /\ Once(queue'[w])
      /\ ToSet(queue'[w]) = ToSet(queue[w]) \cup {s} /\ s \notin ToSet(queue[w])
      /\ \A r \in Queues : r # w => queue'[r] = queue[r]
  <2>1. queue[w] \in Seq(Nodes) /\ Once(queue[w]) /\ s \notin ToSet(queue[w])
    BY <1>0, <1>2, <1>4 DEF Types, Apart, PlacesApart
  <2>2. /\ Append(queue[w], s) \in Seq(Nodes) /\ Once(Append(queue[w], s))
        /\ ToSet(Append(queue[w], s)) = ToSet(queue[w]) \cup {s}
    BY <1>2, <2>1, Extended
  <2>. QED BY <1>0, <1>1, <2>1, <2>2 DEF Types
<1>6. /\ Pending' = (Pending \ (ToSet(queue[w]) \cup Keeps(w))) \cup ToSet(queue'[w]) \cup Keeps(w)'
      /\ PlacesApart'
  <2>1. /\ ToSet(queue'[w]) \cap Keeps(w)' = {}
        /\ (ToSet(queue'[w]) \cup Keeps(w)') \cap (Pending \ (ToSet(queue[w]) \cup Keeps(w))) = {}
    <3>1. ToSet(queue[w]) \cap Keeps(w) = {}
      BY <1>0 DEF Apart, PlacesApart
    <3>. QED BY <1>2, <1>4, <1>5, <3>1
  <2>. QED BY <1>0, <1>4, <1>5, <2>1, Sharing
<1>7. Pending' = Pending
  <2>1. ToSet(queue'[w]) \cup Keeps(w)' = ToSet(queue[w]) \cup Keeps(w)
    BY <1>2, <1>4, <1>5
  <2>. QED BY <1>0, <1>6, <2>1, Facts
<1>8. Types'
  BY <1>0, <1>1, <1>3, <1>5 DEF Types
<1>9. Apart'
  <2>1. \A v \in Workers : Once(todo'[v])
    BY <1>0, <1>2, <1>3 DEF Apart
  <2>. QED BY <1>0, <1>4, <1>6, <2>1 DEF Apart
<1>10. TopologyStays
  BY <1>1 DEF TopologyStays, IInv, Counts
<1>11. \A v \in Workers : pc[v] = "successors" => node'[v] = node[v] /\ todo'[v] = todo[v]
  BY <1>1, <1>3
<1>. QED BY <1>1, <1>7, <1>8, <1>9, <1>10, <1>11, SamePlaces

\* While the counter is zero, nothing is anywhere.
LEMMA NothingLeft ==
  ASSUME IInv, left = 0
  PROVE  /\ Pending = {} /\ \A q \in Queues : queue[q] = <<>>
         /\ \A w \in Workers : Keeps(w) = {} /\ pc[w] # "successors"
<1>1. Pending = {} /\ Ending = {}
  BY Facts
<1>2. \A q \in Queues : ToSet(queue[q]) = {} /\ queue[q] \in Seq(Nodes)
  BY <1>1, Facts DEF IInv, Types
<1>3. \A w \in Workers : Keeps(w) = {} /\ Ends(w) = {}
  BY <1>1, Facts
<1>. QED BY <1>1, <1>2, <1>3, Emptied DEF Ends

\* A worker begins a round, of the same topology or of the next.
LEMMA RoundKeeps ==
  ASSUME IInv, NEW w \in Workers, pc[w] = "topology", ran' = {}, left' = Len(Sources),
         topologies' \in Seq([repeat : Int, cancelled : BOOLEAN]), topologies' # <<>>,
         _join_counter' = [n \in Nodes |-> num_dependents(n)] \/
           (UNCHANGED _join_counter /\ \A n \in Nodes : _join_counter[n] = num_dependents(n)),
         todo' = [todo EXCEPT ![w] = Sources], pc' = [pc EXCEPT ![w] = "schedule"],
         UNCHANGED <<queue, node, _cache, _vtm, submitted>>
  PROVE  IInv'
<1>0. Types /\ Apart /\ w \in Threads /\ left = 0
  BY WorkersAre DEF IInv, Counts
<1>1. /\ pc' \in [Threads -> Whereabouts] /\ pc'[w] = "schedule"
      /\ todo' \in [Workers -> Seq(Nodes)] /\ todo'[w] = Sources
      /\ \A v \in Workers : v # w => pc'[v] = pc[v] /\ todo'[v] = todo[v]
  BY <1>0, SourcesAre DEF Types, Whereabouts
<1>2. _join_counter' \in [Nodes -> Int] /\ \A n \in Nodes : _join_counter'[n] = num_dependents(n)
  BY <1>0, WorkersAre DEF Types
<1>3. Types'
  BY <1>0, <1>1, <1>2 DEF Types
<1>4. /\ Keeps(w)' = Roots /\ Ends(w)' = {}
      /\ \A v \in Workers : v # w => Keeps(v)' = {} /\ Ends(v)' = {}
  <2>1. Keeps(w)' = Roots /\ Ends(w)' = {}
    BY <1>1, SourcesAre DEF Keeps, Ends
  <2>2. \A v \in Workers : v # w => Keeps(v)' = Keeps(v) /\ Ends(v)' = Ends(v)
    BY <1>1, OthersKeep
  <2>3. \A v \in Workers : Keeps(v) = {} /\ Ends(v) = {}
    BY <1>0, NothingLeft DEF Ends
  <2>. QED BY <2>1, <2>2, <2>3
<1>5. \A q \in Queues : queue'[q] = <<>> /\ ToSet(queue'[q]) = {} /\ Once(queue'[q])
  BY <1>0, NothingLeft, NothingInIt
<1>6. Pending' = Roots
  BY <1>4, <1>5, InPendingNext
<1>7. Apart'
  <2>1. \A v \in Workers : Once(todo'[v])
    BY <1>0, <1>1, SourcesAre DEF Apart
  <2>2. PlacesApart'
    BY <1>4, <1>5 DEF PlacesApart
  <2>. QED BY <1>4, <2>1, <2>2 DEF Apart
<1>8. \A v \in Workers : pc'[v] # "topology" /\ (pc'[v] = "successors" => pc[v] = "successors")
  BY <1>1 DEF IInv, Counts
<1>. QED BY <1>0, <1>2, <1>3, <1>6, <1>7, <1>8, RoundBegins

LEMMA RunKeeps == ASSUME IInv, NEW w \in Workers, RunAgain(w) \/ RunNext(w) PROVE IInv'
<1>0. Types /\ pc[w] = "topology" /\ left = 0 /\ topologies # <<>>
  BY DEF IInv, Counts, RunAgain, RunNext, At
<1>1. CASE RunAgain(w)
  <2>1. /\ ran' = {} /\ left' = Len(Sources) /\ ~Head(topologies).cancelled
        /\ topologies' = [topologies EXCEPT ![1].repeat = @ - 1]
        /\ todo' = [todo EXCEPT ![w] = Sources] /\ pc' = [pc EXCEPT ![w] = "schedule"]
        /\ UNCHANGED <<queue, _join_counter, node, _cache, _vtm, submitted>>
    BY <1>1 DEF RunAgain, Goto
  <2>2. topologies' \in Seq([repeat : Int, cancelled : BOOLEAN]) /\ topologies' # <<>>
    <3>1. PICK x : x = [topologies[1] EXCEPT !.repeat = @ - 1]
      OBVIOUS
    <3>2. topologies' = [topologies EXCEPT ![1] = x]
      BY <2>1, <3>1
    <3>3. 1 \in 1 .. Len(topologies) /\ x \in [repeat : Int, cancelled : BOOLEAN]
      BY <1>0, <3>1, TopologiesAre
    <3>. QED BY <1>0, <3>2, <3>3, TopologiesStay
  <2>3. \A n \in Nodes : _join_counter[n] = num_dependents(n)
    BY <1>0, <2>1, AllRan DEF IInv, Rounds
  <2>. QED BY <1>0, <2>1, <2>2, <2>3, RoundKeeps
<1>2. CASE RunNext(w)
  <2>1. /\ ran' = {} /\ left' = Len(Sources) /\ Len(topologies) > 1 /\ topologies' = Tail(topologies)
        /\ _join_counter' = [n \in Nodes |-> num_dependents(n)]
        /\ todo' = [todo EXCEPT ![w] = Sources] /\ pc' = [pc EXCEPT ![w] = "schedule"]
        /\ UNCHANGED <<queue, node, _cache, _vtm, submitted>>
    BY <1>2 DEF RunNext, Goto, SetUp
  <2>2. topologies' \in Seq([repeat : Int, cancelled : BOOLEAN]) /\ topologies' # <<>>
    <3>1. Tail(topologies) \in Seq([repeat : Int, cancelled : BOOLEAN]) /\ Len(Tail(topologies)) = Len(topologies) - 1
      BY <1>0, HeadTailProperties DEF Types
    <3>2. Len(Tail(topologies)) # 0
      BY <1>0, <2>1, <3>1, TopologiesAre
    <3>. QED BY <2>1, <3>1, <3>2, EmptySeq
  <2>. QED BY <1>0, <2>1, <2>2, RoundKeeps
<1>. QED BY <1>1, <1>2

\* A worker moves on without a task.
LEMMA MovingKeeps ==
  ASSUME IInv, UNCHANGED <<queue, _join_counter, left, ran, node, _cache, todo, topologies, submitted>>,
         _vtm' \in [Workers -> Queues], NEW w \in Workers,
         NEW place \in Quiet \ {"schedule", "topology"}, pc' = [pc EXCEPT ![w] = place],
         pc[w] \in Quiet \ {"schedule"} \/ (pc[w] = "schedule" /\ todo[w] = <<>>)
  PROVE  IInv'
<1>0. Types /\ w \in Threads /\ place \in Whereabouts /\ pc[w] \in Quiet /\ place \in Quiet
  BY WorkersAre DEF IInv, Quiet, Whereabouts
<1>1. Types'
  BY <1>0, MovingTypes DEF Types
<1>2. pc'[w] = place /\ \A v \in Workers : v # w => pc'[v] = pc[v]
  BY <1>0 DEF Types
<1>3. TopologyStays
  BY <1>2 DEF TopologyStays, IInv, Counts
<1>4. place \notin {"invoke", "successors", "schedule"}
  BY DEF Quiet
<1>5. pc[w] \notin {"invoke", "successors", "schedule"} \/ (pc[w] = "schedule" /\ todo[w] = <<>>)
  BY DEF Quiet
<1>. QED BY <1>1, <1>2, <1>3, <1>4, <1>5, QuietKeeps

LEMMA SeekKeeps ==
  ASSUME IInv, NEW w \in Workers,
         GiveUp(w) \/ CheckShared(w) \/ CheckDone(w) \/ Exit(w) \/ Scan(w)
  PROVE  IInv'
<1>0. Types /\ Shared \in Queues /\ Workers \subseteq Queues /\ 1 \in Workers /\ w \in Workers
  BY WorkersAre DEF IInv
<1>1. _vtm' \in [Workers -> Queues]
  <2>1. \/ _vtm' = _vtm
        \/ \E q \in Queues : _vtm' = [_vtm EXCEPT ![w] = q]
    <3>1. CASE GiveUp(w) \/ Exit(w)
      BY <3>1 DEF GiveUp, Exit, workerVars
    <3>2. CASE CheckShared(w)
      BY <1>0, <3>2 DEF CheckShared, SeesTask, workerVars
    <3>3. CASE CheckDone(w)
      BY <1>0, <3>3 DEF CheckDone
    <3>4. CASE Scan(w)
      <4>1. _vtm[w] \in Queues
        BY <1>0 DEF Types
      <4>. QED BY <1>0, <3>4, <4>1 DEF Scan, SeesTask
    <3>. QED BY <3>1, <3>2, <3>3, <3>4
  <2>. QED BY <1>0, <2>1 DEF Types
<1>2. /\ UNCHANGED <<queue, _join_counter, left, ran, node, _cache, todo, topologies, submitted>>
      /\ pc[w] \in {"explore", "checkShared", "checkDone", "leave", "scan"}
  <2>1. CASE GiveUp(w) \/ Exit(w)
    BY <2>1 DEF GiveUp, Exit, At, taskVars, topologyVars, workerVars
  <2>2. CASE CheckShared(w)
    BY <2>2 DEF CheckShared, SeesTask, At, taskVars, topologyVars, workerVars
  <2>3. CASE CheckDone(w)
    BY <2>3 DEF CheckDone, At, taskVars, topologyVars
  <2>4. CASE Scan(w)
    BY <2>4 DEF Scan, SeesTask, At, taskVars, topologyVars
  <2>. QED BY <2>1, <2>2, <2>3, <2>4
<1>3. pc = [pc EXCEPT ![w] = pc[w]]
  BY <1>0, WorkersAre DEF Types
<1>4. \E place \in {"checkShared", "exited", "retry", "checkDone", "leave", "scan", "explore"} :
        pc' = [pc EXCEPT ![w] = place]
  <2>1. CASE GiveUp(w) \/ Exit(w)
    BY <2>1 DEF GiveUp, Exit, Goto
  <2>2. CASE CheckShared(w)
    BY <2>2 DEF CheckShared, SeesTask, Goto
  <2>3. CASE CheckDone(w)
    BY <2>3 DEF CheckDone, Goto
  <2>4. CASE Scan(w)
    BY <1>3, <2>4 DEF Scan, SeesTask, Goto, At
  <2>. QED BY <2>1, <2>2, <2>3, <2>4
<1>5. PICK place \in Quiet \ {"schedule", "topology"} : pc' = [pc EXCEPT ![w] = place]
  BY <1>4 DEF Quiet
<1>6. pc[w] \in Quiet \ {"schedule"}
  BY <1>2 DEF Quiet
<1>. QED BY <1>1, <1>2, <1>5, <1>6, MovingKeeps

\* Who loses an exchange is about to steal, not to scan.
LEMMA OutrunsMoves ==
  ASSUME Types, NEW w \in Workers, NEW q \in Queues, Outruns(w, q)
  PROVE  /\ _vtm' \in [Workers -> Queues]
         /\ \A v \in Workers \ {w} : pc[v] = "scan" => _vtm'[v] = _vtm[v]
<1>1. 1 \in Queues /\ Workers \subseteq Queues /\ _vtm \in [Workers -> Queues]
  BY WorkersAre DEF Types
<1>2. PICK losers \in SUBSET {v \in Workers \ {w} : At(v, "retry") /\ _vtm[v] = q} :
        _vtm' = [v \in Workers |-> IF v \in losers THEN v ELSE IF v = w THEN 1 ELSE _vtm[v]]
  BY DEF Outruns
<1>3. _vtm' \in [Workers -> Queues]
  BY <1>1, <1>2
<1>4. \A v \in losers : pc[v] # "scan"
  BY <1>2 DEF At
<1>. QED BY <1>2, <1>3, <1>4

\* A worker that takes a task, or finds none.
LEMMA FindKeeps == ASSUME IInv, NEW w \in Workers, Steal(w) \/ Retry(w) \/ Pop(w) PROVE IInv'
<1>0. /\ Types /\ Apart /\ 1 \in Queues /\ w \in Queues /\ _vtm \in [Workers -> Queues]
      /\ _vtm[w] \in Queues
  BY WorkersAre DEF IInv, Types
<1>1. ASSUME NEW q \in Queues, pc[w] \in {"explore", "retry"}, StealFrom(w, q) PROVE IInv'
  <2>1. queue[q] \in Seq(Nodes) /\ Once(queue[q]) /\ queue[q] # <<>>
    BY <1>0, <1>1 DEF Types, Apart, PlacesApart, StealFrom
  <2>2. /\ Head(queue[q]) \in ToSet(queue[q]) /\ Tail(queue[q]) \in Seq(Nodes) /\ Once(Tail(queue[q]))
        /\ ToSet(Tail(queue[q])) = ToSet(queue[q]) \ {Head(queue[q])}
    BY <2>1, Beheaded
  <2>3. /\ node' = [node EXCEPT ![w] = Head(queue[q])] /\ queue' = [queue EXCEPT ![q] = Tail(queue[q])]
        /\ pc' = [pc EXCEPT ![w] = "invoke"] /\ Outruns(w, q)
        /\ UNCHANGED <<_join_counter, left, ran, topologies, _cache, todo, submitted>>
    BY <1>1 DEF StealFrom, Goto, topologyVars
  <2>4. _vtm' \in [Workers -> Queues]
    BY <1>0, <2>3, OutrunsMoves
  <2>. QED BY <1>1, <2>2, <2>3, <2>4, TakeKeeps
<1>2. CASE Steal(w)
  BY <1>1, <1>2 DEF Steal, At
<1>3. CASE Retry(w)
  <2>1. CASE StealFrom(w, _vtm[w])
    BY <1>0, <1>1, <1>3, <2>1 DEF Retry, At
  <2>2. CASE ~StealFrom(w, _vtm[w])
    <3>1. /\ pc[w] = "retry" /\ pc' = [pc EXCEPT ![w] = "explore"] /\ _vtm' = [_vtm EXCEPT ![w] = 1]
          /\ UNCHANGED <<queue, _join_counter, left, ran, node, _cache, todo, topologies, submitted>>
      BY <1>3, <2>2 DEF Retry, At, Goto, taskVars, topologyVars
    <3>2. _vtm' \in [Workers -> Queues]
      BY <1>0, <3>1
    <3>3. "explore" \in Quiet \ {"schedule", "topology"} /\ pc[w] \in Quiet \ {"schedule"}
      BY <3>1 DEF Quiet
    <3>. QED BY <3>1, <3>2, <3>3, MovingKeeps
  <2>. QED BY <2>1, <2>2
<1>4. CASE Pop(w)
  <2>1. CASE queue[w] # <<>>
    <3>1. queue[w] \in Seq(Nodes) /\ Once(queue[w])
      BY <1>0 DEF Types, Apart, PlacesApart
    <3>2. /\ Last(queue[w]) \in ToSet(queue[w]) /\ Front(queue[w]) \in Seq(Nodes) /\ Once(Front(queue[w]))
          /\ ToSet(Front(queue[w])) = ToSet(queue[w]) \ {Last(queue[w])}
      BY <2>1, <3>1, Curtailed
    <3>3. /\ node' = [node EXCEPT ![w] = Last(queue[w])] /\ queue' = [queue EXCEPT ![w] = Front(queue[w])]
          /\ pc' = [pc EXCEPT ![w] = "invoke"] /\ pc[w] = "pop"
          /\ UNCHANGED <<_join_counter, left, ran, topologies, _cache, todo, submitted>>
          /\ Outruns(w, w) \/ UNCHANGED _vtm
      BY <1>4, <2>1 DEF Pop, At, Goto, topologyVars
    <3>4. _vtm' \in [Workers -> Queues]
      BY <1>0, <3>3, OutrunsMoves
    <3>. QED BY <1>0, <3>2, <3>3, <3>4, TakeKeeps
  <2>2. CASE queue[w] = <<>>
    <3>1. /\ pc[w] = "pop" /\ pc' = [pc EXCEPT ![w] = "explore"]
          /\ UNCHANGED <<queue, _join_counter, left, ran, node, _cache, todo, topologies, submitted, _vtm>>
      BY <1>4, <2>2 DEF Pop, At, Goto, topologyVars
    <3>2. "explore" \in Quiet \ {"schedule", "topology"} /\ pc[w] \in Quiet \ {"schedule"}
      BY <3>1 DEF Quiet
    <3>. QED BY <1>0, <3>1, <3>2, MovingKeeps
  <2>. QED BY <2>1, <2>2
<1>. QED BY <1>2, <1>3, <1>4

\* The end of a topology, and of its scheduling.
LEMMA EndKeeps ==
  ASSUME IInv, NEW w \in Workers,
         Finish(w) \/ Decrement(w) \/ (Schedule(w) /\ todo[w] = <<>>)
  PROVE  IInv'
<1>0. Types /\ w \in Threads /\ _vtm \in [Workers -> Queues]
  BY WorkersAre DEF IInv, Types
<1>1. CASE Decrement(w) \/ (Schedule(w) /\ todo[w] = <<>>)
  <2>1. /\ pc[w] = "finished" \/ (pc[w] = "schedule" /\ todo[w] = <<>>)
        /\ pc' = [pc EXCEPT ![w] = "pop"]
        /\ UNCHANGED <<queue, _join_counter, left, ran, node, _cache, todo, topologies, submitted, _vtm>>
    BY <1>1 DEF Decrement, Schedule, At, Goto, taskVars, workerVars
  <2>2. "pop" \in Quiet \ {"schedule", "topology"} /\ (pc[w] = "finished" => pc[w] \in Quiet \ {"schedule"})
    BY DEF Quiet
  <2>. QED BY <1>0, <2>1, <2>2, MovingKeeps
<1>2. CASE Finish(w)
  <2>1. /\ pc[w] = "topology" /\ pc' = [pc EXCEPT ![w] = "finished"] /\ topologies' = <<>>
        /\ UNCHANGED <<queue, _join_counter, left, ran, node, _cache, todo, submitted, _vtm>>
    BY <1>2 DEF Finish, At, Goto, taskVars, workerVars
  <2>2. "finished" \in Whereabouts /\ "finished" \in Quiet /\ pc[w] \in Quiet
    BY <2>1 DEF Whereabouts, Quiet
  <2>3. Types'
    <3>1. topologies' \in Seq([repeat : Int, cancelled : BOOLEAN])
      BY <2>1, NothingInIt
    <3>2. submitted' \in Nat /\ _vtm' \in [Workers -> Queues]
      BY <1>0, <2>1 DEF Types
    <3>. QED BY <1>0, <2>1, <2>2, <3>1, <3>2, MovingTypes
  <2>4. pc'[w] = "finished" /\ \A v \in Workers : v # w => pc'[v] = pc[v]
    BY <1>0, <2>1, <2>2 DEF Types
  <2>5. TopologyStays
    BY <2>1, <2>4 DEF TopologyStays, IInv, Counts
  <2>. QED BY <2>1, <2>3, <2>4, <2>5, QuietKeeps
<1>. QED BY <1>1, <1>2

\* The owner, as long as it starts no topology.
LEMMA OwnerKeeps ==
  ASSUME IInv, UNCHANGED <<queue, _join_counter, left, ran, node, _cache, todo, _vtm>>,
         topologies' \in Seq([repeat : Int, cancelled : BOOLEAN]), submitted' \in Nat,
         topologies' # <<>> => topologies # <<>> /\ (Head(topologies).cancelled => Head(topologies').cancelled),
         topologies' = <<>> => topologies = <<>>,
         pc' = pc \/ \E place \in Whereabouts : pc' = [pc EXCEPT ![Owner] = place]
  PROVE  IInv'
<1>1. pc' \in [Threads -> Whereabouts] /\ \A w \in Workers : pc'[w] = pc[w]
  <2>1. pc \in [Threads -> Whereabouts]
    BY DEF IInv, Types
  <2>. QED BY <2>1, WorkersAre
<1>2. Types'
  BY <1>1, OtherTypes DEF IInv, Types
<1>3. TopologyStays
  BY <1>1 DEF TopologyStays, IInv, Counts
<1>. QED BY <1>1, <1>2, <1>3, QuietKeeps

LEMMA NewTopology ==
  ASSUME Types, Submit
  PROVE  \E x \in [repeat : Int, cancelled : BOOLEAN] :
           topologies' = Append(topologies, x) /\ submitted' \in Nat
<1>1. submitted' = submitted + 1 /\ submitted \in Nat /\ submitted < Len(Repeats) /\ Len(Repeats) \in Nat
  BY ExecutorAssumption, LenProperties DEF Types, Submit
<1>2. submitted' \in 1 .. Len(Repeats) /\ submitted' \in Nat
  BY <1>1
<1>3. Repeats[submitted'] - 1 \in Int
  <2>1. Repeats[submitted'] \in Nat \ {0}
    BY <1>2, ExecutorAssumption, ElementOfSeq
  <2>. QED BY <2>1
<1>. QED BY <1>2, <1>3 DEF Submit

LEMMA SubmitKeeps == ASSUME IInv, Submit PROVE IInv'
<1>0. /\ Types /\ Apart /\ Shared \in Queues /\ Owner \in Threads
      /\ \A w \in Workers : w # Owner /\ w \in Threads
  BY WorkersAre DEF IInv
<1>1. PICK x \in [repeat : Int, cancelled : BOOLEAN] :
        topologies' = Append(topologies, x) /\ submitted' \in Nat
  BY <1>0, NewTopology
<1>2. /\ topologies \in Seq([repeat : Int, cancelled : BOOLEAN])
      /\ topologies' \in Seq([repeat : Int, cancelled : BOOLEAN])
      /\ Len(topologies') = Len(topologies) + 1 /\ topologies' # <<>>
      /\ topologies # <<>> => Head(topologies') = Head(topologies)
  <2>1. topologies \in Seq([repeat : Int, cancelled : BOOLEAN]) /\ Len(topologies) \in Nat
    BY <1>0, LenProperties DEF Types
  <2>2. /\ topologies' \in Seq([repeat : Int, cancelled : BOOLEAN])
        /\ Len(topologies') = Len(topologies) + 1
        /\ \A i \in 1 .. Len(topologies) : topologies'[i] = topologies[i]
    BY <1>1, <2>1, AppendProperties
  <2>3. topologies' # <<>> /\ Head(topologies') = topologies'[1]
    BY <2>1, <2>2, EmptySeq, HeadTailProperties
  <2>4. topologies # <<>> => Head(topologies) = topologies[1] /\ 1 \in 1 .. Len(topologies)
    BY <1>0, TopologiesAre
  <2>. QED BY <2>1, <2>2, <2>3, <2>4
<1>3. UNCHANGED <<node, _cache, todo, _vtm>>
  BY DEF Submit, workerVars
<1>4. CASE topologies # <<>>
  <2>1. UNCHANGED <<queue, _join_counter, left, ran, pc>>
    BY <1>4 DEF Submit, taskVars
  <2>. QED BY <1>1, <1>2, <1>3, <1>4, <2>1, OwnerKeeps
<1>5. CASE topologies = <<>>
  <2>1. left = 0
    BY <1>5 DEF IInv, Counts
  <2>2. /\ queue' = [queue EXCEPT ![Shared] = queue[Shared] \o Sources] /\ ran' = {}
        /\ left' = Len(Sources) /\ _join_counter' = [n \in Nodes |-> num_dependents(n)]
        /\ pc' = [pc EXCEPT ![Owner] = "unlock"]
    BY <1>5 DEF Submit, SetUp, Goto
  <2>3. /\ queue'[Shared] = Sources /\ queue' \in [Queues -> Seq(Nodes)]
        /\ \A q \in Queues : q # Shared => queue'[q] = <<>>
    <3>1. \A q \in Queues : queue[q] = <<>>
      BY <2>1, NothingLeft
    <3>2. queue[Shared] \o Sources = Sources
      BY <1>0, <3>1, SourcesAre, ConcatEmptySeq
    <3>. QED BY <1>0, <2>2, <3>1, <3>2, SourcesAre DEF Types
  <2>4. pc' \in [Threads -> Whereabouts] /\ \A w \in Workers : pc'[w] = pc[w]
    BY <1>0, <2>2 DEF Types, Whereabouts
  <2>5. _join_counter' \in [Nodes -> Int] /\ \A n \in Nodes : _join_counter'[n] = num_dependents(n)
    BY <2>2, WorkersAre
  <2>6. Types'
    BY <1>0, <1>1, <1>2, <1>3, <2>2, <2>3, <2>4, <2>5 DEF Types
  <2>7. \A w \in Workers : Keeps(w)' = {} /\ Ends(w)' = {} /\ pc'[w] # "topology" /\ pc'[w] # "successors"
    <3>1. \A w \in Workers : Keeps(w)' = Keeps(w) /\ Ends(w)' = Ends(w)
      BY <1>3, <2>4, OthersKeep
    <3>2. \A w \in Workers : Keeps(w) = {} /\ pc[w] # "successors" /\ pc[w] # "topology"
      BY <1>5, <2>1, NothingLeft DEF IInv, Counts
    <3>. QED BY <2>4, <3>1, <3>2 DEF Ends
  <2>8. \A q \in Queues : Once(queue'[q]) /\ ToSet(queue'[q]) = IF q = Shared THEN Roots ELSE {}
    BY <2>3, SourcesAre, NothingInIt
  <2>9. Pending' = Roots
    BY <1>0, <2>7, <2>8, InPendingNext
  <2>10. Apart'
    <3>1. PlacesApart'
      BY <2>7, <2>8 DEF PlacesApart
    <3>2. \A w \in Workers : Once(todo'[w])
      BY <1>0, <1>3 DEF Apart
    <3>. QED BY <2>7, <3>1, <3>2 DEF Apart
  <2>. QED BY <1>2, <2>1, <2>2, <2>5, <2>6, <2>7, <2>9, <2>10, RoundBegins
<1>. QED BY <1>4, <1>5

LEMMA CancelKeeps == ASSUME IInv, Cancel PROVE IInv'
<1>0. Types /\ topologies # <<>>
  BY DEF IInv, Cancel
<1>1. PICK i \in 1 .. Len(topologies) : i = Len(topologies)
  <2>1. Len(topologies) \in Nat \ {0}
    BY <1>0, TopologiesAre
  <2>. QED BY <2>1
<1>2. PICK x : x = [topologies[i] EXCEPT !.cancelled = TRUE]
  OBVIOUS
<1>3. topologies' = [topologies EXCEPT ![i] = x]
  BY <1>1, <1>2 DEF Cancel
<1>4. x \in [repeat : Int, cancelled : BOOLEAN] /\ x.cancelled
  BY <1>0, <1>2, TopologiesAre
<1>5. /\ topologies' \in Seq([repeat : Int, cancelled : BOOLEAN]) /\ topologies' # <<>>
      /\ Head(topologies).cancelled => Head(topologies').cancelled
  BY <1>0, <1>3, <1>4, TopologiesStay
<1>6. UNCHANGED <<queue, _join_counter, left, ran, node, _cache, todo, _vtm, submitted, pc>>
  BY DEF Cancel, taskVars, workerVars
<1>. QED BY <1>0, <1>5, <1>6, OwnerKeeps DEF Types

LEMMA NextIInv == IInv /\ [Next]_vars => IInv'
<1>. SUFFICES ASSUME IInv, [Next]_vars PROVE IInv'
  OBVIOUS
<1>1. CASE UNCHANGED executorVars
  BY <1>1, OwnerKeeps DEF IInv, Types, executorVars, taskVars, topologyVars, workerVars
<1>2. CASE Submit
  BY <1>2, SubmitKeeps
<1>3. CASE Unlock \/ ShutDown \/ Join
  <2>1. UNCHANGED <<queue, _join_counter, left, ran, node, _cache, todo, _vtm, topologies, submitted>>
    BY <1>3 DEF Unlock, ShutDown, Join, taskVars, topologyVars, workerVars
  <2>2. \E place \in Whereabouts : pc' = [pc EXCEPT ![Owner] = place]
    BY <1>3 DEF Unlock, ShutDown, Join, Goto, Whereabouts
  <2>. QED BY <2>1, <2>2, OwnerKeeps DEF IInv, Types
<1>4. CASE Cancel
  BY <1>4, CancelKeeps
<1>5. ASSUME NEW w \in Workers, Work(w) PROVE IInv'
  <2>1. CASE InNotifier(w)
    BY <1>1, <2>1 DEF InNotifier
  <2>2. CASE GiveUp(w) \/ CheckShared(w) \/ CheckDone(w) \/ Exit(w) \/ Scan(w)
    BY <2>2, SeekKeeps
  <2>3. CASE Steal(w) \/ Retry(w) \/ Pop(w)
    BY <2>3, FindKeeps
  <2>4. CASE SkipCancelled(w) \/ Invoke(w) \/ Successor(w) \/ TearDown(w)
    BY <2>4, SkipKeeps, InvokeKeeps, SuccessorKeeps, TearDownKeeps
  <2>5. CASE RunAgain(w) \/ RunNext(w)
    BY <2>5, RunKeeps
  <2>6. CASE Finish(w) \/ Decrement(w) \/ Schedule(w)
    BY <2>6, EndKeeps, ScheduleKeeps
  <2>. QED BY <1>5, <2>1, <2>2, <2>3, <2>4, <2>5, <2>6 DEF Work
<1>6. CASE InNotifier(Owner) \/ Stopped \/ UNCHANGED vars
  BY <1>1, <1>6 DEF InNotifier, Stopped, vars
<1>. QED BY <1>2, <1>3, <1>4, <1>5, <1>6 DEF Next, Own

LEMMA InitIInv == Init => IInv
<1>. SUFFICES ASSUME Init PROVE IInv
  OBVIOUS
<1>1. Types
  BY InitTypes
<1>2. /\ \A q \in Queues : queue[q] = <<>> /\ ToSet(queue[q]) = {} /\ Once(queue[q])
      /\ \A w \in Workers : todo[w] = <<>> /\ Once(todo[w]) /\ pc[w] = "explore"
      /\ topologies = <<>> /\ left = 0 /\ ran = {}
  <2>1. \A w \in Workers : w \in Threads /\ w # Owner
    BY WorkersAre
  <2>. QED BY <2>1, NothingInIt DEF Init
<1>3. \A w \in Workers : Keeps(w) = {} /\ Ends(w) = {}
  BY <1>2 DEF Keeps, Ends
<1>4. Pending = {} /\ Ending = {}
  BY <1>2, <1>3 DEF Pending, Queued, Ending
<1>5. Apart
  BY <1>2, <1>3 DEF Apart, PlacesApart
<1>6. Rounds
  BY <1>2, <1>4 DEF Rounds
<1>7. Counts
  BY <1>2, <1>4, FS_EmptySet DEF Counts
<1>. QED BY <1>1, <1>5, <1>6, <1>7 DEF IInv

LEMMA Inductive == Spec => []IInv
<1>. QED BY InitIInv, NextIInv, PTL DEF Spec

(* A task waits or runs in one place at a time, after its predecessors and  *)
(* once per round: in a queue, in a cache or in a worker's hands, whoever   *)
(* pops, steals, counts off or cancels (executor.hpp 1600-1670).            *)
THEOREM EachTaskOnceInOrder == Spec => []OnceInOrder
<1>1. IInv => OnceInOrder
  <2>. SUFFICES ASSUME IInv, NEW n \in Nodes
                PROVE  /\ Cardinality(Places(n)) <= 1
                       /\ Places(n) # {} => n \notin ran /\ Predecessors(n) \subseteq ran
    BY DEF OnceInOrder
  <2>1. \A y \in InQueue(n) : \E q \in Queues : \E i \in DOMAIN queue[q] :
          y = <<q, i>> /\ queue[q][i] = n /\ n \in ToSet(queue[q])
    BY DEF ToSet, InQueue
  <2>2. \A y \in InCache(n) \cup InHands(n) : \E w \in Workers :
          n \in Keeps(w) /\ y = <<w, IF pc[w] = "invoke" THEN "invoke" ELSE "cache">>
    <3>1. \A w \in Workers : _cache[w] = n /\ pc[w] # "invoke" => n \in Keeps(w)
      BY WorkersAre DEF IInv, Types, Keeps
    <3>2. \A w \in Workers : node[w] = n /\ pc[w] = "invoke" => n \in Keeps(w)
      BY DEF Keeps
    <3>. QED BY <3>1, <3>2 DEF InCache, InHands
  <2>3. Places(n) = InQueue(n) \cup InCache(n) \cup InHands(n)
    BY DEF Places
  <2>4. \A y, z \in Places(n) : y = z
    <3>1. \A q \in Queues : Once(queue[q])
      BY DEF IInv, Apart, PlacesApart
    <3>2. \A q, r \in Queues : n \in ToSet(queue[q]) /\ n \in ToSet(queue[r]) => q = r
      BY DEF IInv, Apart, PlacesApart
    <3>3. \A u, v \in Workers : n \in Keeps(u) /\ n \in Keeps(v) => u = v
      BY DEF IInv, Apart, PlacesApart
    <3>4. \A q \in Queues, v \in Workers : ~(n \in ToSet(queue[q]) /\ n \in Keeps(v))
      BY DEF IInv, Apart, PlacesApart
    <3>5. \A y, z \in InQueue(n) : y = z
      BY <2>1, <3>1, <3>2 DEF Once
    <3>6. \A y, z \in InCache(n) \cup InHands(n) : y = z
      BY <2>2, <3>3
    <3>7. \A y \in InQueue(n), z \in InCache(n) \cup InHands(n) : FALSE
      BY <2>1, <2>2, <3>4
    <3>. QED BY <2>3, <3>5, <3>6, <3>7
  <2>5. Cardinality(Places(n)) <= 1
    <3>1. CASE Places(n) = {}
      BY <3>1, FS_EmptySet
    <3>2. CASE Places(n) # {}
      <4>1. PICK y : Places(n) = {y}
        BY <2>4, <3>2
      <4>. QED BY <4>1, FS_Singleton
    <3>. QED BY <3>1, <3>2
  <2>6. ASSUME Places(n) # {} PROVE n \notin ran /\ Predecessors(n) \subseteq ran
    <3>1. n \in Pending
      BY <2>1, <2>2, <2>3, <2>6, InPending
    <3>. QED BY <3>1, WorkersAre DEF IInv, Rounds, Waiting
  <2>. QED BY <2>5, <2>6
<1>. QED BY <1>1, Inductive, PTL

(* When a topology is torn down without having been cancelled, every task   *)
(* of it has run (1691-1700, 2164-2175).                                    *)
THEOREM EveryTaskRan == Spec => []DrainedAtTearDown
<1>1. IInv => DrainedAtTearDown
  BY AllRan DEF IInv, Counts, DrainedAtTearDown
<1>. QED BY <1>1, Inductive, PTL

-----------------------------------------------------------------------------
(* The notifier.                                                            *)

Epochs == 0 .. EpochMod - 1
States == [epoch : Epochs, waiters : Nat, stack : Waiters \cup {None}]
WaiterPlaces == {"cancel", "commit", "park", "parked"}
NotifyPlaces == {"load", "readNext", "exchange", "detach", "unpark"}

NotifierTypes ==
  /\ _state \in States
  /\ next \in [Waiters -> Waiters \cup {None}] /\ epoch \in [Waiters -> Epochs]
  /\ signal \in [Waiters -> {"kNotSignaled", "kWaiting", "kSignaled"}]
  /\ npc \in [Threads -> {"out"} \cup WaiterPlaces \cup NotifyPlaces]
  /\ \A t \in Threads : npc[t] \in WaiterPlaces => t \in Waiters
  /\ seen \in [Threads -> States] /\ hold \in [Threads -> Waiters \cup {None}]
  /\ all \in [Threads -> BOOLEAN] /\ times \in [Threads -> Int]

\* Worker w is between its prepare_wait and the end of its cancel_wait or its
\* turn in commit_wait.
Predicates == {"checkShared", "checkDone", "scan"}
Waits(w) == npc[w] \in {"cancel", "commit"} \/ At(w, "checkShared") \/ At(w, "checkDone") \/ At(w, "scan")
Behind(t) == Lag(_state.epoch, seen[t].epoch)

\* Nobody lags behind so far that the epochs come round: not a notified
\* pre-waiter, and not a notifier with its compare-exchange.
Prompt(lag) == 2 * (lag + Cardinality(Waiters)) < EpochMod
Punctual ==
  /\ \A w \in Workers : Waits(w) => Prompt(Turn(w))
  /\ \A t \in Threads : npc[t] \in {"readNext", "exchange"} => Prompt(Behind(t))

\* The turns of those not notified are 0, -1, ... down to 1 - _state.waiters.
Tickets ==
  /\ \A w \in Workers : pc[w] \in Predicates => npc[w] = "out"
  /\ \A w \in Prewaiters : Turn(w) > -_state.waiters
  /\ \A v, w \in Prewaiters : Turn(v) = Turn(w) => v = w
  /\ \A k \in 0 .. _state.waiters - 1 : \E w \in Prewaiters : Turn(w) = -k

\* The lists are lists: no waiter is behind itself.
Wakers == {t \in Threads : npc[t] \in {"detach", "unpark"}}
Lists ==
  /\ \A t \in Wakers : hold[t] \in Waiters
  /\ \A w \in Linked(_state.stack) : w \notin Linked(next[w])
  /\ \A t \in Wakers : npc[t] = "unpark" => \A w \in Linked(hold[t]) : w \notin Linked(next[w])
  /\ \A w \in Waiters : npc[w] = "commit" => signal[w] = "kNotSignaled"
  /\ \A w \in Waiters : npc[w] = "parked" => signal[w] # "kNotSignaled"

\* While the epoch stands still the stack only loses waiters, so that what a
\* notifier has seen at its top is still there, over the same rest, or gone.
Glimpse ==
  \A t \in Threads :
    npc[t] \in {"readNext", "exchange"} =>
    /\ Behind(t) >= 0 /\ ~all[t] /\ seen[t].waiters = 0 /\ seen[t].stack # None
    /\ Behind(t) = 0 /\ seen[t].stack \in Linked(_state.stack) =>
         /\ seen[t].stack = _state.stack
         /\ npc[t] = "exchange" => hold[t] = next[seen[t].stack]

NInv == NotifierTypes /\ Tickets /\ SleepersHeld /\ Lists /\ Glimpse

-----------------------------------------------------------------------------
(* Linked waiters.                                                          *)

LinkedBy(nx, w) ==
  {v \in Waiters : w # None /\ \A S \in SUBSET Waiters :
                     w \in S /\ (\A u \in S : nx[u] \in S \cup {None}) => v \in S}

LEMMA LinkedIs == \A w : Linked(w) = LinkedBy(next, w)
BY DEF Linked, LinkedBy, Closed

LEMMA LinkedIsNext == \A w : Linked(w)' = LinkedBy(next', w)
BY DEF Linked, LinkedBy, Closed

LEMMA WaitersAre ==
  /\ None \notin Waiters /\ Workers = Waiters /\ Callers = Threads /\ Waiters \subseteq Threads
  /\ Owner \notin Waiters /\ IsFiniteSet(Waiters) /\ Cardinality(Waiters) \in Nat /\ EpochMod \in Nat
  /\ Cardinality(Waiters) >= 1 /\ 2 * Cardinality(Waiters) < EpochMod /\ EpochMod > 0
<1>1. IsFiniteSet(Waiters) /\ Cardinality(Waiters) \in Nat /\ Cardinality(Waiters) >= 1
  <2>1. Waiters # {}
    BY ExecutorAssumption DEF Workers
  <2>. QED BY <2>1, NotifierAssumption, FS_CardinalityType, FS_EmptySet
<1>2. 2 * Cardinality(Waiters) < EpochMod /\ EpochMod > 0 /\ EpochMod \in Nat
  BY <1>1, NotifierAssumption
<1>. QED BY <1>1, <1>2, NotifierAssumption, ExecutorAssumption DEF Threads, Workers

Pointers == [Waiters -> Waiters \cup {None}]

LEMMA LinkedNone == \A nx : LinkedBy(nx, None) = {}
BY DEF LinkedBy

\* The least set that has w and is closed.
LEMMA LinkedLeast ==
  ASSUME NEW nx \in Pointers, NEW w \in Waiters
  PROVE  /\ w \in LinkedBy(nx, w) /\ LinkedBy(nx, w) \subseteq Waiters
         /\ \A u \in LinkedBy(nx, w) : nx[u] \in LinkedBy(nx, w) \cup {None}
         /\ \A S \in SUBSET Waiters : w \in S /\ (\A u \in S : nx[u] \in S \cup {None}) =>
              LinkedBy(nx, w) \subseteq S
<1>1. w # None
  BY WaitersAre
<1>2. ASSUME NEW u \in LinkedBy(nx, w), nx[u] # None PROVE nx[u] \in LinkedBy(nx, w)
  <2>1. u \in Waiters /\ nx[u] \in Waiters
    BY <1>2 DEF LinkedBy, Pointers
  <2>2. ASSUME NEW S \in SUBSET Waiters, w \in S, \A x \in S : nx[x] \in S \cup {None}
        PROVE  nx[u] \in S
    <3>1. u \in S
      BY <2>2 DEF LinkedBy
    <3>. QED BY <1>2, <2>2, <3>1
  <2>. QED BY <1>1, <2>1, <2>2 DEF LinkedBy
<1>. QED BY <1>1, <1>2 DEF LinkedBy

LEMMA LinkedFrom ==
  ASSUME NEW nx \in Pointers, NEW w \in Waiters
  PROVE  LinkedBy(nx, w) = {w} \cup LinkedBy(nx, nx[w])
<1>1. w # None /\ nx[w] \in Waiters \cup {None}
  BY WaitersAre DEF Pointers
<1>. DEFINE L == LinkedBy(nx, nx[w])
<1>2. /\ L \subseteq Waiters /\ nx[w] \in L \cup {None}
      /\ \A u \in L : nx[u] \in L \cup {None}
  BY <1>1, LinkedLeast, LinkedNone
<1>3. LinkedBy(nx, w) \subseteq {w} \cup L
  <2>1. {w} \cup L \in SUBSET Waiters /\ \A u \in {w} \cup L : nx[u] \in ({w} \cup L) \cup {None}
    BY <1>2
  <2>. HIDE DEF L
  <2>2. PICK S \in SUBSET Waiters : S = {w} \cup L
    BY <2>1
  <2>3. w \in S /\ \A u \in S : nx[u] \in S \cup {None}
    BY <2>1, <2>2
  <2>4. LinkedBy(nx, w) \subseteq S
    BY <2>3, LinkedLeast
  <2>. QED BY <2>2, <2>4
<1>4. L \subseteq LinkedBy(nx, w)
  <2>1. nx[w] # None => nx[w] \in Waiters /\ nx[w] \in LinkedBy(nx, w)
    BY <1>1, LinkedLeast
  <2>2. nx[w] # None => LinkedBy(nx, nx[w]) \subseteq LinkedBy(nx, w)
    BY <2>1, LinkedLeast
  <2>. QED BY <2>2, LinkedNone
<1>. QED BY <1>3, <1>4, LinkedLeast

\* Only the pointers of the linked matter.
LEMMA LinkedAlike ==
  ASSUME NEW nx \in Pointers, NEW ny \in Pointers, NEW w \in Waiters \cup {None},
         \A u \in LinkedBy(nx, w) : ny[u] = nx[u]
  PROVE  LinkedBy(ny, w) = LinkedBy(nx, w)
<1>1. CASE w = None
  BY <1>1, LinkedNone
<1>2. CASE w \in Waiters
  <2>1. LinkedBy(ny, w) \subseteq LinkedBy(nx, w)
    <3>1. \A u \in LinkedBy(nx, w) : ny[u] \in LinkedBy(nx, w) \cup {None}
      BY <1>2, LinkedLeast
    <3>. QED BY <1>2, <3>1, LinkedLeast
  <2>2. LinkedBy(nx, w) \subseteq LinkedBy(ny, w)
    <3>1. \A u \in LinkedBy(ny, w) : nx[u] \in LinkedBy(ny, w) \cup {None}
      BY <1>2, <2>1, LinkedLeast
    <3>. QED BY <1>2, <3>1, LinkedLeast
  <2>. QED BY <2>1, <2>2
<1>. QED BY <1>1, <1>2

LEMMA LinkedWithin ==
  ASSUME NEW nx \in Pointers, NEW w \in Waiters \cup {None}, NEW v \in LinkedBy(nx, w)
  PROVE  LinkedBy(nx, v) \subseteq LinkedBy(nx, w) /\ LinkedBy(nx, nx[v]) \subseteq LinkedBy(nx, w)
<1>1. w \in Waiters
  BY LinkedNone
<1>2. v \in Waiters /\ LinkedBy(nx, v) \subseteq LinkedBy(nx, w)
  BY <1>1, LinkedLeast
<1>. QED BY <1>2, LinkedFrom

-----------------------------------------------------------------------------
(* Epochs.                                                                  *)

LEMMA Remainder ==
  ASSUME NEW m \in Nat, m > 0, NEW x \in Int
  PROVE  /\ 0 <= x /\ x < m => x % m = x
         /\ -m <= x /\ x < 0 => x % m = x + m
         /\ m <= x /\ x < 2 * m => x % m = x - m
<1>1. x = m * (x \div m) + (x % m) /\ x \div m \in Int /\ x % m \in 0 .. m - 1
  BY Z3
<1>2. PICK q \in Int : q = x \div m
  BY <1>1
<1>3. PICK r \in Int : r = x % m /\ 0 <= r /\ r < m /\ x = m * q + r
  BY <1>1, <1>2
<1>4. q >= 1 => m * q >= m
  BY <1>2
<1>5. q <= -1 => m * q <= -m
  BY <1>2
<1>6. q >= 2 => m * q >= 2 * m
  BY <1>2
<1>7. q <= -2 => m * q <= -2 * m
  BY <1>2
<1>8. m * 0 = 0 /\ m * 1 = m /\ m * (-1) = -m
  OBVIOUS
<1>9. 0 <= x /\ x < m => q = 0
  BY <1>3, <1>4, <1>5
<1>10. -m <= x /\ x < 0 => q = -1
  <2>. SUFFICES ASSUME -m <= x, x < 0 PROVE q = -1
    OBVIOUS
  <2>1. q < 0
    BY <1>3, <1>4, <1>8
  <2>2. q > -2
    BY <1>3, <1>7
  <2>. QED BY <2>1, <2>2
<1>11. m <= x /\ x < 2 * m => q = 1
  <2>. SUFFICES ASSUME m <= x, x < 2 * m PROVE q = 1
    OBVIOUS
  <2>1. q > 0
    BY <1>3, <1>5, <1>8
  <2>2. q < 2
    BY <1>3, <1>6
  <2>. QED BY <2>1, <2>2
<1>. QED BY <1>3, <1>8, <1>9, <1>10, <1>11

\* The lag of b behind a, and that it is the only one.
LEMMA LagIs ==
  ASSUME NEW a \in Epochs, NEW b \in Epochs
  PROVE  /\ Lag(a, b) \in Int /\ 2 * Lag(a, b) < EpochMod /\ -EpochMod <= 2 * Lag(a, b)
         /\ Lag(a, b) \in {a - b, a - b + EpochMod, a - b - EpochMod}
         /\ \A d \in Int : /\ 2 * d < EpochMod /\ -EpochMod <= 2 * d
                           /\ d \in {a - b, a - b + EpochMod, a - b - EpochMod}
                           => Lag(a, b) = d
<1>1. EpochMod \in Nat /\ EpochMod > 0 /\ a \in Nat /\ b \in Nat /\ a < EpochMod /\ b < EpochMod
  BY WaitersAre DEF Epochs
<1>2. PICK d \in Int : d = (a - b) % EpochMod
  <2>1. a - b \in Int
    BY <1>1
  <2>. QED BY <1>1, <2>1, Remainder
<1>3. d = IF a >= b THEN a - b ELSE a - b + EpochMod
  BY <1>1, <1>2, Remainder
<1>4. Lag(a, b) = IF 2 * d < EpochMod THEN d ELSE d - EpochMod
  BY <1>2 DEF Lag
<1>. QED BY <1>1, <1>3, <1>4

LEMMA EpochMoves ==
  ASSUME NEW a \in Epochs, NEW k \in Nat, k < EpochMod
  PROVE  (a + k) % EpochMod \in Epochs /\ (a + k) % EpochMod \in {a + k, a + k - EpochMod}
<1>1. EpochMod \in Nat /\ EpochMod > 0 /\ a \in Nat /\ a < EpochMod
  BY WaitersAre DEF Epochs
<1>2. a + k \in Int /\ 0 <= a + k /\ a + k < 2 * EpochMod
  BY <1>1
<1>3. (a + k) % EpochMod = IF a + k < EpochMod THEN a + k ELSE a + k - EpochMod
  BY <1>1, <1>2, Remainder
<1>. QED BY <1>1, <1>3 DEF Epochs

LEMMA LagMoves ==
  ASSUME NEW a \in Epochs, NEW b \in Epochs, NEW k \in Nat, k < EpochMod,
         2 * (Lag(a, b) + k) < EpochMod
  PROVE  Lag((a + k) % EpochMod, b) = Lag(a, b) + k
<1>1. PICK e \in Epochs : e = (a + k) % EpochMod /\ e \in {a + k, a + k - EpochMod}
  BY EpochMoves
<1>2. EpochMod \in Nat /\ EpochMod > 0 /\ a \in Nat /\ a < EpochMod /\ b \in Nat /\ b < EpochMod
      /\ e \in Nat /\ e < EpochMod
  BY WaitersAre DEF Epochs
<1>3. PICK d \in Int : d = Lag(a, b) /\ 2 * d < EpochMod /\ -EpochMod <= 2 * d
                       /\ d \in {a - b, a - b + EpochMod, a - b - EpochMod}
  BY LagIs
<1>4. 2 * (d + k) < EpochMod /\ -EpochMod <= 2 * (d + k)
  BY <1>2, <1>3
<1>5. d + k \in {e - b, e - b + EpochMod, e - b - EpochMod}
  BY <1>1, <1>2, <1>3, <1>4
<1>. QED BY <1>1, <1>3, <1>4, <1>5, LagIs

\* The ticket of the k-th in pre-wait.
LEMMA TicketLag ==
  ASSUME NEW a \in Epochs, NEW k \in Nat, 2 * k < EpochMod
  PROVE  Lag(a, (a + k) % EpochMod) = -k
<1>0. k < EpochMod
  BY WaitersAre
<1>1. PICK e \in Epochs : e = (a + k) % EpochMod /\ e \in {a + k, a + k - EpochMod}
  BY <1>0, EpochMoves
<1>2. EpochMod \in Nat /\ EpochMod > 0 /\ a \in Nat /\ a < EpochMod
  BY WaitersAre DEF Epochs
<1>3. -k \in {a - e, a - e + EpochMod, a - e - EpochMod}
  BY <1>1, <1>2
<1>. QED BY <1>1, <1>2, <1>3, LagIs

LEMMA TicketIs ==
  ASSUME NEW a \in Epochs, NEW b \in Epochs, NEW k \in Nat, k < EpochMod, Lag(a, b) = -k
  PROVE  b = (a + k) % EpochMod
<1>1. PICK e \in Epochs : e = (a + k) % EpochMod /\ e \in {a + k, a + k - EpochMod}
  BY EpochMoves
<1>2. EpochMod \in Nat /\ EpochMod > 0 /\ a \in Nat /\ a < EpochMod /\ b \in Nat /\ b < EpochMod
      /\ e \in Nat /\ e < EpochMod
  BY WaitersAre DEF Epochs
<1>3. -k \in {a - b, a - b + EpochMod, a - b - EpochMod}
  BY LagIs
<1>. QED BY <1>1, <1>2, <1>3

-----------------------------------------------------------------------------
(* What the executor does to the notifier: nothing, a step inside a call,   *)
(* or the beginning of a call by a thread that is in none.                  *)

SameWaits == \A w \in Workers : Waits(w)' <=> Waits(w)
Sober == \A w \in Workers : pc[w] \in Predicates => npc[w] = "out"

Begins ==
  \E w \in Workers :
    /\ npc[w] = "out" /\ ~Waits(w) /\ PrepareWait(w) /\ Waits(w)'
    /\ \A v \in Workers \ {w} : Waits(v)' <=> Waits(v)
Decides ==
  \E w \in Workers :
    /\ npc[w] = "out" /\ Waits(w) /\ (CancelWait(w) \/ CommitWait(w)) /\ SameWaits
    /\ CheckShared(w) \/ CheckDone(w) \/ Scan(w)
Rouses ==
  \E t \in Threads : npc[t] = "out" /\ SameWaits
                     /\ ((\E a \in BOOLEAN : Notify(t, a)) \/ \E n \in Nat : NotifyN(t, n))
Inside == \E t \in Threads : NotifierStep(t) /\ pc' = pc
Without == UNCHANGED notifierVars /\ SameWaits

\* Thread t goes on, starting no call or one of notify.
LEMMA Onward ==
  ASSUME Sober, pc \in [Threads -> Whereabouts], NEW t \in Threads, npc[t] = "out",
         npc \in [Threads -> {"out"} \cup WaiterPlaces \cup NotifyPlaces],
         pc[t] \in Predicates <=> pc'[t] \in Predicates,
         \A v \in Threads : v # t => pc'[v] = pc[v],
         \/ UNCHANGED notifierVars
         \/ pc[t] \notin Predicates /\ \E a \in BOOLEAN : Notify(t, a)
         \/ pc[t] \notin Predicates /\ \E n \in Nat : NotifyN(t, n)
  PROVE  Sober' /\ (Without \/ Rouses)
<1>1. UNCHANGED notifierVars \/ npc' = [npc EXCEPT ![t] = "load"]
  BY DEF Notify, NotifyN, NGoto
<1>2. \A v \in Threads : v # t => npc'[v] = npc[v]
  BY <1>1 DEF notifierVars
<1>3. npc'[t] = "out" \/ (npc'[t] = "load" /\ pc[t] \notin Predicates)
  BY DEF notifierVars, Notify, NotifyN, NGoto
<1>4. \A v \in Workers : v \in Threads
  BY DEF Threads
<1>5. \A v \in Workers : Waits(v)' <=> Waits(v)
  BY <1>2, <1>3, <1>4 DEF Waits, At, Predicates
<1>6. Sober'
  BY <1>2, <1>3, <1>4 DEF Sober
<1>. QED BY <1>5, <1>6 DEF Without, Rouses, SameWaits

LEMMA Moves ==
  ASSUME Types, NotifierTypes, Sober, [Next]_vars
  PROVE  Sober' /\ (Inside \/ Without \/ Begins \/ Decides \/ Rouses)
<1>1. /\ pc \in [Threads -> Whereabouts] /\ \A w \in Workers : w \in Threads
      /\ npc \in [Threads -> {"out"} \cup WaiterPlaces \cup NotifyPlaces] /\ Owner \in Threads
      /\ Callers = Threads
  BY WaitersAre DEF Types, NotifierTypes, Threads
<1>2. ASSUME NEW t \in Threads, InNotifier(t) PROVE Sober' /\ Inside
  <2>1. npc[t] # "out" /\ (pc' = pc) /\ \A v \in Threads : v # t => npc'[v] = npc[v]
    BY <1>1, <1>2 DEF InNotifier, executorVars, NotifierStep, Notified, CancelInTurn, CommitInTurn, Park,
              Unparked, LoadNobody, Load, ReadNext, ExchangeFails, NotifyAll, NotifyPrewait,
              NotifyPop, Detach, Unpark, NGoto, Leave
  <2>. QED BY <1>1, <1>2, <2>1 DEF Sober, InNotifier, Inside
\* The owner.
<1>3. CASE Submit \/ Unlock \/ Cancel \/ ShutDown \/ Join
  <2>1. npc[Owner] = "out" /\ pc[Owner] \notin Predicates /\ pc'[Owner] \notin Predicates
    BY <1>1, <1>3 DEF Submit, Unlock, Cancel, ShutDown, Join, At, Goto, Predicates
  <2>2. \A v \in Threads : v # Owner => pc'[v] = pc[v]
    BY <1>1, <1>3 DEF Submit, Unlock, Cancel, ShutDown, Join, Goto
  <2>3. \/ UNCHANGED notifierVars
        \/ \E a \in BOOLEAN : Notify(Owner, a)
        \/ \E n \in Nat : NotifyN(Owner, n)
    <3>1. Len(Sources) \in Nat
      BY SourcesAre, LenProperties
    <3>. QED BY <1>3, <3>1 DEF Submit, Unlock, Cancel, ShutDown, Join
  <2>. QED BY <1>1, <2>1, <2>2, <2>3, Onward
<1>4. CASE Stopped \/ UNCHANGED vars
  <2>1. UNCHANGED notifierVars /\ pc' = pc
    BY <1>4 DEF Stopped, vars, executorVars
  <2>. QED BY <2>1 DEF notifierVars, Without, SameWaits, Waits, At, Sober
<1>5. ASSUME NEW w \in Workers, pc[w] \notin Predicates, pc'[w] \notin Predicates, npc[w] = "out",
             \A v \in Threads : v # w => pc'[v] = pc[v],
             UNCHANGED notifierVars \/ \E a \in BOOLEAN : Notify(w, a)
      PROVE  Sober' /\ (Without \/ Rouses)
  BY <1>1, <1>5, Onward
\* A worker's step that is not part of its two-phase wait.
<1>6. ASSUME NEW w \in Workers,
             \/ Steal(w) \/ Retry(w) \/ Exit(w) \/ SkipCancelled(w) \/ Invoke(w) \/ Successor(w)
             \/ TearDown(w) \/ Pop(w) \/ RunAgain(w) \/ RunNext(w) \/ Finish(w) \/ Decrement(w)
             \/ Schedule(w)
      PROVE  Sober' /\ (Without \/ Rouses)
  <2>1. pc[w] \notin Predicates /\ npc[w] = "out"
    BY <1>6 DEF Steal, Retry, Exit, SkipCancelled, Invoke, Successor, TearDown, Pop, RunAgain,
                RunNext, Finish, Decrement, Schedule, At, Predicates
  <2>2. pc' = pc \/ \E place \in Whereabouts \ Predicates : pc' = [pc EXCEPT ![w] = place]
    <3>1. CASE Steal(w) \/ Retry(w) \/ Exit(w) \/ Finish(w) \/ Decrement(w) \/ Schedule(w)
      BY <3>1 DEF Steal, Retry, Exit, Finish, Decrement, Schedule, StealFrom, Goto, Whereabouts, Predicates
    <3>2. CASE SkipCancelled(w) \/ Invoke(w) \/ Successor(w) \/ TearDown(w) \/ Pop(w) \/ RunAgain(w) \/ RunNext(w)
      BY <3>2 DEF SkipCancelled, Invoke, Successor, TearDown, Pop, RunAgain, RunNext, NextTask, Goto,
                  Whereabouts, Predicates
    <3>. QED BY <1>6, <3>1, <3>2
  <2>3. UNCHANGED notifierVars \/ \E a \in BOOLEAN : Notify(w, a)
    <3>1. CASE Steal(w) \/ Retry(w) \/ Exit(w) \/ Finish(w) \/ Decrement(w) \/ Schedule(w)
      BY <3>1 DEF Steal, Retry, Exit, Finish, Decrement, Schedule, StealFrom
    <3>2. CASE SkipCancelled(w) \/ Invoke(w) \/ Successor(w) \/ TearDown(w) \/ Pop(w) \/ RunAgain(w) \/ RunNext(w)
      BY <3>2 DEF SkipCancelled, Invoke, Successor, TearDown, Pop, RunAgain, RunNext
    <3>. QED BY <1>6, <3>1, <3>2
  <2>4. pc'[w] \notin Predicates /\ \A v \in Threads : v # w => pc'[v] = pc[v]
    BY <1>1, <2>1, <2>2
  <2>. QED BY <1>5, <2>1, <2>3, <2>4
\* Its two-phase wait.
<1>7. ASSUME NEW w \in Workers, GiveUp(w) PROVE Sober' /\ Begins
  <2>1. /\ npc[w] = "out" /\ pc[w] = "explore" /\ pc' = [pc EXCEPT ![w] = "checkShared"]
        /\ PrepareWait(w) /\ npc' = npc
    BY <1>7 DEF GiveUp, At, Goto, PrepareWait
  <2>2. pc'[w] = "checkShared" /\ \A v \in Threads : v # w => pc'[v] = pc[v]
    BY <1>1, <2>1
  <2>3. ~Waits(w) /\ Waits(w)' /\ \A v \in Workers \ {w} : Waits(v)' <=> Waits(v)
    BY <1>1, <2>1, <2>2 DEF Waits, At
  <2>. QED BY <1>1, <2>1, <2>2, <2>3 DEF Begins, Sober
<1>8. ASSUME NEW w \in Workers, CheckShared(w) \/ CheckDone(w) \/ Scan(w)
      PROVE  Sober' /\ (Without \/ Decides)
  <2>1. /\ npc[w] = "out" /\ pc[w] \in Predicates
        /\ \/ UNCHANGED notifierVars
              /\ (pc' = pc \/ \E place \in Predicates : pc' = [pc EXCEPT ![w] = place])
           \/ (CancelWait(w) \/ CommitWait(w))
              /\ \E place \in {"retry", "leave", "explore"} : pc' = [pc EXCEPT ![w] = place]
    BY <1>8 DEF CheckShared, CheckDone, Scan, SeesTask, At, Goto, Predicates
  <2>2. Waits(w)
    BY <2>1 DEF Waits, At, Predicates
  <2>3. CASE UNCHANGED notifierVars
             /\ (pc' = pc \/ \E place \in Predicates : pc' = [pc EXCEPT ![w] = place])
    <3>1. pc'[w] \in Predicates /\ \A v \in Threads : v # w => pc'[v] = pc[v]
      BY <1>1, <2>1, <2>3
    <3>. QED BY <1>1, <2>1, <2>3, <3>1 DEF Without, SameWaits, Sober, Waits, At, Predicates, notifierVars
  <2>4. CASE (CancelWait(w) \/ CommitWait(w))
             /\ \E place \in {"retry", "leave", "explore"} : pc' = [pc EXCEPT ![w] = place]
    <3>1. npc'[w] \in {"cancel", "commit"} /\ \A v \in Threads : v # w => npc'[v] = npc[v]
      BY <1>1, <2>4 DEF CancelWait, CommitWait, NGoto
    <3>2. pc'[w] \notin Predicates /\ \A v \in Threads : v # w => pc'[v] = pc[v]
      BY <1>1, <2>4 DEF Predicates
    <3>3. SameWaits
      BY <1>1, <2>2, <3>1, <3>2 DEF SameWaits, Waits, At
    <3>. QED BY <1>1, <1>8, <2>1, <2>2, <2>4, <3>1, <3>2, <3>3 DEF Decides, Sober
  <2>. QED BY <2>1, <2>3, <2>4
<1>. QED BY <1>1, <1>2, <1>3, <1>4, <1>6, <1>7, <1>8 DEF Next, Own, Work

-----------------------------------------------------------------------------
(* Tickets.                                                                 *)

LEMMA PrewaitersAre == Prewaiters = {w \in Workers : Waits(w) /\ Turn(w) <= 0}
BY DEF Prewaiters, Waits

LEMMA PrewaitersAreNext == Prewaiters' = {w \in Workers : Waits(w)' /\ Turn(w)' <= 0}
BY DEF Prewaiters, Waits, Turn, At, Lag

LEMMA TurnIs == NotifierTypes => \A w \in Workers : Turn(w) \in Int
<1>. SUFFICES ASSUME NotifierTypes, NEW w \in Workers PROVE Turn(w) \in Int
  OBVIOUS
<1>1. _state.epoch \in Epochs /\ epoch[w] \in Epochs
  BY WaitersAre DEF NotifierTypes, States
<1>. QED BY <1>1, LagIs DEF Turn

LEMMA Counted ==
  NotifierTypes /\ Tickets =>
    /\ Cardinality(Prewaiters) = _state.waiters /\ _state.waiters \in Nat
    /\ _state.waiters <= Cardinality(Waiters)
    /\ \A w \in Workers : w \notin Prewaiters => _state.waiters < Cardinality(Waiters)
<1>. SUFFICES ASSUME NotifierTypes, Tickets
              PROVE  /\ Cardinality(Prewaiters) = _state.waiters /\ _state.waiters \in Nat
                     /\ _state.waiters <= Cardinality(Waiters)
                     /\ \A w \in Workers : w \notin Prewaiters => _state.waiters < Cardinality(Waiters)
  OBVIOUS
<1>1. PICK n \in Nat : n = _state.waiters
  BY DEF NotifierTypes, States
<1>2. Prewaiters \subseteq Waiters /\ IsFiniteSet(Prewaiters)
  BY WaitersAre, PrewaitersAre, FS_Subset
<1>. DEFINE f == [w \in Prewaiters |-> -Turn(w)]
<1>3. \A w \in Prewaiters : Turn(w) \in Int /\ -Turn(w) \in 0 .. n - 1
  BY <1>1, PrewaitersAre, TurnIs DEF Tickets
<1>4. \A v, w \in Prewaiters : f[v] = f[w] => v = w
  BY <1>3 DEF Tickets
<1>5. \A k \in 0 .. n - 1 : \E w \in Prewaiters : f[w] = k
  BY <1>1, <1>3 DEF Tickets
<1>6. f \in Bijection(Prewaiters, 0 .. n - 1)
  BY <1>3, <1>4, <1>5 DEF Bijection, Injection, Surjection, IsInjective
<1>. HIDE DEF f
<1>7. Cardinality(Prewaiters) = Cardinality(0 .. n - 1)
  BY <1>2, <1>6, FS_Bijection DEF ExistsBijection
<1>8. Cardinality(0 .. n - 1) = n
  BY FS_Interval
<1>9. n <= Cardinality(Waiters)
  BY <1>2, <1>7, <1>8, WaitersAre, FS_Subset
<1>10. ASSUME NEW w \in Workers, w \notin Prewaiters PROVE n < Cardinality(Waiters)
  <2>1. w \in Waiters /\ Prewaiters \subseteq Waiters \ {w} /\ IsFiniteSet(Waiters \ {w})
        /\ Cardinality(Waiters \ {w}) = Cardinality(Waiters) - 1
    BY <1>2, <1>10, WaitersAre, FS_RemoveElement
  <2>2. Cardinality(Prewaiters) <= Cardinality(Waiters \ {w})
    BY <2>1, FS_Subset
  <2>. QED BY <1>7, <1>8, <2>1, <2>2, WaitersAre
<1>. QED BY <1>1, <1>7, <1>8, <1>9, <1>10

\* The epoch goes on by k: so does everyone's turn, ...
LEMMA TurnMoves ==
  ASSUME NotifierTypes, NotifierTypes', Tickets, Punctual,
         NEW k \in 0 .. _state.waiters, _state'.epoch = (_state.epoch + k) % EpochMod,
         NEW w \in Workers, Waits(w), epoch'[w] = epoch[w]
  PROVE  Turn(w)' = Turn(w) + k
<1>1. k \in Nat /\ k <= Cardinality(Waiters)
  <2>1. _state.waiters \in Nat /\ _state.waiters <= Cardinality(Waiters)
    BY Counted
  <2>. QED BY <2>1, WaitersAre
<1>2. _state.epoch \in Epochs /\ epoch[w] \in Epochs
  BY WaitersAre DEF NotifierTypes, States
<1>3. PICK d \in Int : d = Lag(_state.epoch, epoch[w])
  BY <1>2, LagIs
<1>4. 2 * (d + Cardinality(Waiters)) < EpochMod
  BY <1>3 DEF Punctual, Prompt, Turn
<1>5. k < EpochMod /\ 2 * (d + k) < EpochMod
  BY <1>1, <1>3, <1>4, WaitersAre
<1>6. Lag((_state.epoch + k) % EpochMod, epoch[w]) = d + k
  BY <1>1, <1>2, <1>3, <1>5, LagMoves
<1>. QED BY <1>3, <1>6 DEF Turn, Lag

\* ... and how far a notifier is behind.
LEMMA BehindMoves ==
  ASSUME NotifierTypes, NotifierTypes', Tickets, Punctual,
         NEW k \in 0 .. _state.waiters, _state'.epoch = (_state.epoch + k) % EpochMod,
         NEW t \in Threads, npc[t] \in {"readNext", "exchange"}, seen'[t] = seen[t]
  PROVE  Behind(t) \in Int /\ Behind(t)' = Behind(t) + k
<1>1. k \in Nat /\ k <= Cardinality(Waiters)
  <2>1. _state.waiters \in Nat /\ _state.waiters <= Cardinality(Waiters)
    BY Counted
  <2>. QED BY <2>1, WaitersAre
<1>2. _state.epoch \in Epochs /\ seen[t].epoch \in Epochs
  BY DEF NotifierTypes, States
<1>3. PICK d \in Int : d = Lag(_state.epoch, seen[t].epoch)
  BY <1>2, LagIs
<1>4. 2 * (d + Cardinality(Waiters)) < EpochMod
  BY <1>3 DEF Punctual, Prompt, Behind
<1>5. k < EpochMod /\ 2 * (d + k) < EpochMod
  BY <1>1, <1>3, <1>4, WaitersAre
<1>6. Lag((_state.epoch + k) % EpochMod, seen[t].epoch) = d + k
  BY <1>1, <1>2, <1>3, <1>5, LagMoves
<1>. QED BY <1>3, <1>6 DEF Behind, Lag

\* The k whose turn it is, or would be next, are notified or leave.
LEMMA TicketsMove ==
  ASSUME NotifierTypes, NotifierTypes', Tickets, Punctual, Sober',
         NEW k \in 0 .. _state.waiters, _state'.epoch = (_state.epoch + k) % EpochMod,
         _state'.waiters = _state.waiters - k,
         \A w \in Workers : Waits(w)' => Waits(w) /\ epoch'[w] = epoch[w],
         \A w \in Workers : Waits(w) /\ ~Waits(w)' => Turn(w) + k > 0
  PROVE  Tickets'
<1>1. PICK n \in Nat : n = _state.waiters
  BY DEF NotifierTypes, States
<1>2. \A w \in Workers : Turn(w) \in Int
  BY TurnIs
<1>3. \A w \in Workers : Waits(w)' => Turn(w)' = Turn(w) + k
  BY TurnMoves
<1>4. Prewaiters' = {w \in Prewaiters : Turn(w) + k <= 0}
  <2>1. \A w \in Workers : Turn(w) + k <= 0 => Turn(w) <= 0
    BY <1>1, <1>2
  <2>2. \A w \in Workers : Waits(w)' /\ Turn(w)' <= 0 <=> Waits(w) /\ Turn(w) + k <= 0
    BY <1>1, <1>2, <1>3
  <2>. QED BY <2>1, <2>2, PrewaitersAre, PrewaitersAreNext
<1>5. \A w \in Prewaiters' : w \in Prewaiters /\ w \in Workers /\ Turn(w)' = Turn(w) + k
  <2>1. \A w \in Prewaiters' : w \in Workers /\ Waits(w)'
    BY PrewaitersAreNext
  <2>. QED BY <1>3, <1>4, <2>1
<1>6. \A w \in Prewaiters' : Turn(w)' > -(n - k)
  <2>1. \A w \in Prewaiters : Turn(w) > -n
    BY <1>1 DEF Tickets
  <2>. QED BY <1>1, <1>2, <1>5, <2>1
<1>7. \A v, w \in Prewaiters' : Turn(v)' = Turn(w)' => v = w
  <2>1. \A v, w \in Prewaiters : Turn(v) = Turn(w) => v = w
    BY DEF Tickets
  <2>. QED BY <1>1, <1>2, <1>5, <2>1
<1>8. ASSUME NEW j \in 0 .. n - k - 1 PROVE \E w \in Prewaiters' : Turn(w)' = -j
  <2>1. j + k \in 0 .. n - 1
    BY <1>1
  <2>2. PICK w \in Prewaiters : Turn(w) = -(j + k)
    BY <1>1, <2>1 DEF Tickets
  <2>3. w \in Prewaiters'
    BY <1>1, <1>4, <2>2
  <2>. QED BY <1>1, <1>5, <2>2, <2>3
<1>9. _state'.waiters = n - k
  BY <1>1
<1>. QED BY <1>6, <1>7, <1>8, <1>9 DEF Tickets, Sober

LEMMA TicketsBegin ==
  ASSUME NotifierTypes, NotifierTypes', Tickets, Punctual, Begins, Sober'
  PROVE  Tickets'
<1>1. PICK n \in Nat : n = _state.waiters
  BY DEF NotifierTypes, States
<1>2. PICK w \in Workers :
        /\ ~Waits(w) /\ PrepareWait(w) /\ Waits(w)'
        /\ \A v \in Workers \ {w} : Waits(v)' <=> Waits(v)
  BY DEF Begins
<1>3. /\ epoch' = [epoch EXCEPT ![w] = (_state.epoch + n) % EpochMod]
      /\ _state' = [_state EXCEPT !.waiters = n + 1]
  BY <1>1, <1>2 DEF PrepareWait
<1>4. /\ _state.epoch \in Epochs /\ _state'.epoch = _state.epoch /\ _state'.waiters = n + 1
      /\ w \in DOMAIN epoch /\ \A v \in Workers \ {w} : epoch'[v] = epoch[v]
  BY <1>3, WaitersAre DEF NotifierTypes, States
<1>5. w \notin Prewaiters /\ n < Cardinality(Waiters)
  BY <1>1, <1>2, PrewaitersAre, Counted
<1>6. 2 * n < EpochMod
  BY <1>5, WaitersAre
<1>7. Turn(w)' = -n
  <2>1. epoch'[w] = (_state.epoch + n) % EpochMod
    BY <1>3, <1>4
  <2>2. Lag(_state.epoch, (_state.epoch + n) % EpochMod) = -n
    BY <1>4, <1>6, TicketLag
  <2>. QED BY <1>4, <2>1, <2>2 DEF Turn, Lag
<1>8. \A v \in Workers \ {w} : Turn(v)' = Turn(v)
  BY <1>4 DEF Turn, Lag
<1>9. \A v \in Workers : Turn(v) \in Int
  BY TurnIs
<1>10. Prewaiters' = Prewaiters \cup {w}
  <2>1. Turn(w)' <= 0
    BY <1>7
  <2>. QED BY <1>2, <1>5, <1>8, <2>1, PrewaitersAre, PrewaitersAreNext
<1>11. /\ \A v \in Prewaiters : v \in Workers \ {w} /\ Turn(v)' = Turn(v) /\ Turn(v) > -n
  BY <1>1, <1>5, <1>8, PrewaitersAre DEF Tickets
<1>12. \A v \in Prewaiters' : Turn(v)' > -(n + 1)
  BY <1>7, <1>9, <1>10, <1>11
<1>13. \A u, v \in Prewaiters' : Turn(u)' = Turn(v)' => u = v
  <2>1. \A u, v \in Prewaiters : Turn(u)' = Turn(v)' => u = v
    BY <1>11 DEF Tickets
  <2>2. \A v \in Prewaiters : Turn(v)' # Turn(w)'
    BY <1>7, <1>9, <1>11
  <2>. QED BY <1>10, <2>1, <2>2
<1>14. \A k \in 0 .. n : \E v \in Prewaiters' : Turn(v)' = -k
  <2>1. \A k \in 0 .. n - 1 : \E v \in Prewaiters : Turn(v) = -k
    BY <1>1 DEF Tickets
  <2>2. \A k \in 0 .. n : k = n \/ k \in 0 .. n - 1
    BY <1>1
  <2>. QED BY <1>7, <1>10, <1>11, <2>1, <2>2
<1>15. \A k \in 0 .. (n + 1) - 1 : k \in 0 .. n
  OBVIOUS
<1>. QED BY <1>4, <1>12, <1>13, <1>14, <1>15 DEF Tickets, Sober

LEMMA TicketsOrdered == NotifierTypes /\ Tickets => TicketsInOrder
<1>. SUFFICES ASSUME NotifierTypes, Tickets PROVE TicketsInOrder
  OBVIOUS
<1>1. PICK n \in Nat : n = _state.waiters /\ n <= Cardinality(Waiters)
  BY Counted
<1>2. /\ _state.epoch \in Epochs /\ \A w \in Prewaiters : w \in Workers /\ epoch[w] \in Epochs
  BY WaitersAre, PrewaitersAre DEF NotifierTypes, States
<1>3. \A k \in 0 .. n - 1 : k \in Nat /\ k < EpochMod
  BY <1>1, WaitersAre
<1>4. ASSUME NEW w \in Prewaiters, NEW k \in 0 .. n - 1, Turn(w) = -k
      PROVE  epoch[w] = (_state.epoch + k) % EpochMod
  BY <1>2, <1>3, <1>4, TicketIs DEF Turn
<1>5. \A k \in 0 .. n - 1 : \E w \in Prewaiters : Turn(w) = -k
  BY <1>1 DEF Tickets
<1>6. \A w \in Prewaiters : \E k \in 0 .. n - 1 : Turn(w) = -k
  <2>. SUFFICES ASSUME NEW w \in Prewaiters PROVE \E k \in 0 .. n - 1 : Turn(w) = -k
    OBVIOUS
  <2>1. Turn(w) \in Int /\ Turn(w) > -n /\ Turn(w) <= 0
    BY <1>1, PrewaitersAre, TurnIs DEF Tickets
  <2>2. -Turn(w) \in 0 .. n - 1 /\ Turn(w) = -(-Turn(w))
    BY <1>1, <2>1
  <2>. QED BY <2>2
<1>7. {(_state.epoch + k) % EpochMod : k \in 0 .. n - 1} = {epoch[w] : w \in Prewaiters}
  BY <1>4, <1>5, <1>6
<1>. QED BY <1>1, <1>7, Counted DEF TicketsInOrder

-----------------------------------------------------------------------------
(* The types of the notifier's variables.                                   *)

LEMMA LeavingPrewait ==
  ASSUME NotifierTypes, _state.waiters > 0
  PROVE  /\ LeavePrewait(_state) \in States /\ LeavePrewait(_state).stack = _state.stack
         /\ LeavePrewait(_state).epoch = (_state.epoch + 1) % EpochMod
         /\ LeavePrewait(_state).waiters = _state.waiters - 1
<1>1. _state \in States /\ _state.epoch \in Epochs
  BY DEF NotifierTypes, States
<1>2. (_state.epoch + 1) % EpochMod \in Epochs
  <2>1. 1 < EpochMod
    BY WaitersAre
  <2>. QED BY <1>1, <2>1, EpochMoves
<1>3. _state.waiters - 1 \in Nat
  BY <1>1 DEF States
<1>. QED BY <1>1, <1>2, <1>3 DEF LeavePrewait, States

LEMMA NothingIs == Nothing \in States
BY WaitersAre DEF Nothing, States, Epochs

\* A prewaiter whose turn it is is counted.
LEMMA InTurn ==
  ASSUME NotifierTypes, Tickets, NEW w \in Waiters, npc[w] \in {"cancel", "commit"}, Turn(w) = 0
  PROVE  _state.waiters > 0 /\ w \in Workers /\ Waits(w)
<1>1. w \in Workers /\ Waits(w) /\ w \in Prewaiters
  BY WaitersAre, PrewaitersAre DEF Waits
<1>2. _state.waiters \in Nat
  BY DEF NotifierTypes, States
<1>3. Turn(w) > -_state.waiters
  BY <1>1 DEF Tickets
<1>4. 0 > -_state.waiters
  BY <1>3
<1>. QED BY <1>1, <1>2, <1>4

LEMMA GoesTo ==
  ASSUME NotifierTypes, NEW t \in Threads, NEW p \in {"out"} \cup WaiterPlaces \cup NotifyPlaces,
         p \in WaiterPlaces => t \in Waiters, npc' = [npc EXCEPT ![t] = p]
  PROVE  /\ npc' \in [Threads -> {"out"} \cup WaiterPlaces \cup NotifyPlaces]
         /\ \A v \in Threads : npc'[v] \in WaiterPlaces => v \in Waiters
         /\ npc'[t] = p /\ \A v \in Threads : v # t => npc'[v] = npc[v]
BY DEF NotifierTypes

LEMMA Leaves ==
  ASSUME NotifierTypes, NEW t \in Threads, Leave(t)
  PROVE  /\ npc' \in [Threads -> {"out"} \cup WaiterPlaces \cup NotifyPlaces]
         /\ \A v \in Threads : npc'[v] \in WaiterPlaces => v \in Waiters
         /\ npc'[t] \in {"out", "load"} /\ \A v \in Threads : v # t => npc'[v] = npc[v]
         /\ seen' \in [Threads -> States] /\ hold' \in [Threads -> Waiters \cup {None}]
         /\ all' \in [Threads -> BOOLEAN] /\ times' \in [Threads -> Int]
         /\ \A v \in Threads : v # t => seen'[v] = seen[v] /\ hold'[v] = hold[v] /\ all'[v] = all[v]
<1>1. PICK p \in {"out", "load"} : npc' = [npc EXCEPT ![t] = p]
  BY DEF Leave, NGoto
<1>2. p \in {"out"} \cup WaiterPlaces \cup NotifyPlaces /\ p \notin WaiterPlaces
  BY DEF WaiterPlaces, NotifyPlaces
<1>3. /\ npc' \in [Threads -> {"out"} \cup WaiterPlaces \cup NotifyPlaces]
      /\ \A v \in Threads : npc'[v] \in WaiterPlaces => v \in Waiters
      /\ npc'[t] = p /\ \A v \in Threads : v # t => npc'[v] = npc[v]
  BY <1>1, <1>2, GoesTo
<1>4. seen' \in [Threads -> States] /\ \A v \in Threads : v # t => seen'[v] = seen[v]
  BY NothingIs DEF Leave, NotifierTypes
<1>5. /\ hold' \in [Threads -> Waiters \cup {None}] /\ all' \in [Threads -> BOOLEAN]
      /\ times' \in [Threads -> Int]
      /\ \A v \in Threads : v # t => hold'[v] = hold[v] /\ all'[v] = all[v]
  BY DEF Leave, NotifierTypes
<1>. QED BY <1>1, <1>3, <1>4, <1>5

Waking == {"readNext", "exchange"}

\* What a notifier finds at its places.
LEMMA Seen ==
  ASSUME NotifierTypes, Glimpse, NEW t \in Threads, npc[t] \in Waking
  PROVE  /\ seen[t] \in States /\ seen[t].epoch \in Epochs /\ seen[t].waiters \in Nat
         /\ seen[t].stack \in Waiters /\ ~all[t] /\ seen[t].waiters = 0
<1>1. seen[t] \in States
  BY DEF NotifierTypes
<1>2. seen[t].stack # None /\ ~all[t] /\ seen[t].waiters = 0
  BY DEF Glimpse, Waking
<1>. QED BY <1>1, <1>2 DEF States

LEMMA InsideTypes ==
  ASSUME NotifierTypes, Tickets, Lists, Glimpse, NEW t \in Threads, NotifierStep(t)
  PROVE  NotifierTypes'
<1>0. \A w \in Waiters : w \in Threads
  BY WaitersAre
<1>1. CASE t \in Waiters /\ (Notified(t) \/ Park(t) \/ Unparked(t))
  <2>1. PICK p \in {"out", "parked"} : npc' = [npc EXCEPT ![t] = p]
    BY <1>1 DEF Notified, Park, Unparked, NGoto
  <2>2. p \in {"out"} \cup WaiterPlaces \cup NotifyPlaces
    BY DEF WaiterPlaces
  <2>3. /\ npc' \in [Threads -> {"out"} \cup WaiterPlaces \cup NotifyPlaces]
        /\ \A v \in Threads : npc'[v] \in WaiterPlaces => v \in Waiters
    BY <1>1, <2>1, <2>2, GoesTo
  <2>4. epoch' \in [Waiters -> Epochs] /\ signal' \in [Waiters -> {"kNotSignaled", "kWaiting", "kSignaled"}]
    BY <1>1, WaitersAre DEF Notified, Park, Unparked, Forget, waiting, NotifierTypes, Epochs
  <2>. QED BY <1>1, <2>3, <2>4 DEF Notified, Park, Unparked, waiting, notifying, NotifierTypes
<1>2. CASE t \in Waiters /\ (CancelInTurn(t) \/ CommitInTurn(t))
  <2>1. PICK p \in {"out", "park"} : npc' = [npc EXCEPT ![t] = p]
    BY <1>2 DEF CancelInTurn, CommitInTurn, NGoto
  <2>2. p \in {"out"} \cup WaiterPlaces \cup NotifyPlaces
    BY DEF WaiterPlaces
  <2>3. /\ npc' \in [Threads -> {"out"} \cup WaiterPlaces \cup NotifyPlaces]
        /\ \A v \in Threads : npc'[v] \in WaiterPlaces => v \in Waiters
    BY <1>2, <2>1, <2>2, GoesTo
  <2>4. epoch' \in [Waiters -> Epochs]
    BY <1>2, WaitersAre DEF CancelInTurn, CommitInTurn, Forget, NotifierTypes, Epochs
  <2>5. LeavePrewait(_state) \in States
    BY <1>2, InTurn, LeavingPrewait DEF CancelInTurn, CommitInTurn
  <2>6. _state' \in States /\ next' \in [Waiters -> Waiters \cup {None}]
    <3>1. [LeavePrewait(_state) EXCEPT !.stack = t] \in States
      BY <1>2, <2>5 DEF States
    <3>2. next' = next \/ next' = [next EXCEPT ![t] = _state.stack]
      BY <1>2 DEF CancelInTurn, CommitInTurn
    <3>3. _state.stack \in Waiters \cup {None}
      BY DEF NotifierTypes, States
    <3>. QED BY <1>2, <2>5, <3>1, <3>2, <3>3 DEF CancelInTurn, CommitInTurn, NotifierTypes
  <2>. QED BY <1>2, <2>3, <2>4, <2>6 DEF CancelInTurn, CommitInTurn, notifying, NotifierTypes
<1>3. CASE LoadNobody(t)
  <2>1. Leave(t)
    BY <1>3 DEF LoadNobody
  <2>. QED BY <1>3, <2>1, Leaves DEF LoadNobody, waiting, NotifierTypes
<1>4. CASE Load(t) \/ ReadNext(t) \/ ExchangeFails(t)
  <2>1. PICK p \in {"load", "readNext", "exchange"} : npc' = [npc EXCEPT ![t] = p]
    BY <1>4 DEF Load, ReadNext, ExchangeFails, NGoto
  <2>2. p \in {"out"} \cup WaiterPlaces \cup NotifyPlaces /\ p \notin WaiterPlaces
    BY DEF WaiterPlaces, NotifyPlaces
  <2>3. /\ npc' \in [Threads -> {"out"} \cup WaiterPlaces \cup NotifyPlaces]
        /\ \A v \in Threads : npc'[v] \in WaiterPlaces => v \in Waiters
    BY <2>1, <2>2, GoesTo
  <2>4. seen' \in [Threads -> States]
    BY <1>4, NothingIs DEF Load, ReadNext, ExchangeFails, NotifierTypes
  <2>5. hold' \in [Threads -> Waiters \cup {None}]
    <3>1. CASE ReadNext(t)
      <4>1. seen[t].stack \in Waiters
        BY <3>1, Seen DEF ReadNext, Waking
      <4>. QED BY <3>1, <4>1 DEF ReadNext, NotifierTypes
    <3>. QED BY <1>4, <3>1 DEF Load, ExchangeFails, NotifierTypes
  <2>. QED BY <1>4, <2>3, <2>4, <2>5 DEF Load, ReadNext, ExchangeFails, waiting, NotifierTypes
<1>5. CASE NotifyAll(t)
  <2>1. _state.waiters \in Nat /\ _state.waiters < EpochMod /\ _state.epoch \in Epochs
    <3>1. _state.waiters <= Cardinality(Waiters) /\ _state.waiters \in Nat
      BY Counted
    <3>. QED BY <1>5, <3>1, WaitersAre DEF NotifierTypes, States
  <2>2. (_state.epoch + _state.waiters) % EpochMod \in Epochs
    BY <2>1, EpochMoves
  <2>3. _state' \in States
    BY <1>5, <2>1, <2>2, NothingIs DEF NotifyAll, States, Nothing
  <2>4. CASE Leave(t)
    BY <1>5, <2>3, <2>4, Leaves DEF NotifyAll, waiting, NotifierTypes
  <2>5. CASE hold' = [hold EXCEPT ![t] = _state.stack] /\ NGoto(t, "unpark")
             /\ UNCHANGED <<seen, all, times>>
    <3>1. "unpark" \in NotifyPlaces /\ "unpark" \notin WaiterPlaces
      BY DEF WaiterPlaces, NotifyPlaces
    <3>2. /\ npc' \in [Threads -> {"out"} \cup WaiterPlaces \cup NotifyPlaces]
          /\ \A v \in Threads : npc'[v] \in WaiterPlaces => v \in Waiters
      BY <2>5, <3>1, GoesTo DEF NGoto
    <3>3. hold' \in [Threads -> Waiters \cup {None}]
      BY <2>5 DEF NotifierTypes, States
    <3>. QED BY <1>5, <2>3, <2>5, <3>2, <3>3 DEF NotifyAll, waiting, NotifierTypes
  <2>. QED BY <1>5, <2>4, <2>5 DEF NotifyAll
<1>6. CASE NotifyPrewait(t)
  <2>1. _state' \in States /\ Leave(t)
    BY <1>6, LeavingPrewait DEF NotifyPrewait
  <2>. QED BY <1>6, <2>1, Leaves DEF NotifyPrewait, waiting, NotifierTypes
<1>7. CASE NotifyPop(t)
  <2>1. "detach" \in NotifyPlaces /\ "detach" \notin WaiterPlaces
    BY DEF WaiterPlaces, NotifyPlaces
  <2>2. /\ npc' \in [Threads -> {"out"} \cup WaiterPlaces \cup NotifyPlaces]
        /\ \A v \in Threads : npc'[v] \in WaiterPlaces => v \in Waiters
    BY <1>7, <2>1, GoesTo DEF NotifyPop, NGoto
  <2>3. _state' \in States /\ hold' \in [Threads -> Waiters \cup {None}]
    BY <1>7 DEF NotifyPop, NotifierTypes, States
  <2>. QED BY <1>7, <2>2, <2>3 DEF NotifyPop, waiting, NotifierTypes
<1>8. CASE Detach(t)
  <2>1. "unpark" \in NotifyPlaces /\ "unpark" \notin WaiterPlaces
    BY DEF WaiterPlaces, NotifyPlaces
  <2>2. /\ npc' \in [Threads -> {"out"} \cup WaiterPlaces \cup NotifyPlaces]
        /\ \A v \in Threads : npc'[v] \in WaiterPlaces => v \in Waiters
    BY <1>8, <2>1, GoesTo DEF Detach, NGoto
  <2>3. next' \in [Waiters -> Waiters \cup {None}]
    BY <1>8 DEF Detach, NotifierTypes
  <2>. QED BY <1>8, <2>2, <2>3 DEF Detach, notifying, NotifierTypes
<1>9. CASE Unpark(t)
  <2>1. hold[t] \in Waiters
    BY <1>9 DEF Unpark, Lists, Wakers
  <2>2. signal' \in [Waiters -> {"kNotSignaled", "kWaiting", "kSignaled"}]
    BY <1>9, <2>1 DEF Unpark, NotifierTypes
  <2>3. CASE Leave(t)
    BY <1>9, <2>2, <2>3, Leaves DEF Unpark, NotifierTypes
  <2>4. CASE hold' = [hold EXCEPT ![t] = next[hold[t]]] /\ UNCHANGED <<npc, seen, all, times>>
    <3>1. hold' \in [Threads -> Waiters \cup {None}]
      BY <2>1, <2>4 DEF NotifierTypes
    <3>. QED BY <1>9, <2>2, <2>4, <3>1 DEF Unpark, NotifierTypes
  <2>. QED BY <1>9, <2>3, <2>4 DEF Unpark
<1>. QED BY <1>1, <1>2, <1>3, <1>4, <1>5, <1>6, <1>7, <1>8, <1>9 DEF NotifierStep

LEMMA OutsideTypes ==
  ASSUME NotifierTypes, Tickets, Without \/ Begins \/ Decides \/ Rouses
  PROVE  NotifierTypes'
<1>1. CASE Without
  BY <1>1 DEF Without, notifierVars, NotifierTypes
<1>2. CASE Begins
  <2>1. PICK w \in Workers : PrepareWait(w)
    BY <1>2 DEF Begins
  <2>2. _state.waiters \in Nat /\ _state.waiters < EpochMod /\ _state \in States /\ _state.epoch \in Epochs
    <3>1. _state.waiters <= Cardinality(Waiters) /\ _state.waiters \in Nat
      BY Counted
    <3>. QED BY <3>1, WaitersAre DEF NotifierTypes, States
  <2>3. (_state.epoch + _state.waiters) % EpochMod \in Epochs
    BY <2>2, EpochMoves
  <2>4. epoch' \in [Waiters -> Epochs]
    BY <2>1, <2>2, <2>3 DEF PrepareWait, NotifierTypes
  <2>5. _state' \in States
    <3>1. \A s \in States : [s EXCEPT !.waiters = @ + 1] \in States
      BY DEF States
    <3>. QED BY <2>1, <2>2, <3>1 DEF PrepareWait
  <2>. QED BY <2>1, <2>4, <2>5 DEF PrepareWait, notifying, NotifierTypes
<1>3. CASE Decides
  <2>1. PICK w \in Workers : CancelWait(w) \/ CommitWait(w)
    BY <1>3 DEF Decides
  <2>2. PICK p \in {"cancel", "commit"} : npc' = [npc EXCEPT ![w] = p]
    BY <2>1 DEF CancelWait, CommitWait, NGoto
  <2>3. p \in WaiterPlaces /\ w \in Waiters /\ w \in Threads
    BY WaitersAre DEF WaiterPlaces
  <2>4. /\ npc' \in [Threads -> {"out"} \cup WaiterPlaces \cup NotifyPlaces]
        /\ \A v \in Threads : npc'[v] \in WaiterPlaces => v \in Waiters
    BY <2>2, <2>3, GoesTo
  <2>5. signal' \in [Waiters -> {"kNotSignaled", "kWaiting", "kSignaled"}]
    BY <2>1 DEF CancelWait, CommitWait, waiting, NotifierTypes
  <2>. QED BY <2>1, <2>4, <2>5 DEF CancelWait, CommitWait, waiting, notifying, NotifierTypes
<1>4. CASE Rouses
  <2>1. PICK t \in Threads : (\E a \in BOOLEAN : Notify(t, a)) \/ \E n \in Nat : NotifyN(t, n)
    BY <1>4 DEF Rouses
  <2>2. "load" \in NotifyPlaces /\ "load" \notin WaiterPlaces
    BY DEF WaiterPlaces, NotifyPlaces
  <2>3. /\ npc' \in [Threads -> {"out"} \cup WaiterPlaces \cup NotifyPlaces]
        /\ \A v \in Threads : npc'[v] \in WaiterPlaces => v \in Waiters
    BY <2>1, <2>2, GoesTo DEF Notify, NotifyN, NGoto
  <2>4. all' \in [Threads -> BOOLEAN] /\ times' \in [Threads -> Int]
    <3>1. CASE \E a \in BOOLEAN : Notify(t, a)
      BY <3>1 DEF Notify, NotifierTypes
    <3>2. CASE \E n \in Nat : NotifyN(t, n)
      <4>1. PICK n \in Nat : NotifyN(t, n)
        BY <3>2
      <4>2. PICK a \in BOOLEAN : a = (n >= Cardinality(Waiters))
        <5>1. (n >= Cardinality(Waiters)) \in BOOLEAN
          BY WaitersAre
        <5>. QED BY <5>1, Zenon
      <4>3. all' = [all EXCEPT ![t] = a] /\ times' = [times EXCEPT ![t] = IF a THEN 0 ELSE n - 1]
        BY <4>1, <4>2 DEF NotifyN
      <4>. QED BY <4>3 DEF NotifierTypes
    <3>. QED BY <2>1, <3>1, <3>2
  <2>. QED BY <2>1, <2>3, <2>4 DEF Notify, NotifyN, waiting, NotifierTypes
<1>. QED BY <1>1, <1>2, <1>3, <1>4

-----------------------------------------------------------------------------
(* Sleepers.  The lists as functions of the variables they depend on, so    *)
(* that a step's effect is a relation between two such lists.               *)

WakersBy(np) == {t \in Threads : np[t] \in {"detach", "unpark"}}
AsleepBy(np, si) == {w \in Waiters : np[w] \in {"park", "parked"} /\ si[w] # "kSignaled"}
HeldBy(np, ho, nx, t) == IF np[t] = "unpark" THEN LinkedBy(nx, ho[t]) ELSE {ho[t]}
Acyclic(nx, S) == \A w \in S : w \notin LinkedBy(nx, nx[w])

Sleepers(top, np, si, ho, nx) ==
  /\ \A t \in WakersBy(np) : ho[t] \in Waiters
  /\ \A w : w \in AsleepBy(np, si) <=>
        w \in LinkedBy(nx, top) \/ \E t \in WakersBy(np) : w \in HeldBy(np, ho, nx, t)
  /\ \A t \in WakersBy(np) : \A w \in HeldBy(np, ho, nx, t) : w \notin LinkedBy(nx, top)
  /\ \A s, t \in WakersBy(np) : \A w \in HeldBy(np, ho, nx, t) : w \in HeldBy(np, ho, nx, s) => s = t
  /\ Acyclic(nx, LinkedBy(nx, top))
  /\ \A t \in WakersBy(np) : np[t] = "unpark" => Acyclic(nx, HeldBy(np, ho, nx, t))
  /\ \A w \in Waiters : np[w] = "commit" => si[w] = "kNotSignaled"
  /\ \A w \in Waiters : np[w] = "parked" => si[w] # "kNotSignaled"

LEMMA SleepersAre == SleepersHeld /\ Lists <=> Sleepers(_state.stack, npc, signal, hold, next)
<1>1. /\ Callers = Threads /\ Asleep = AsleepBy(npc, signal) /\ Wakers = WakersBy(npc)
      /\ \A t : Held(t) = HeldBy(npc, hold, next, t)
  BY WaitersAre, LinkedIs DEF Asleep, AsleepBy, Wakers, WakersBy, Held, HeldBy
<1>2. SleepersHeld <=>
        /\ \A w : w \in AsleepBy(npc, signal) <=>
             w \in LinkedBy(next, _state.stack)
               \/ \E t \in WakersBy(npc) : w \in HeldBy(npc, hold, next, t)
        /\ \A t \in WakersBy(npc) : \A w \in HeldBy(npc, hold, next, t) : w \notin LinkedBy(next, _state.stack)
        /\ \A s, t \in WakersBy(npc) : \A w \in HeldBy(npc, hold, next, t) :
             w \in HeldBy(npc, hold, next, s) => s = t
  BY <1>1, LinkedIs DEF SleepersHeld, Wakers
<1>3. Lists <=>
        /\ \A t \in WakersBy(npc) : hold[t] \in Waiters
        /\ Acyclic(next, LinkedBy(next, _state.stack))
        /\ \A t \in WakersBy(npc) : npc[t] = "unpark" => Acyclic(next, HeldBy(npc, hold, next, t))
        /\ \A w \in Waiters : npc[w] = "commit" => signal[w] = "kNotSignaled"
        /\ \A w \in Waiters : npc[w] = "parked" => signal[w] # "kNotSignaled"
  BY <1>1, LinkedIs DEF Lists, Acyclic, HeldBy
<1>. QED BY <1>2, <1>3 DEF Sleepers

LEMMA SleepersAreNext ==
  (SleepersHeld /\ Lists)' <=> Sleepers(_state'.stack, npc', signal', hold', next')
<1>1. (SleepersHeld /\ Lists)' <=> Sleepers(_state.stack, npc, signal, hold, next)'
  BY SleepersAre, PTL
<1>2. Sleepers(_state.stack, npc, signal, hold, next)' <=> Sleepers(_state'.stack, npc', signal', hold', next')
  BY DEF Sleepers, WakersBy, AsleepBy, HeldBy, Acyclic, LinkedBy
<1>. QED BY <1>1, <1>2

\* Nothing happens to the lists.
LEMMA SleepersStay ==
  ASSUME NEW top, NEW np, NEW si, NEW ho, NEW nx, NEW mp, NEW ri, NEW go,
         Sleepers(top, np, si, ho, nx),
         WakersBy(mp) = WakersBy(np), AsleepBy(mp, ri) = AsleepBy(np, si),
         \A t \in WakersBy(np) : go[t] = ho[t] /\ mp[t] = np[t],
         \A w \in Waiters : mp[w] = "commit" => ri[w] = "kNotSignaled",
         \A w \in Waiters : mp[w] = "parked" => ri[w] # "kNotSignaled"
  PROVE  Sleepers(top, mp, ri, go, nx)
<1>1. \A t \in WakersBy(np) : HeldBy(mp, go, nx, t) = HeldBy(np, ho, nx, t)
  BY DEF HeldBy
<1>. QED BY <1>1 DEF Sleepers

\* Waiter w pushes itself.
LEMMA SleepersPush ==
  ASSUME NEW top \in Waiters \cup {None}, NEW np, NEW si, NEW ho, NEW nx \in Pointers,
         NEW mp, NEW ri, NEW ny \in Pointers, NEW w \in Waiters,
         Sleepers(top, np, si, ho, nx), w \notin AsleepBy(np, si), ny[w] = top,
         \A v \in Waiters : v # w => ny[v] = nx[v],
         WakersBy(mp) = WakersBy(np), AsleepBy(mp, si) = AsleepBy(np, si) \cup {w},
         \A t \in WakersBy(np) : mp[t] = np[t],
         \A v \in Waiters : mp[v] = "commit" => si[v] = "kNotSignaled",
         \A v \in Waiters : mp[v] = "parked" => si[v] # "kNotSignaled"
  PROVE  Sleepers(w, mp, si, ho, ny)
<1>1. w \notin LinkedBy(nx, top) /\ \A t \in WakersBy(np) : w \notin HeldBy(np, ho, nx, t)
  BY DEF Sleepers
<1>2. ASSUME NEW v \in Waiters \cup {None}, w \notin LinkedBy(nx, v)
      PROVE  LinkedBy(ny, v) = LinkedBy(nx, v)
  <2>1. \A u \in LinkedBy(nx, v) : u \in Waiters /\ u # w
    BY <1>2 DEF LinkedBy
  <2>. QED BY <2>1, LinkedAlike
<1>3. LinkedBy(ny, top) = LinkedBy(nx, top)
  BY <1>1, <1>2
<1>4. LinkedBy(ny, w) = {w} \cup LinkedBy(nx, top)
  BY <1>3, LinkedFrom
<1>5. \A t \in WakersBy(np) : HeldBy(mp, ho, ny, t) = HeldBy(np, ho, nx, t)
  <2>. SUFFICES ASSUME NEW t \in WakersBy(np) PROVE HeldBy(mp, ho, ny, t) = HeldBy(np, ho, nx, t)
    OBVIOUS
  <2>1. ho[t] \in Waiters /\ mp[t] = np[t]
    BY DEF Sleepers
  <2>2. np[t] = "unpark" => LinkedBy(ny, ho[t]) = LinkedBy(nx, ho[t])
    BY <1>1, <1>2, <2>1 DEF HeldBy
  <2>. QED BY <2>1, <2>2 DEF HeldBy
<1>6. ASSUME NEW v \in Waiters \cup {None}, w \notin LinkedBy(nx, v), Acyclic(nx, LinkedBy(nx, v))
      PROVE  Acyclic(ny, LinkedBy(nx, v))
  <2>. SUFFICES ASSUME NEW u \in LinkedBy(nx, v) PROVE u \notin LinkedBy(ny, ny[u])
    BY DEF Acyclic
  <2>1. u \in Waiters /\ u # w /\ ny[u] = nx[u] /\ nx[u] \in Waiters \cup {None}
    BY <1>6 DEF LinkedBy, Pointers
  <2>2. w \notin LinkedBy(nx, nx[u])
    BY <1>6, LinkedWithin
  <2>. QED BY <1>2, <1>6, <2>1, <2>2 DEF Acyclic
<1>7. Acyclic(ny, LinkedBy(ny, w))
  BY <1>1, <1>3, <1>4, <1>6 DEF Sleepers, Acyclic
<1>8. \A t \in WakersBy(mp) : mp[t] = "unpark" => Acyclic(ny, HeldBy(mp, ho, ny, t))
  <2>. SUFFICES ASSUME NEW t \in WakersBy(np), np[t] = "unpark"
                PROVE  Acyclic(ny, HeldBy(np, ho, nx, t))
    BY <1>5
  <2>1. ho[t] \in Waiters /\ Acyclic(nx, HeldBy(np, ho, nx, t))
    BY DEF Sleepers
  <2>. QED BY <1>1, <1>6, <2>1 DEF HeldBy
<1>9. \A v : v \in AsleepBy(mp, si) <=>
        v \in LinkedBy(ny, w) \/ \E t \in WakersBy(mp) : v \in HeldBy(mp, ho, ny, t)
  BY <1>4, <1>5 DEF Sleepers
<1>10. \A t \in WakersBy(mp) : \A v \in HeldBy(mp, ho, ny, t) : v \notin LinkedBy(ny, w)
  BY <1>1, <1>4, <1>5 DEF Sleepers
<1>11. \A s, t \in WakersBy(mp) : \A v \in HeldBy(mp, ho, ny, t) : v \in HeldBy(mp, ho, ny, s) => s = t
  BY <1>5 DEF Sleepers
<1>12. \A t \in WakersBy(mp) : ho[t] \in Waiters
  BY DEF Sleepers
<1>. QED BY <1>7, <1>8, <1>9, <1>10, <1>11, <1>12 DEF Sleepers

\* Notifier t takes the stack, all of it or its top.
LEMMA SleepersTaken ==
  ASSUME NEW top \in Waiters, NEW np, NEW si, NEW ho, NEW nx \in Pointers,
         NEW mp, NEW go, NEW rest, NEW t \in Threads,
         Sleepers(top, np, si, ho, nx), t \notin WakersBy(np),
         WakersBy(mp) = WakersBy(np) \cup {t}, AsleepBy(mp, si) = AsleepBy(np, si), go[t] = top,
         \A s \in WakersBy(np) : mp[s] = np[s] /\ go[s] = ho[s],
         \/ mp[t] = "unpark" /\ rest = None
         \/ mp[t] = "detach" /\ rest = nx[top],
         \A w \in Waiters : mp[w] = "commit" => si[w] = "kNotSignaled",
         \A w \in Waiters : mp[w] = "parked" => si[w] # "kNotSignaled"
  PROVE  Sleepers(rest, mp, si, go, nx)
<1>1. LinkedBy(nx, top) = {top} \cup LinkedBy(nx, nx[top]) /\ top \notin LinkedBy(nx, nx[top])
  BY LinkedFrom DEF Sleepers, Acyclic
<1>2. \A s \in WakersBy(np) : HeldBy(mp, go, nx, s) = HeldBy(np, ho, nx, s)
  BY DEF HeldBy
<1>3. /\ LinkedBy(nx, top) = HeldBy(mp, go, nx, t) \cup LinkedBy(nx, rest)
      /\ \A w \in HeldBy(mp, go, nx, t) : w \notin LinkedBy(nx, rest)
  BY <1>1, LinkedNone DEF HeldBy
<1>4. Acyclic(nx, LinkedBy(nx, rest)) /\ Acyclic(nx, HeldBy(mp, go, nx, t))
  BY <1>3 DEF Sleepers, Acyclic
<1>5. \A w : w \in AsleepBy(mp, si) <=>
        w \in LinkedBy(nx, rest) \/ \E s \in WakersBy(mp) : w \in HeldBy(mp, go, nx, s)
  <2>1. \A w : w \in AsleepBy(np, si) <=>
          w \in LinkedBy(nx, top) \/ \E s \in WakersBy(np) : w \in HeldBy(np, ho, nx, s)
    BY DEF Sleepers
  <2>2. \A w : (\E s \in WakersBy(mp) : w \in HeldBy(mp, go, nx, s)) <=>
          w \in HeldBy(mp, go, nx, t) \/ \E s \in WakersBy(np) : w \in HeldBy(np, ho, nx, s)
    BY <1>2
  <2>. QED BY <1>3, <2>1, <2>2
<1>6. \A s \in WakersBy(mp) : \A w \in HeldBy(mp, go, nx, s) : w \notin LinkedBy(nx, rest)
  BY <1>2, <1>3 DEF Sleepers
<1>7. \A s, r \in WakersBy(mp) : \A w \in HeldBy(mp, go, nx, r) : w \in HeldBy(mp, go, nx, s) => s = r
  <2>1. \A s, r \in WakersBy(np) : \A w \in HeldBy(mp, go, nx, r) : w \in HeldBy(mp, go, nx, s) => s = r
    BY <1>2 DEF Sleepers
  <2>2. \A s \in WakersBy(np) : \A w \in HeldBy(mp, go, nx, t) : w \notin HeldBy(mp, go, nx, s)
    BY <1>2, <1>3 DEF Sleepers
  <2>. QED BY <2>1, <2>2
<1>8. \A s \in WakersBy(mp) : go[s] \in Waiters
  BY DEF Sleepers
<1>9. \A s \in WakersBy(mp) : mp[s] = "unpark" => Acyclic(nx, HeldBy(mp, go, nx, s))
  BY <1>2, <1>4 DEF Sleepers
<1>. QED BY <1>4, <1>5, <1>6, <1>7, <1>8, <1>9 DEF Sleepers

\* Notifier t detaches the waiter it has popped.
LEMMA SleepersDetached ==
  ASSUME NEW top \in Waiters \cup {None}, NEW np, NEW si, NEW ho, NEW nx \in Pointers,
         NEW mp, NEW ny \in Pointers, NEW t \in Threads,
         Sleepers(top, np, si, ho, nx), np[t] = "detach", mp[t] = "unpark", ny[ho[t]] = None,
         \A v \in Waiters : v # ho[t] => ny[v] = nx[v],
         WakersBy(mp) = WakersBy(np), AsleepBy(mp, si) = AsleepBy(np, si),
         \A s \in WakersBy(np) : s # t => mp[s] = np[s],
         \A v \in Waiters : mp[v] = "commit" => si[v] = "kNotSignaled",
         \A v \in Waiters : mp[v] = "parked" => si[v] # "kNotSignaled"
  PROVE  Sleepers(top, mp, si, ho, ny)
<1>1. t \in WakersBy(np) /\ ho[t] \in Waiters /\ HeldBy(np, ho, nx, t) = {ho[t]}
  BY DEF Sleepers, WakersBy, HeldBy
<1>2. PICK w \in Waiters : w = ho[t]
  BY <1>1
<1>3. w \notin LinkedBy(nx, top) /\ \A s \in WakersBy(np) : s # t => w \notin HeldBy(np, ho, nx, s)
  BY <1>1, <1>2 DEF Sleepers
<1>4. ASSUME NEW v \in Waiters \cup {None}, w \notin LinkedBy(nx, v)
      PROVE  LinkedBy(ny, v) = LinkedBy(nx, v)
  <2>1. \A u \in LinkedBy(nx, v) : u \in Waiters /\ u # w
    BY <1>4 DEF LinkedBy
  <2>. QED BY <1>2, <2>1, LinkedAlike
<1>5. LinkedBy(ny, top) = LinkedBy(nx, top)
  BY <1>3, <1>4
<1>6. LinkedBy(ny, w) = {w} /\ LinkedBy(ny, ny[w]) = {}
  BY <1>2, LinkedFrom, LinkedNone
<1>7. \A s \in WakersBy(np) : HeldBy(mp, ho, ny, s) = HeldBy(np, ho, nx, s)
  <2>. SUFFICES ASSUME NEW s \in WakersBy(np) PROVE HeldBy(mp, ho, ny, s) = HeldBy(np, ho, nx, s)
    OBVIOUS
  <2>1. CASE s = t
    BY <1>1, <1>2, <1>6, <2>1 DEF HeldBy
  <2>2. CASE s # t
    <3>1. ho[s] \in Waiters /\ mp[s] = np[s]
      BY <2>2 DEF Sleepers
    <3>2. np[s] = "unpark" => LinkedBy(ny, ho[s]) = LinkedBy(nx, ho[s])
      BY <1>3, <1>4, <2>2, <3>1 DEF HeldBy
    <3>. QED BY <3>1, <3>2 DEF HeldBy
  <2>. QED BY <2>1, <2>2
<1>8. ASSUME NEW v \in Waiters \cup {None}, w \notin LinkedBy(nx, v), Acyclic(nx, LinkedBy(nx, v))
      PROVE  Acyclic(ny, LinkedBy(nx, v))
  <2>. SUFFICES ASSUME NEW u \in LinkedBy(nx, v) PROVE u \notin LinkedBy(ny, ny[u])
    BY DEF Acyclic
  <2>1. u \in Waiters /\ u # w /\ ny[u] = nx[u] /\ nx[u] \in Waiters \cup {None}
    BY <1>2, <1>8 DEF LinkedBy, Pointers
  <2>2. w \notin LinkedBy(nx, nx[u])
    BY <1>8, LinkedWithin
  <2>. QED BY <1>4, <1>8, <2>1, <2>2 DEF Acyclic
<1>9. Acyclic(ny, LinkedBy(ny, top))
  BY <1>3, <1>5, <1>8 DEF Sleepers
<1>10. \A s \in WakersBy(mp) : mp[s] = "unpark" => Acyclic(ny, HeldBy(mp, ho, ny, s))
  <2>. SUFFICES ASSUME NEW s \in WakersBy(np), mp[s] = "unpark"
                PROVE  Acyclic(ny, HeldBy(np, ho, nx, s))
    BY <1>7
  <2>1. CASE s = t
    BY <1>1, <1>2, <1>6, <2>1 DEF Acyclic
  <2>2. CASE s # t
    <3>1. ho[s] \in Waiters /\ np[s] = "unpark" /\ Acyclic(nx, HeldBy(np, ho, nx, s))
      BY <2>2 DEF Sleepers
    <3>. QED BY <1>3, <1>8, <2>2, <3>1 DEF HeldBy
  <2>. QED BY <2>1, <2>2
<1>11. \A v : v \in AsleepBy(mp, si) <=>
        v \in LinkedBy(ny, top) \/ \E s \in WakersBy(mp) : v \in HeldBy(mp, ho, ny, s)
  BY <1>5, <1>7 DEF Sleepers
<1>12. \A s \in WakersBy(mp) : \A v \in HeldBy(mp, ho, ny, s) : v \notin LinkedBy(ny, top)
  BY <1>5, <1>7 DEF Sleepers
<1>13. \A s, r \in WakersBy(mp) : \A v \in HeldBy(mp, ho, ny, r) : v \in HeldBy(mp, ho, ny, s) => s = r
  BY <1>7 DEF Sleepers
<1>14. \A s \in WakersBy(mp) : ho[s] \in Waiters
  BY DEF Sleepers
<1>. QED BY <1>9, <1>10, <1>11, <1>12, <1>13, <1>14 DEF Sleepers

\* Notifier t signals the first waiter of its list.
LEMMA SleepersSignalled ==
  ASSUME NEW top \in Waiters \cup {None}, NEW np, NEW si, NEW ho, NEW nx \in Pointers,
         NEW mp, NEW ri, NEW go, NEW t \in Threads,
         Sleepers(top, np, si, ho, nx), np[t] = "unpark",
         AsleepBy(mp, ri) = AsleepBy(np, si) \ {ho[t]},
         \A s \in WakersBy(np) : s # t => mp[s] = np[s] /\ go[s] = ho[s],
         \/ nx[ho[t]] = None /\ WakersBy(mp) = WakersBy(np) \ {t}
         \/ nx[ho[t]] # None /\ WakersBy(mp) = WakersBy(np) /\ mp[t] = "unpark" /\ go[t] = nx[ho[t]],
         \A v \in Waiters : mp[v] = "commit" => ri[v] = "kNotSignaled",
         \A v \in Waiters : mp[v] = "parked" => ri[v] # "kNotSignaled"
  PROVE  Sleepers(top, mp, ri, go, nx)
<1>1. t \in WakersBy(np) /\ ho[t] \in Waiters /\ HeldBy(np, ho, nx, t) = LinkedBy(nx, ho[t])
  BY DEF Sleepers, WakersBy, HeldBy
<1>2. PICK w \in Waiters : w = ho[t]
  BY <1>1
<1>3. /\ LinkedBy(nx, w) = {w} \cup LinkedBy(nx, nx[w]) /\ w \in LinkedBy(nx, w)
      /\ nx[w] \in Waiters \cup {None}
  BY LinkedFrom DEF Pointers
<1>4. Acyclic(nx, LinkedBy(nx, w)) /\ w \notin LinkedBy(nx, nx[w])
  BY <1>1, <1>2, <1>3 DEF Sleepers, Acyclic
<1>5. \A s \in WakersBy(np) : s # t => HeldBy(mp, go, nx, s) = HeldBy(np, ho, nx, s)
  BY DEF HeldBy
<1>6. w \notin LinkedBy(nx, top) /\ \A s \in WakersBy(np) : s # t => w \notin HeldBy(np, ho, nx, s)
  BY <1>1, <1>2, <1>3 DEF Sleepers
<1>7. CASE nx[w] = None /\ WakersBy(mp) = WakersBy(np) \ {t}
  <2>1. HeldBy(np, ho, nx, t) = {w}
    BY <1>1, <1>2, <1>3, <1>7, LinkedNone
  <2>2. \A v : v \in AsleepBy(mp, ri) <=>
          v \in LinkedBy(nx, top) \/ \E s \in WakersBy(mp) : v \in HeldBy(mp, go, nx, s)
    <3>1. \A v : (\E s \in WakersBy(mp) : v \in HeldBy(mp, go, nx, s)) <=>
            \E s \in WakersBy(np) : s # t /\ v \in HeldBy(np, ho, nx, s)
      BY <1>5, <1>7
    <3>2. \A v : v \in AsleepBy(np, si) <=>
            v \in LinkedBy(nx, top) \/ \E s \in WakersBy(np) : v \in HeldBy(np, ho, nx, s)
      BY DEF Sleepers
    <3>. QED BY <1>1, <1>2, <1>6, <2>1, <3>1, <3>2
  <2>. QED BY <1>5, <1>7, <2>2 DEF Sleepers
<1>8. CASE nx[w] # None /\ WakersBy(mp) = WakersBy(np) /\ mp[t] = "unpark" /\ go[t] = nx[w]
  <2>1. HeldBy(mp, go, nx, t) = LinkedBy(nx, nx[w])
    BY <1>8 DEF HeldBy
  <2>2. /\ \A v : v \in HeldBy(np, ho, nx, t) <=> v = w \/ v \in HeldBy(mp, go, nx, t)
        /\ w \notin HeldBy(mp, go, nx, t)
    BY <1>1, <1>2, <1>3, <1>4, <2>1
  <2>3. \A v : v \in AsleepBy(mp, ri) <=>
          v \in LinkedBy(nx, top) \/ \E s \in WakersBy(mp) : v \in HeldBy(mp, go, nx, s)
    <3>1. \A v : v \in AsleepBy(np, si) <=>
            v \in LinkedBy(nx, top) \/ \E s \in WakersBy(np) : v \in HeldBy(np, ho, nx, s)
      BY DEF Sleepers
    <3>2. \A v : v # w => ((\E s \in WakersBy(np) : v \in HeldBy(np, ho, nx, s)) <=>
                            \E s \in WakersBy(mp) : v \in HeldBy(mp, go, nx, s))
      BY <1>1, <1>5, <1>8, <2>2
    <3>3. \A s \in WakersBy(mp) : w \notin HeldBy(mp, go, nx, s)
      BY <1>5, <1>6, <1>8, <2>2
    <3>. QED BY <1>2, <1>6, <3>1, <3>2, <3>3
  <2>4. \A s \in WakersBy(mp) : \A v \in HeldBy(mp, go, nx, s) : v \notin LinkedBy(nx, top)
    BY <1>1, <1>5, <1>8, <2>2 DEF Sleepers
  <2>5. \A s \in WakersBy(np) : \A v \in HeldBy(mp, go, nx, s) : v \in HeldBy(np, ho, nx, s)
    BY <1>5, <2>2
  <2>6. \A s, r \in WakersBy(mp) : \A v \in HeldBy(mp, go, nx, r) : v \in HeldBy(mp, go, nx, s) => s = r
    BY <1>8, <2>5 DEF Sleepers
  <2>7. Acyclic(nx, HeldBy(mp, go, nx, t))
    BY <1>3, <1>4, <2>1 DEF Acyclic
  <2>8. \A s \in WakersBy(mp) : mp[s] = "unpark" => Acyclic(nx, HeldBy(mp, go, nx, s))
    BY <1>5, <1>8, <2>7 DEF Sleepers
  <2>9. \A s \in WakersBy(mp) : go[s] \in Waiters
    BY <1>3, <1>8 DEF Sleepers
  <2>. QED BY <2>3, <2>4, <2>6, <2>8, <2>9 DEF Sleepers
<1>. QED BY <1>2, <1>7, <1>8

LEMMA OutsideSleepers ==
  ASSUME NotifierTypes, SleepersHeld, Lists, Without \/ Begins \/ Decides \/ Rouses
  PROVE  (SleepersHeld /\ Lists)'
<1>1. Sleepers(_state.stack, npc, signal, hold, next)
  BY SleepersAre
<1>2. _state'.stack = _state.stack /\ hold' = hold /\ next' = next
  <2>1. CASE Begins
    <3>1. PICK w \in Workers : PrepareWait(w)
      BY <2>1 DEF Begins
    <3>. QED BY <3>1 DEF PrepareWait, notifying, NotifierTypes, States
  <2>2. CASE Without \/ Decides \/ Rouses
    BY <2>2 DEF Without, notifierVars, Decides, CancelWait, CommitWait, Rouses, Notify, NotifyN, waiting, notifying
  <2>. QED BY <2>1, <2>2
<1>3. PICK t \in Threads :
        /\ \A v \in Threads : v # t => npc'[v] = npc[v]
        /\ \A v \in Waiters : v # t => signal'[v] = signal[v]
        /\ \/ npc'[t] = npc[t] /\ (t \in Waiters => signal'[t] = signal[t])
           \/ npc[t] = "out" /\ npc'[t] \in {"cancel", "load"}
           \/ npc[t] = "out" /\ npc'[t] = "commit" /\ signal'[t] = "kNotSignaled"
  <2>0. Owner \in Threads /\ \A w \in Workers : w \in Threads /\ w \in Waiters
    BY WaitersAre DEF Threads
  <2>1. CASE Begins
    <3>1. PICK w \in Workers : PrepareWait(w)
      BY <2>1 DEF Begins
    <3>. QED BY <2>0, <3>1 DEF PrepareWait
  <2>2. CASE Without
    BY <2>0, <2>2 DEF Without, notifierVars
  <2>3. CASE Decides
    <3>1. PICK w \in Workers : npc[w] = "out" /\ (CancelWait(w) \/ CommitWait(w))
      BY <2>3 DEF Decides
    <3>2. PICK p \in {"cancel", "commit"} : npc' = [npc EXCEPT ![w] = p]
      BY <3>1 DEF CancelWait, CommitWait, NGoto
    <3>3. npc'[w] = p /\ \A v \in Threads : v # w => npc'[v] = npc[v]
      BY <2>0, <3>2 DEF NotifierTypes
    <3>4. CASE CancelWait(w)
      <4>1. w \in Threads /\ npc[w] = "out" /\ npc'[w] \in {"cancel", "load"} /\ signal' = signal
        BY <2>0, <3>1, <3>4 DEF CancelWait, NGoto, NotifierTypes, waiting
      <4>. QED BY <3>3, <4>1
    <3>5. CASE CommitWait(w)
      <4>1. npc'[w] = "commit" /\ signal' = [signal EXCEPT ![w] = "kNotSignaled"]
        BY <2>0, <3>5 DEF CommitWait, NGoto, NotifierTypes
      <4>2. signal'[w] = "kNotSignaled" /\ \A v \in Waiters : v # w => signal'[v] = signal[v]
        BY <2>0, <4>1 DEF NotifierTypes
      <4>. QED BY <2>0, <3>1, <3>3, <4>1, <4>2
    <3>. QED BY <3>1, <3>4, <3>5
  <2>4. CASE Rouses
    <3>1. PICK t \in Threads : npc[t] = "out"
                               /\ ((\E a \in BOOLEAN : Notify(t, a)) \/ \E n \in Nat : NotifyN(t, n))
      BY <2>4 DEF Rouses
    <3>2. npc' = [npc EXCEPT ![t] = "load"] /\ signal' = signal
      BY <3>1 DEF Notify, NotifyN, NGoto, waiting
    <3>3. npc[t] = "out" /\ npc'[t] \in {"cancel", "load"} /\ \A v \in Threads : v # t => npc'[v] = npc[v]
      BY <3>1, <3>2 DEF NotifierTypes
    <3>4. \A v \in Waiters : signal'[v] = signal[v]
      BY <3>2
    <3>. QED BY <3>3, <3>4
  <2>. QED BY <2>1, <2>2, <2>3, <2>4
<1>4. WakersBy(npc') = WakersBy(npc) /\ \A s \in WakersBy(npc) : npc'[s] = npc[s]
  BY <1>3 DEF WakersBy
<1>5. /\ AsleepBy(npc', signal') = AsleepBy(npc, signal)
      /\ \A w \in Waiters : npc'[w] = "commit" => signal'[w] = "kNotSignaled"
      /\ \A w \in Waiters : npc'[w] = "parked" => signal'[w] # "kNotSignaled"
  BY <1>1, <1>3, WaitersAre DEF AsleepBy, Sleepers
<1>6. Sleepers(_state.stack, npc', signal', hold', next)
  BY <1>1, <1>2, <1>4, <1>5, SleepersStay
<1>. QED BY <1>2, <1>6, SleepersAreNext

\* A notifier's compare-exchange that succeeds on a pop.
LEMMA Popped ==
  ASSUME NotifierTypes, Glimpse, NEW t \in Threads, NotifyPop(t)
  PROVE  /\ _state = seen[t] /\ _state.stack \in Waiters /\ _state.waiters = 0
         /\ hold[t] = next[_state.stack]
<1>1. _state = seen[t] /\ npc[t] = "exchange"
  BY DEF NotifyPop, Unchanged
<1>2. seen[t].stack \in Waiters /\ seen[t].waiters = 0 /\ seen[t].epoch \in Epochs /\ next \in Pointers
  BY <1>1, Seen DEF Waking, NotifierTypes, Pointers
<1>3. Behind(t) = 0
  <2>1. 2 * 0 < EpochMod
    BY WaitersAre
  <2>2. (seen[t].epoch + 0) % EpochMod = seen[t].epoch
    BY <1>2, WaitersAre, Remainder DEF Epochs
  <2>3. Lag(seen[t].epoch, (seen[t].epoch + 0) % EpochMod) = -0
    BY <1>2, <2>1, TicketLag
  <2>. QED BY <1>1, <2>2, <2>3 DEF Behind
<1>4. seen[t].stack \in Linked(_state.stack)
  BY <1>1, <1>2, LinkedIs, LinkedLeast
<1>. QED BY <1>1, <1>2, <1>3, <1>4 DEF Glimpse

LEMMA InsideSleepers ==
  ASSUME NotifierTypes, NotifierTypes', Tickets, SleepersHeld, Lists, Glimpse,
         NEW t \in Threads, NotifierStep(t)
  PROVE  (SleepersHeld /\ Lists)'
<1>1. /\ Sleepers(_state.stack, npc, signal, hold, next)
      /\ _state.stack \in Waiters \cup {None} /\ next \in Pointers /\ next' \in Pointers
      /\ \A w \in Waiters : w \in Threads
  BY SleepersAre, WaitersAre DEF NotifierTypes, States, Pointers
<1>2. /\ \A w \in Waiters : npc[w] = "commit" => signal[w] = "kNotSignaled"
      /\ \A w \in Waiters : npc[w] = "parked" => signal[w] # "kNotSignaled"
  BY DEF Lists
<1>3. CASE t \in Waiters /\ (Notified(t) \/ CancelInTurn(t) \/ Park(t) \/ Unparked(t))
  <2>1. _state'.stack = _state.stack /\ hold' = hold /\ next' = next
    <3>1. CASE CancelInTurn(t)
      BY <1>3, <3>1, InTurn, LeavingPrewait DEF CancelInTurn, notifying
    <3>2. CASE Notified(t) \/ Park(t) \/ Unparked(t)
      BY <3>2 DEF Notified, Park, Unparked, notifying, waiting
    <3>. QED BY <1>3, <3>1, <3>2
  <2>2. /\ \A v \in Threads : v # t => npc'[v] = npc[v]
        /\ \A v \in Waiters : v # t => signal'[v] = signal[v]
    BY <1>3 DEF Notified, CancelInTurn, Park, Unparked, NGoto, NotifierTypes, waiting
  <2>3. \/ npc[t] \in {"cancel", "commit"} /\ npc'[t] = "out" /\ signal'[t] = signal[t]
        \/ npc[t] = "park" /\ signal[t] = "kNotSignaled" /\ npc'[t] = "parked" /\ signal'[t] = "kWaiting"
        \/ npc[t] = "park" /\ signal[t] = "kSignaled" /\ npc'[t] = "out" /\ signal'[t] = signal[t]
        \/ npc[t] = "parked" /\ signal[t] # "kWaiting" /\ npc'[t] = "out" /\ signal'[t] = signal[t]
    BY <1>3 DEF Notified, CancelInTurn, Park, Unparked, NGoto, NotifierTypes, waiting
  <2>4. signal[t] \in {"kNotSignaled", "kWaiting", "kSignaled"}
    BY <1>3 DEF NotifierTypes
  <2>5. WakersBy(npc') = WakersBy(npc) /\ \A s \in WakersBy(npc) : npc'[s] = npc[s]
    BY <2>2, <2>3 DEF WakersBy
  <2>6. /\ AsleepBy(npc', signal') = AsleepBy(npc, signal)
        /\ \A w \in Waiters : npc'[w] = "commit" => signal'[w] = "kNotSignaled"
        /\ \A w \in Waiters : npc'[w] = "parked" => signal'[w] # "kNotSignaled"
    BY <1>1, <1>2, <2>2, <2>3, <2>4 DEF AsleepBy
  <2>7. Sleepers(_state.stack, npc', signal', hold', next)
    BY <1>1, <2>1, <2>5, <2>6, SleepersStay
  <2>. QED BY <2>1, <2>7, SleepersAreNext
<1>4. ASSUME npc[t] \notin {"detach", "unpark"} \cup WaiterPlaces,
             npc'[t] \notin {"detach", "unpark"} \cup WaiterPlaces,
             \A v \in Threads : v # t => npc'[v] = npc[v] /\ hold'[v] = hold[v],
             signal' = signal, next' = next, _state'.stack = _state.stack
      PROVE  (SleepersHeld /\ Lists)'
  <2>1. WakersBy(npc') = WakersBy(npc) /\ \A s \in WakersBy(npc) : npc'[s] = npc[s] /\ hold'[s] = hold[s]
    BY <1>4 DEF WakersBy
  <2>2. /\ AsleepBy(npc', signal) = AsleepBy(npc, signal)
        /\ \A w \in Waiters : npc'[w] = "commit" => signal[w] = "kNotSignaled"
        /\ \A w \in Waiters : npc'[w] = "parked" => signal[w] # "kNotSignaled"
    BY <1>1, <1>2, <1>4 DEF AsleepBy, WaiterPlaces
  <2>3. Sleepers(_state.stack, npc', signal, hold', next)
    BY <1>1, <2>1, <2>2, SleepersStay
  <2>. QED BY <1>4, <2>3, SleepersAreNext
<1>5. CASE LoadNobody(t) \/ Load(t) \/ ReadNext(t) \/ ExchangeFails(t) \/ NotifyPrewait(t)
  <2>1. npc[t] \in {"load", "readNext", "exchange"} /\ signal' = signal /\ next' = next
    BY <1>5 DEF LoadNobody, Load, ReadNext, ExchangeFails, NotifyPrewait, waiting
  <2>2. _state'.stack = _state.stack
    <3>1. CASE NotifyPrewait(t)
      BY <3>1, LeavingPrewait DEF NotifyPrewait
    <3>. QED BY <1>5, <3>1 DEF LoadNobody, Load, ReadNext, ExchangeFails
  <2>3. /\ npc'[t] \in {"out", "load", "readNext", "exchange"}
        /\ \A v \in Threads : v # t => npc'[v] = npc[v] /\ hold'[v] = hold[v]
    <3>1. CASE LoadNobody(t) \/ NotifyPrewait(t)
      <4>1. Leave(t)
        BY <3>1 DEF LoadNobody, NotifyPrewait
      <4>. QED BY <4>1, Leaves
    <3>2. CASE Load(t) \/ ReadNext(t) \/ ExchangeFails(t)
      BY <3>2 DEF Load, ReadNext, ExchangeFails, NGoto, NotifierTypes
    <3>. QED BY <1>5, <3>1, <3>2
  <2>. QED BY <1>4, <2>1, <2>2, <2>3 DEF WaiterPlaces
<1>6. CASE t \in Waiters /\ CommitInTurn(t)
  <2>1. /\ npc[t] = "commit" /\ next' = [next EXCEPT ![t] = _state.stack] /\ signal' = signal /\ hold' = hold
        /\ npc' = [npc EXCEPT ![t] = "park"]
    BY <1>6 DEF CommitInTurn, NGoto, notifying
  <2>2. _state'.stack = t
    <3>1. LeavePrewait(_state) \in States
      BY <1>6, InTurn, LeavingPrewait DEF CommitInTurn
    <3>. QED BY <1>6, <3>1 DEF CommitInTurn, States
  <2>3. npc'[t] = "park" /\ \A v \in Threads : v # t => npc'[v] = npc[v]
    BY <2>1 DEF NotifierTypes
  <2>4. next'[t] = _state.stack /\ \A v \in Waiters : v # t => next'[v] = next[v]
    BY <1>1, <1>6, <2>1 DEF Pointers
  <2>5. WakersBy(npc') = WakersBy(npc) /\ \A s \in WakersBy(npc) : npc'[s] = npc[s]
    BY <2>1, <2>3 DEF WakersBy
  <2>6. t \notin AsleepBy(npc, signal) /\ AsleepBy(npc', signal) = AsleepBy(npc, signal) \cup {t}
    BY <1>1, <1>2, <1>6, <2>1, <2>3 DEF AsleepBy
  <2>7. /\ \A w \in Waiters : npc'[w] = "commit" => signal[w] = "kNotSignaled"
        /\ \A w \in Waiters : npc'[w] = "parked" => signal[w] # "kNotSignaled"
    BY <1>1, <1>2, <2>3
  <2>8. Sleepers(t, npc', signal, hold, next')
    BY <1>1, <1>6, <2>4, <2>5, <2>6, <2>7, SleepersPush
  <2>. QED BY <2>1, <2>2, <2>8, SleepersAreNext
<1>7. ASSUME _state.stack \in Waiters, t \notin WakersBy(npc),
             \/ npc'[t] = "unpark" /\ _state'.stack = None
             \/ npc'[t] = "detach" /\ _state'.stack = next[_state.stack],
             npc[t] \in {"load", "exchange"}, \A v \in Threads : v # t => npc'[v] = npc[v],
             hold' = [hold EXCEPT ![t] = _state.stack], signal' = signal, next' = next
      PROVE  (SleepersHeld /\ Lists)'
  <2>1. hold'[t] = _state.stack /\ \A v \in Threads : v # t => hold'[v] = hold[v]
    BY <1>7 DEF NotifierTypes
  <2>2. WakersBy(npc') = WakersBy(npc) \cup {t} /\ \A s \in WakersBy(npc) : npc'[s] = npc[s] /\ hold'[s] = hold[s]
    BY <1>7, <2>1 DEF WakersBy
  <2>3. /\ AsleepBy(npc', signal) = AsleepBy(npc, signal)
        /\ \A w \in Waiters : npc'[w] = "commit" => signal[w] = "kNotSignaled"
        /\ \A w \in Waiters : npc'[w] = "parked" => signal[w] # "kNotSignaled"
    BY <1>1, <1>2, <1>7 DEF AsleepBy
  <2>4. \/ npc'[t] = "unpark" /\ _state'.stack = None
        \/ npc'[t] = "detach" /\ _state'.stack = next[_state.stack]
    BY <1>7
  <2>5. _state.stack \in Waiters /\ t \notin WakersBy(npc)
    BY <1>7
  <2>6. Sleepers(_state'.stack, npc', signal, hold', next)
    BY <1>1, <2>1, <2>2, <2>3, <2>4, <2>5, SleepersTaken
  <2>. QED BY <1>7, <2>6, SleepersAreNext
<1>8. CASE NotifyAll(t)
  <2>1. npc[t] = "load" /\ signal' = signal /\ next' = next /\ _state'.stack = None
    BY <1>8 DEF NotifyAll, waiting, Nothing
  <2>2. CASE _state.stack = None /\ Leave(t)
    <3>1. /\ npc'[t] \in {"out", "load"}
          /\ \A v \in Threads : v # t => npc'[v] = npc[v] /\ hold'[v] = hold[v]
      BY <2>2, Leaves
    <3>. QED BY <1>4, <2>1, <2>2, <3>1 DEF WaiterPlaces
  <2>3. CASE _state.stack # None /\ hold' = [hold EXCEPT ![t] = _state.stack] /\ NGoto(t, "unpark")
    <3>1. npc'[t] = "unpark" /\ \A v \in Threads : v # t => npc'[v] = npc[v]
      BY <2>3 DEF NGoto, NotifierTypes
    <3>2. /\ _state.stack \in Waiters /\ t \notin WakersBy(npc)
          /\ hold' = [hold EXCEPT ![t] = _state.stack]
      BY <1>1, <2>1, <2>3 DEF WakersBy
    <3>. QED BY <1>7, <2>1, <3>1, <3>2
  <2>. QED BY <1>8, <2>2, <2>3 DEF NotifyAll
<1>9. CASE NotifyPop(t)
  <2>1. /\ npc[t] = "exchange" /\ _state = seen[t] /\ signal' = signal /\ next' = next
        /\ _state.stack \in Waiters /\ hold[t] = next[_state.stack]
        /\ hold' = [hold EXCEPT ![t] = _state.stack]
    BY <1>9, Popped DEF NotifyPop, waiting
  <2>2. _state'.stack = next[_state.stack]
    BY <1>9, <2>1 DEF NotifyPop, NotifierTypes, States
  <2>3. npc'[t] = "detach" /\ \A v \in Threads : v # t => npc'[v] = npc[v]
    BY <1>9 DEF NotifyPop, NGoto, NotifierTypes
  <2>. QED BY <1>7, <2>1, <2>2, <2>3 DEF WakersBy
<1>10. CASE Detach(t)
  <2>1. npc[t] = "detach" /\ _state' = _state /\ signal' = signal /\ hold' = hold /\ t \in WakersBy(npc)
    BY <1>10 DEF Detach, notifying, WakersBy
  <2>2. hold[t] \in Waiters
    BY <1>1, <2>1 DEF Sleepers
  <2>3. npc'[t] = "unpark" /\ \A v \in Threads : v # t => npc'[v] = npc[v]
    BY <1>10 DEF Detach, NGoto, NotifierTypes
  <2>4. next'[hold[t]] = None /\ \A v \in Waiters : v # hold[t] => next'[v] = next[v]
    BY <1>1, <1>10, <2>2 DEF Detach, Pointers
  <2>5. WakersBy(npc') = WakersBy(npc) /\ \A s \in WakersBy(npc) : s # t => npc'[s] = npc[s]
    BY <2>1, <2>3 DEF WakersBy
  <2>6. /\ AsleepBy(npc', signal) = AsleepBy(npc, signal)
        /\ \A w \in Waiters : npc'[w] = "commit" => signal[w] = "kNotSignaled"
        /\ \A w \in Waiters : npc'[w] = "parked" => signal[w] # "kNotSignaled"
    BY <1>1, <1>2, <2>1, <2>3 DEF AsleepBy
  <2>7. Sleepers(_state.stack, npc', signal, hold, next')
    BY <1>1, <2>1, <2>3, <2>4, <2>5, <2>6, SleepersDetached
  <2>. QED BY <2>1, <2>7, SleepersAreNext
<1>11. CASE Unpark(t)
  <2>1. npc[t] = "unpark" /\ _state' = _state /\ next' = next /\ t \in WakersBy(npc)
    BY <1>11 DEF Unpark, WakersBy
  <2>2. PICK w \in Waiters : w = hold[t]
    BY <1>1, <2>1 DEF Sleepers
  <2>3. signal'[w] = "kSignaled" /\ \A v \in Waiters : v # w => signal'[v] = signal[v]
    BY <1>11, <2>2 DEF Unpark, NotifierTypes
  <2>4. \/ /\ next[w] = None /\ npc'[t] \in {"out", "load"}
           /\ \A v \in Threads : v # t => npc'[v] = npc[v] /\ hold'[v] = hold[v]
        \/ /\ next[w] # None /\ npc' = npc /\ hold'[t] = next[w]
           /\ \A v \in Threads : v # t => hold'[v] = hold[v]
    <3>1. CASE next[w] = None /\ Leave(t)
      BY <3>1, Leaves
    <3>2. CASE next[w] # None /\ hold' = [hold EXCEPT ![t] = next[hold[t]]] /\ npc' = npc
      BY <2>2, <3>2 DEF NotifierTypes
    <3>. QED BY <1>11, <2>2, <3>1, <3>2 DEF Unpark
  <2>5. w \in AsleepBy(npc, signal)
    <3>1. w \in HeldBy(npc, hold, next, t)
      BY <1>1, <2>1, <2>2, LinkedLeast DEF HeldBy
    <3>. QED BY <1>1, <2>1, <3>1 DEF Sleepers
  <2>6. npc'[t] \notin WaiterPlaces /\ npc[t] \notin WaiterPlaces
    BY <2>1, <2>4 DEF WaiterPlaces
  <2>7. \A v \in Waiters : \A p \in WaiterPlaces : npc'[v] = p <=> npc[v] = p
    BY <1>1, <2>4, <2>6
  <2>8. /\ AsleepBy(npc', signal') = AsleepBy(npc, signal) \ {hold[t]}
        /\ \A v \in Waiters : npc'[v] = "commit" => signal'[v] = "kNotSignaled"
        /\ \A v \in Waiters : npc'[v] = "parked" => signal'[v] # "kNotSignaled"
    BY <1>2, <2>2, <2>3, <2>5, <2>7 DEF AsleepBy, WaiterPlaces
  <2>9. /\ \A s \in WakersBy(npc) : s # t => npc'[s] = npc[s] /\ hold'[s] = hold[s]
        /\ \/ next[hold[t]] = None /\ WakersBy(npc') = WakersBy(npc) \ {t}
           \/ next[hold[t]] # None /\ WakersBy(npc') = WakersBy(npc) /\ npc'[t] = "unpark" /\ hold'[t] = next[hold[t]]
    BY <2>1, <2>2, <2>4 DEF WakersBy
  <2>10. Sleepers(_state.stack, npc', signal', hold', next)
    <3>1. _state.stack \in Waiters \cup {None} /\ next \in Pointers /\ t \in Threads
      BY <1>1
    <3>2. Sleepers(_state.stack, npc, signal, hold, next) /\ npc[t] = "unpark"
      BY <1>1, <2>1
    <3>3. PICK mp, ri, go : mp = npc' /\ ri = signal' /\ go = hold'
      OBVIOUS
    <3>4. /\ AsleepBy(mp, ri) = AsleepBy(npc, signal) \ {hold[t]}
          /\ \A v \in Waiters : mp[v] = "commit" => ri[v] = "kNotSignaled"
          /\ \A v \in Waiters : mp[v] = "parked" => ri[v] # "kNotSignaled"
      BY <2>8, <3>3
    <3>5. /\ \A s \in WakersBy(npc) : s # t => mp[s] = npc[s] /\ go[s] = hold[s]
          /\ \/ next[hold[t]] = None /\ WakersBy(mp) = WakersBy(npc) \ {t}
             \/ next[hold[t]] # None /\ WakersBy(mp) = WakersBy(npc) /\ mp[t] = "unpark" /\ go[t] = next[hold[t]]
      BY <2>9, <3>3
    <3>6. Sleepers(_state.stack, mp, ri, go, next)
      BY <3>1, <3>2, <3>4, <3>5, SleepersSignalled
    <3>. QED BY <3>3, <3>6
  <2>. QED BY <2>1, <2>10, SleepersAreNext
<1>. QED BY <1>3, <1>5, <1>6, <1>8, <1>9, <1>10, <1>11 DEF NotifierStep

-----------------------------------------------------------------------------
(* A step inside the notifier: the epoch goes on by as many as leave         *)
(* pre-wait, and if by none, the stack loses waiters at most.               *)

StackLoses ==
  \A v \in LinkedBy(next', _state'.stack) :
    /\ v \in LinkedBy(next, _state.stack)
    /\ v = _state.stack => v = _state'.stack /\ next'[v] = next[v]

Passes(k) ==
  /\ _state'.epoch = (_state.epoch + k) % EpochMod /\ _state'.waiters = _state.waiters - k
  /\ \A w \in Workers : Waits(w)' => Waits(w) /\ epoch'[w] = epoch[w]
  /\ \A w \in Workers : Waits(w) /\ ~Waits(w)' => Turn(w) + k > 0
  /\ k = 0 => StackLoses

LEMMA NoneLeaves ==
  ASSUME NotifierTypes
  PROVE  /\ (_state.epoch + 0) % EpochMod = _state.epoch /\ _state.waiters - 0 = _state.waiters
         /\ 0 \in 0 .. _state.waiters
<1>1. _state.epoch \in Nat /\ _state.epoch < EpochMod /\ _state.waiters \in Nat
  BY WaitersAre DEF NotifierTypes, States, Epochs
<1>. QED BY <1>1, WaitersAre, Remainder

\* Waiter t has been notified, or leaves in its turn.
LEMMA WaiterPasses ==
  ASSUME NotifierTypes, Tickets, pc' = pc, NEW t \in Waiters,
         Notified(t) \/ CancelInTurn(t) \/ CommitInTurn(t)
  PROVE  \E k \in 0 .. _state.waiters : Passes(k)
<1>1. /\ npc[t] \in {"cancel", "commit"} /\ npc'[t] \in {"out", "park"} /\ t \in Workers /\ t \in Threads
      /\ \A v \in Threads : v # t => npc'[v] = npc[v]
  BY WaitersAre DEF Notified, CancelInTurn, CommitInTurn, NGoto, NotifierTypes
<1>2. pc[t] \notin Predicates
  BY <1>1 DEF Tickets
<1>3. \A w \in Workers : w \in Threads
  BY WaitersAre
<1>4. Waits(t) /\ ~Waits(t)' /\ \A w \in Workers : w # t => (Waits(w)' <=> Waits(w))
  BY <1>1, <1>2, <1>3 DEF Waits, At, Predicates
<1>5. \A w \in Workers : w # t => epoch'[w] = epoch[w]
  BY WaitersAre DEF Notified, CancelInTurn, CommitInTurn, Forget, NotifierTypes
<1>6. CASE Notified(t)
  <2>1. _state' = _state /\ next' = next /\ Turn(t) > 0
    BY <1>6 DEF Notified
  <2>2. Turn(t) \in Int
    BY <1>1, TurnIs
  <2>3. Turn(t) + 0 > 0
    BY <2>1, <2>2
  <2>4. Passes(0)
    BY <1>4, <1>5, <2>1, <2>3, NoneLeaves DEF Passes, StackLoses
  <2>. QED BY <2>4, NoneLeaves
<1>7. CASE CancelInTurn(t) \/ CommitInTurn(t)
  <2>1. Turn(t) = 0 /\ _state.waiters > 0
    BY <1>1, <1>7, InTurn DEF CancelInTurn, CommitInTurn
  <2>2. /\ LeavePrewait(_state) \in States /\ LeavePrewait(_state).waiters = _state.waiters - 1
        /\ LeavePrewait(_state).epoch = (_state.epoch + 1) % EpochMod
    BY <2>1, LeavingPrewait
  <2>3. \/ _state' = LeavePrewait(_state)
        \/ _state' = [LeavePrewait(_state) EXCEPT !.stack = t]
    BY <1>7 DEF CancelInTurn, CommitInTurn
  <2>4. _state'.epoch = (_state.epoch + 1) % EpochMod /\ _state'.waiters = _state.waiters - 1
    BY <2>2, <2>3 DEF States
  <2>5. Turn(t) + 1 > 0 /\ 1 # 0
    BY <2>1
  <2>6. Passes(1)
    BY <1>4, <1>5, <2>4, <2>5 DEF Passes
  <2>7. 1 \in 0 .. _state.waiters
    <3>1. _state.waiters \in Nat
      BY DEF NotifierTypes, States
    <3>. QED BY <2>1, <3>1
  <2>. QED BY <2>6, <2>7
<1>. QED BY <1>6, <1>7

\* Thread t is not in pre-wait.
LEMMA NobodyPasses ==
  ASSUME NotifierTypes, Tickets, pc' = pc, NEW t \in Threads,
         npc[t] \notin {"out", "cancel", "commit"}, npc'[t] \notin {"cancel", "commit"},
         \A v \in Threads : v # t => npc'[v] = npc[v], epoch' = epoch,
         NEW k \in 0 .. _state.waiters,
         _state'.epoch = (_state.epoch + k) % EpochMod, _state'.waiters = _state.waiters - k,
         k = 0 => StackLoses
  PROVE  \E j \in 0 .. _state.waiters : Passes(j)
<1>1. \A w \in Workers : w \in Threads
  BY WaitersAre
<1>2. t \in Workers => pc[t] \notin Predicates
  BY DEF Tickets
<1>3. \A w \in Workers : Waits(w)' <=> Waits(w)
  BY <1>1, <1>2 DEF Waits, At, Predicates
<1>4. Passes(k)
  BY <1>3 DEF Passes
<1>. QED BY <1>4

LEMMA InsidePasses ==
  ASSUME NotifierTypes, NotifierTypes', Tickets, SleepersHeld, Lists, Glimpse, pc' = pc,
         NEW t \in Threads, NotifierStep(t)
  PROVE  \E k \in 0 .. _state.waiters : Passes(k)
<1>1. /\ Sleepers(_state.stack, npc, signal, hold, next)
      /\ _state.stack \in Waiters \cup {None} /\ next \in Pointers /\ next' \in Pointers
      /\ _state.waiters \in Nat /\ _state \in States
  BY SleepersAre DEF NotifierTypes, States, Pointers
<1>2. CASE t \in Waiters /\ (Notified(t) \/ CancelInTurn(t) \/ CommitInTurn(t))
  BY <1>2, WaiterPasses
<1>3. CASE Leave(t) /\ npc[t] \notin {"out", "cancel", "commit"} /\ epoch' = epoch
           /\ \E k \in 0 .. _state.waiters :
                /\ _state'.epoch = (_state.epoch + k) % EpochMod /\ _state'.waiters = _state.waiters - k
                /\ k = 0 => StackLoses
  <2>1. npc'[t] \in {"out", "load"} /\ \A v \in Threads : v # t => npc'[v] = npc[v]
    BY <1>3, Leaves
  <2>. QED BY <1>3, <2>1, NobodyPasses
<1>4. CASE (t \in Waiters /\ (Park(t) \/ Unparked(t))) \/ Load(t) \/ ReadNext(t) \/ ExchangeFails(t)
  <2>1. /\ npc[t] \notin {"out", "cancel", "commit"} /\ npc'[t] \notin {"cancel", "commit"}
        /\ \A v \in Threads : v # t => npc'[v] = npc[v]
    BY <1>4 DEF Park, Unparked, Load, ReadNext, ExchangeFails, NGoto, NotifierTypes
  <2>2. epoch' = epoch /\ _state' = _state /\ next' = next
    BY <1>4 DEF Park, Unparked, Load, ReadNext, ExchangeFails, waiting
  <2>3. StackLoses
    BY <2>2 DEF StackLoses
  <2>. QED BY <2>1, <2>2, <2>3, NoneLeaves, NobodyPasses
<1>5. CASE LoadNobody(t)
  <2>1. Leave(t) /\ npc[t] = "load" /\ epoch' = epoch /\ _state' = _state /\ next' = next
    BY <1>5 DEF LoadNobody, waiting
  <2>2. StackLoses
    BY <2>1 DEF StackLoses
  <2>. QED BY <1>3, <2>1, <2>2, NoneLeaves
<1>6. CASE NotifyAll(t)
  <2>1. /\ npc[t] = "load" /\ epoch' = epoch
        /\ _state' = [Nothing EXCEPT !.epoch = (_state.epoch + _state.waiters) % EpochMod]
    BY <1>6 DEF NotifyAll, waiting
  <2>2. /\ _state'.epoch = (_state.epoch + _state.waiters) % EpochMod /\ _state'.waiters = 0
        /\ _state'.stack = None /\ _state.waiters - _state.waiters = 0 /\ _state.waiters \in 0 .. _state.waiters
    BY <1>1, <2>1 DEF Nothing
  <2>3. StackLoses
    BY <2>2, LinkedNone DEF StackLoses
  <2>4. CASE Leave(t)
    BY <1>3, <2>1, <2>2, <2>3, <2>4
  <2>5. CASE NGoto(t, "unpark")
    <3>1. npc'[t] = "unpark" /\ \A v \in Threads : v # t => npc'[v] = npc[v]
      BY <2>5 DEF NGoto, NotifierTypes
    <3>. QED BY <2>1, <2>2, <2>3, <3>1, NobodyPasses
  <2>. QED BY <1>6, <2>4, <2>5 DEF NotifyAll
<1>7. CASE NotifyPrewait(t)
  <2>1. /\ npc[t] = "load" /\ epoch' = epoch /\ _state.waiters > 0
        /\ _state' = LeavePrewait(_state) /\ Leave(t)
    BY <1>7 DEF NotifyPrewait, waiting
  <2>2. _state'.epoch = (_state.epoch + 1) % EpochMod /\ _state'.waiters = _state.waiters - 1
    BY <2>1, LeavingPrewait
  <2>3. 1 \in 0 .. _state.waiters /\ 1 # 0
    BY <1>1, <2>1
  <2>. QED BY <1>3, <2>1, <2>2, <2>3
<1>8. CASE NotifyPop(t)
  <2>1. /\ npc[t] = "exchange" /\ seen[t] = _state /\ epoch' = epoch /\ next' = next
        /\ _state.stack \in Waiters /\ hold[t] = next[_state.stack]
        /\ _state' = [_state EXCEPT !.stack = hold[t]]
    BY <1>8, Popped DEF NotifyPop, waiting
  <2>2. /\ _state'.epoch = _state.epoch /\ _state'.waiters = _state.waiters
        /\ _state'.stack = next[_state.stack]
    BY <1>1, <2>1 DEF States
  <2>3. npc'[t] = "detach" /\ \A v \in Threads : v # t => npc'[v] = npc[v]
    BY <1>8 DEF NotifyPop, NGoto, NotifierTypes
  <2>4. StackLoses
    <3>1. /\ LinkedBy(next, _state.stack) = {_state.stack} \cup LinkedBy(next, next[_state.stack])
          /\ _state.stack \notin LinkedBy(next, next[_state.stack])
      BY <1>1, <2>1, LinkedFrom DEF Sleepers, Acyclic
    <3>. QED BY <2>1, <2>2, <3>1 DEF StackLoses
  <2>. QED BY <2>1, <2>2, <2>3, <2>4, NoneLeaves, NobodyPasses
<1>9. CASE Detach(t)
  <2>1. npc[t] = "detach" /\ epoch' = epoch /\ _state' = _state
    BY <1>9 DEF Detach
  <2>2. npc'[t] = "unpark" /\ \A v \in Threads : v # t => npc'[v] = npc[v]
    BY <1>9 DEF Detach, NGoto, NotifierTypes
  <2>3. StackLoses
    <3>1. t \in WakersBy(npc) /\ hold[t] \in HeldBy(npc, hold, next, t)
      BY <2>1 DEF WakersBy, HeldBy
    <3>2. hold[t] \in Waiters /\ hold[t] \notin LinkedBy(next, _state.stack)
      BY <1>1, <3>1 DEF Sleepers
    <3>3. \A v \in Waiters : v # hold[t] => next'[v] = next[v]
      BY <1>1, <1>9, <3>2 DEF Detach, Pointers
    <3>4. \A v \in LinkedBy(next, _state.stack) : next'[v] = next[v]
      BY <3>2, <3>3 DEF LinkedBy
    <3>5. LinkedBy(next', _state.stack) = LinkedBy(next, _state.stack)
      BY <1>1, <3>4, LinkedAlike
    <3>. QED BY <2>1, <3>4, <3>5 DEF StackLoses
  <2>. QED BY <2>1, <2>2, <2>3, NoneLeaves, NobodyPasses
<1>10. CASE Unpark(t)
  <2>1. npc[t] = "unpark" /\ epoch' = epoch /\ _state' = _state /\ next' = next
    BY <1>10 DEF Unpark
  <2>2. StackLoses
    BY <2>1 DEF StackLoses
  <2>3. CASE Leave(t)
    BY <1>3, <2>1, <2>2, <2>3, NoneLeaves
  <2>4. CASE npc' = npc
    BY <2>1, <2>2, <2>4, NoneLeaves, NobodyPasses
  <2>. QED BY <1>10, <2>3, <2>4 DEF Unpark
<1>. QED BY <1>2, <1>4, <1>5, <1>6, <1>7, <1>8, <1>9, <1>10 DEF NotifierStep

LEMMA OutsidePasses ==
  ASSUME NotifierTypes, Without \/ Decides \/ Rouses
  PROVE  Passes(0)
<1>1. _state' = _state /\ next' = next /\ epoch' = epoch /\ SameWaits
  BY DEF Without, notifierVars, Decides, CancelWait, CommitWait, Rouses, Notify, NotifyN, waiting
<1>. QED BY <1>1, NoneLeaves DEF Passes, SameWaits, StackLoses

LEMMA TicketsKeep ==
  ASSUME NotifierTypes, NotifierTypes', Tickets, SleepersHeld, Lists, Glimpse, Punctual, Sober',
         Inside \/ Without \/ Begins \/ Decides \/ Rouses
  PROVE  Tickets'
<1>1. CASE Begins
  BY <1>1, TicketsBegin
<1>2. ASSUME NEW k \in 0 .. _state.waiters, Passes(k) PROVE Tickets'
  BY <1>2, TicketsMove DEF Passes
<1>3. CASE Inside
  BY <1>2, <1>3, InsidePasses DEF Inside
<1>4. CASE Without \/ Decides \/ Rouses
  BY <1>2, <1>4, OutsidePasses, NoneLeaves
<1>. QED BY <1>1, <1>3, <1>4

-----------------------------------------------------------------------------
(* What notifiers have seen.                                                *)

GlimpseOf(t) ==
  npc[t] \in Waking =>
  /\ Behind(t) >= 0 /\ ~all[t] /\ seen[t].waiters = 0 /\ seen[t].stack # None
  /\ Behind(t) = 0 /\ seen[t].stack \in LinkedBy(next, _state.stack) =>
       /\ seen[t].stack = _state.stack
       /\ npc[t] = "exchange" => hold[t] = next[seen[t].stack]

LEMMA GlimpseIs == Glimpse <=> \A t \in Threads : GlimpseOf(t)
BY LinkedIs DEF Glimpse, GlimpseOf, Waking

LEMMA GlimpseIsNext == Glimpse' <=> \A t \in Threads : GlimpseOf(t)'
<1>1. Glimpse' <=> (\A t \in Threads : GlimpseOf(t))'
  BY GlimpseIs, PTL
<1>. QED BY <1>1

\* Of a thread that does nothing itself.
LEMMA GlimpseStays ==
  ASSUME NotifierTypes, NotifierTypes', Tickets, Punctual, NEW t \in Threads, GlimpseOf(t),
         npc'[t] = npc[t], seen'[t] = seen[t], hold'[t] = hold[t], all'[t] = all[t],
         NEW k \in 0 .. _state.waiters, _state'.epoch = (_state.epoch + k) % EpochMod, k = 0 => StackLoses
  PROVE  GlimpseOf(t)'
<1>. SUFFICES ASSUME npc[t] \in Waking PROVE GlimpseOf(t)'
  BY DEF GlimpseOf, Waking
<1>1. Behind(t) \in Int /\ Behind(t)' = Behind(t) + k /\ Behind(t) >= 0
  BY BehindMoves DEF GlimpseOf, Waking
<1>2. Behind(t)' >= 0 /\ (Behind(t)' = 0 => k = 0 /\ Behind(t) = 0)
  BY <1>1
<1>3. ~all[t] /\ seen[t].waiters = 0 /\ seen[t].stack # None
  BY DEF GlimpseOf
<1>4. ASSUME Behind(t)' = 0, seen[t].stack \in LinkedBy(next', _state'.stack)
      PROVE  /\ seen[t].stack = _state'.stack
             /\ npc[t] = "exchange" => hold[t] = next'[seen[t].stack]
  <2>1. StackLoses /\ Behind(t) = 0
    BY <1>2, <1>4
  <2>2. /\ seen[t].stack \in LinkedBy(next, _state.stack)
        /\ seen[t].stack = _state.stack => seen[t].stack = _state'.stack /\ next'[seen[t].stack] = next[seen[t].stack]
    BY <1>4, <2>1 DEF StackLoses
  <2>. QED BY <2>1, <2>2 DEF GlimpseOf
<1>5. Behind(t)' >= 0 /\ ~all'[t] /\ seen'[t].waiters = 0 /\ seen'[t].stack # None
  BY <1>2, <1>3
<1>6. Behind(t)' = 0 /\ seen'[t].stack \in LinkedBy(next', _state'.stack) =>
        /\ seen'[t].stack = _state'.stack
        /\ npc'[t] = "exchange" => hold'[t] = next'[seen'[t].stack]
  BY <1>4
<1>. QED BY <1>5, <1>6 DEF GlimpseOf, Waking, LinkedBy

LEMMA GlimpseTaken ==
  ASSUME NotifierTypes, NEW t \in Threads, Load(t)
  PROVE  GlimpseOf(t)'
<1>1. /\ npc'[t] = "readNext" /\ _state' = _state /\ next' = next /\ all' = all /\ seen'[t] = _state
      /\ ~all[t] /\ _state.waiters = 0 /\ _state.stack # None
  BY DEF Load, NGoto, NotifierTypes, waiting
<1>2. _state.epoch \in Epochs /\ _state.waiters \in Nat
  BY DEF NotifierTypes, States
<1>3. Lag(_state.epoch, _state.epoch) = 0
  <2>1. 2 * 0 < EpochMod
    BY WaitersAre
  <2>. QED BY <1>2, <2>1, NoneLeaves, TicketLag
<1>4. Behind(t)' = 0
  BY <1>1, <1>3 DEF Behind, Lag
<1>. QED BY <1>1, <1>4 DEF GlimpseOf, Waking

LEMMA GlimpseRead ==
  ASSUME NotifierTypes, NEW t \in Threads, GlimpseOf(t), ReadNext(t)
  PROVE  GlimpseOf(t)'
<1>1. /\ npc[t] = "readNext" /\ npc'[t] = "exchange" /\ _state' = _state /\ next' = next
      /\ seen' = seen /\ all' = all /\ hold'[t] = next[seen[t].stack]
  BY DEF ReadNext, NGoto, NotifierTypes, waiting
<1>2. Behind(t)' = Behind(t)
  BY <1>1 DEF Behind, Lag
<1>3. /\ Behind(t) >= 0 /\ ~all[t] /\ seen[t].waiters = 0 /\ seen[t].stack # None
      /\ Behind(t) = 0 /\ seen[t].stack \in LinkedBy(next, _state.stack) => seen[t].stack = _state.stack
  BY <1>1 DEF GlimpseOf, Waking
<1>. QED BY <1>1, <1>2, <1>3 DEF GlimpseOf, LinkedBy

LEMMA GlimpseKeeps ==
  ASSUME NotifierTypes, NotifierTypes', Tickets, SleepersHeld, Lists, Glimpse, Punctual,
         Inside \/ Without \/ Begins \/ Decides \/ Rouses
  PROVE  Glimpse'
<1>1. \A t \in Threads : GlimpseOf(t)
  BY GlimpseIs
<1>2. CASE Inside
  <2>1. PICK t \in Threads : NotifierStep(t) /\ pc' = pc
    BY <1>2 DEF Inside
  <2>2. PICK k \in 0 .. _state.waiters : Passes(k)
    BY <2>1, InsidePasses
  <2>3. \A s \in Threads : s # t => npc'[s] = npc[s] /\ seen'[s] = seen[s] /\ hold'[s] = hold[s] /\ all'[s] = all[s]
    <3>1. CASE Leave(t)
      BY <3>1, Leaves
    <3>2. CASE ~Leave(t)
      BY <2>1, <3>2 DEF NotifierStep, Notified, CancelInTurn, CommitInTurn, Park, Unparked,
           LoadNobody, Load, ReadNext, ExchangeFails, NotifyAll, NotifyPrewait, NotifyPop, Detach, Unpark,
           NGoto, notifying, NotifierTypes
    <3>. QED BY <3>1, <3>2
  <2>4. ASSUME NEW s \in Threads, s # t PROVE GlimpseOf(s)'
    BY <1>1, <2>2, <2>3, <2>4, GlimpseStays DEF Passes
  <2>5. GlimpseOf(t)'
    <3>1. CASE Load(t)
      BY <3>1, GlimpseTaken
    <3>2. CASE ReadNext(t)
      BY <1>1, <3>2, GlimpseRead
    <3>3. CASE ~Load(t) /\ ~ReadNext(t)
      <4>1. npc'[t] \notin Waking
        <5>1. CASE Leave(t)
          BY <5>1, Leaves DEF Waking
        <5>2. CASE ~Leave(t)
          BY <2>1, <3>3, <5>2 DEF NotifierStep, Notified, CancelInTurn, CommitInTurn, Park, Unparked,
           LoadNobody, ExchangeFails, NotifyAll, NotifyPrewait, NotifyPop, Detach, Unpark,
           NGoto, NotifierTypes, Waking
        <5>. QED BY <5>1, <5>2
      <4>. QED BY <4>1 DEF GlimpseOf, Waking
    <3>. QED BY <3>1, <3>2, <3>3
  <2>. QED BY <2>4, <2>5, GlimpseIsNext
<1>3. CASE Without \/ Begins \/ Decides \/ Rouses
  <2>1. _state'.epoch = _state.epoch /\ _state'.stack = _state.stack /\ next' = next /\ seen' = seen /\ hold' = hold
    <3>1. CASE Begins
      <4>1. PICK w \in Workers : PrepareWait(w)
        BY <3>1 DEF Begins
      <4>. QED BY <4>1 DEF PrepareWait, notifying, NotifierTypes, States
    <3>2. CASE Without \/ Decides \/ Rouses
      BY <3>2 DEF Without, notifierVars, Decides, CancelWait, CommitWait, Rouses, Notify, NotifyN,
                  waiting, notifying
    <3>. QED BY <1>3, <3>1, <3>2
  <2>2. \A s \in Threads : npc'[s] \in Waking => npc'[s] = npc[s] /\ all'[s] = all[s]
    <3>0. \A w \in Workers : w \in Threads
      BY WaitersAre
    <3>1. CASE Without
      BY <3>1 DEF Without, notifierVars
    <3>2. CASE Begins
      <4>1. PICK w \in Workers : PrepareWait(w)
        BY <3>2 DEF Begins
      <4>. QED BY <4>1 DEF PrepareWait, notifying
    <3>3. CASE Decides
      <4>1. PICK w \in Workers : CancelWait(w) \/ CommitWait(w)
        BY <3>3 DEF Decides
      <4>2. npc'[w] \in {"cancel", "commit"} /\ (\A s \in Threads : s # w => npc'[s] = npc[s]) /\ all' = all
        BY <3>0, <4>1 DEF CancelWait, CommitWait, NGoto, notifying, NotifierTypes
      <4>. QED BY <4>2 DEF Waking
    <3>4. CASE Rouses
      <4>1. PICK t \in Threads : (\E a \in BOOLEAN : Notify(t, a)) \/ \E n \in Nat : NotifyN(t, n)
        BY <3>4 DEF Rouses
      <4>2. npc'[t] = "load" /\ \A s \in Threads : s # t => npc'[s] = npc[s] /\ all'[s] = all[s]
        BY <4>1 DEF Notify, NotifyN, NGoto, NotifierTypes
      <4>. QED BY <4>2 DEF Waking
    <3>. QED BY <1>3, <3>1, <3>2, <3>3, <3>4
  <2>3. StackLoses
    BY <2>1 DEF StackLoses
  <2>4. ASSUME NEW s \in Threads PROVE GlimpseOf(s)'
    <3>1. CASE npc'[s] \notin Waking
      BY <3>1 DEF GlimpseOf, Waking
    <3>2. CASE npc'[s] \in Waking
      BY <1>1, <2>1, <2>2, <2>3, <3>2, NoneLeaves, GlimpseStays
    <3>. QED BY <3>1, <3>2
  <2>. QED BY <2>4, GlimpseIsNext
<1>. QED BY <1>2, <1>3

-----------------------------------------------------------------------------
(* The notifier's theorems.                                                 *)

LEMMA NotifierInduction ==
  NInv /\ Types /\ Punctual /\ [Next]_vars => NInv'
<1>. SUFFICES ASSUME NInv, Types, Punctual, [Next]_vars PROVE NInv'
  OBVIOUS
<1>1. NotifierTypes /\ Tickets /\ SleepersHeld /\ Lists /\ Glimpse /\ Sober
  BY DEF NInv, Tickets, Sober
<1>2. Sober' /\ (Inside \/ Without \/ Begins \/ Decides \/ Rouses)
  BY <1>1, Moves
<1>3. NotifierTypes'
  <2>1. CASE Inside
    BY <1>1, <2>1, InsideTypes DEF Inside
  <2>. QED BY <1>1, <1>2, <2>1, OutsideTypes
<1>4. (SleepersHeld /\ Lists)'
  <2>1. CASE Inside
    BY <1>1, <1>3, <2>1, InsideSleepers DEF Inside
  <2>. QED BY <1>1, <1>2, <2>1, OutsideSleepers
<1>5. Tickets'
  BY <1>1, <1>2, <1>3, TicketsKeep
<1>6. Glimpse'
  BY <1>1, <1>2, <1>3, GlimpseKeeps
<1>. QED BY <1>3, <1>4, <1>5, <1>6 DEF NInv

LEMMA NotifierBegins == Init => NInv
<1>. SUFFICES ASSUME Init PROVE NInv
  OBVIOUS
<1>1. /\ npc = [t \in Threads |-> "out"] /\ _state.stack = None /\ _state.waiters = 0
      /\ _state.epoch = (EpochMod - 1 - 2 * Cardinality(Waiters)) % EpochMod
      /\ \A t \in Threads : npc[t] = "out"
  BY WaitersAre DEF Init, NotifierInit, Nothing
<1>2. NotifierTypes
  <2>1. (EpochMod - 1 - 2 * Cardinality(Waiters)) % EpochMod \in Epochs
    <3>1. EpochMod - 1 - 2 * Cardinality(Waiters) \in Nat /\ EpochMod - 1 - 2 * Cardinality(Waiters) < EpochMod
      BY WaitersAre
    <3>2. (EpochMod - 1 - 2 * Cardinality(Waiters)) % EpochMod = EpochMod - 1 - 2 * Cardinality(Waiters)
      BY <3>1, WaitersAre, Remainder
    <3>. QED BY <3>1, <3>2, WaitersAre DEF Epochs
  <2>2. _state \in States
    BY <2>1, NothingIs DEF Init, NotifierInit, States
  <2>3. 0 \in Epochs
    BY WaitersAre DEF Epochs
  <2>4. /\ next \in [Waiters -> Waiters \cup {None}] /\ epoch \in [Waiters -> Epochs]
        /\ signal \in [Waiters -> {"kNotSignaled", "kWaiting", "kSignaled"}]
    BY <2>3 DEF Init, NotifierInit
  <2>5. /\ npc \in [Threads -> {"out"} \cup WaiterPlaces \cup NotifyPlaces]
        /\ \A t \in Threads : npc[t] \in WaiterPlaces => t \in Waiters
    BY <1>1 DEF WaiterPlaces
  <2>6. /\ seen \in [Threads -> States] /\ hold \in [Threads -> Waiters \cup {None}]
        /\ all \in [Threads -> BOOLEAN] /\ times \in [Threads -> Int]
    BY NothingIs, WaitersAre DEF Init, NotifierInit
  <2>. QED BY <2>2, <2>4, <2>5, <2>6 DEF NotifierTypes
<1>3. Tickets
  <2>1. \A w \in Workers : w \in Threads /\ w # Owner
    BY WaitersAre DEF Threads
  <2>2. \A w \in Workers : pc[w] = "explore" /\ npc[w] = "out"
    BY <1>1, <2>1 DEF Init
  <2>3. Prewaiters = {}
    BY <2>2, PrewaitersAre DEF Waits, At
  <2>4. \A w \in Workers : pc[w] \notin Predicates
    BY <2>2 DEF Predicates
  <2>5. 0 .. _state.waiters - 1 = {}
    BY <1>1
  <2>. QED BY <2>3, <2>4, <2>5 DEF Tickets
<1>4. SleepersHeld /\ Lists
  <2>1. /\ WakersBy(npc) = {} /\ AsleepBy(npc, signal) = {}
        /\ \A w \in Waiters : npc[w] # "commit" /\ npc[w] # "parked"
    BY <1>1, WaitersAre DEF WakersBy, AsleepBy
  <2>2. LinkedBy(next, _state.stack) = {}
    BY <1>1, LinkedNone
  <2>3. Sleepers(_state.stack, npc, signal, hold, next)
    BY <2>1, <2>2 DEF Sleepers, Acyclic
  <2>. QED BY <2>3, SleepersAre
<1>5. Glimpse
  BY <1>1 DEF Glimpse
<1>. QED BY <1>2, <1>3, <1>4, <1>5 DEF NInv

LEMMA NotifierHolds == Spec /\ []Punctual => []NInv
<1>1. Init => NInv
  BY NotifierBegins
<1>2. NInv /\ Types /\ Punctual /\ [Next]_vars => NInv'
  BY NotifierInduction
<1>3. Spec => []Types
  <2>1. IInv => Types
    BY DEF IInv
  <2>. QED BY <2>1, Inductive, PTL
<1>. QED BY <1>1, <1>2, <1>3, PTL DEF Spec

(* While nobody lags behind by half of all epochs, those in pre-wait that   *)
(* nobody has notified hold the tickets from the epoch on, one each: the    *)
(* assertions of notifier.hpp:132 and 164.                                  *)
THEOREM TicketsHold == Spec /\ []Punctual => []TicketsInOrder
<1>1. NInv => TicketsInOrder
  BY TicketsOrdered DEF NInv
<1>. QED BY <1>1, NotifierHolds, PTL

(* And every thread that has committed to sleep is linked from the stack or *)
(* held by exactly one notifier: no compare-exchange of notifier.hpp:188-212 *)
(* succeeds over a stack that has changed and changed back.                 *)
THEOREM NoSleeperLost == Spec /\ []Punctual => []SleepersHeld
<1>1. NInv => SleepersHeld
  BY DEF NInv
<1>. QED BY <1>1, NotifierHolds, PTL

-----------------------------------------------------------------------------
(* Thieves that sleep, and tasks that wait.                                 *)

\* A thief is in pre-wait, or about to prepare or to leave it, where the
\* executor calls the notifier.
Placed ==
  \A w \in Workers :
    /\ npc[w] \in {"commit", "park", "parked"} => pc[w] = "explore"
    /\ npc[w] = "cancel" => pc[w] \in {"retry", "leave"}

\* The executor is destroyed when nothing is left to run.
Finished == {w \in Workers : pc[w] = "finished"}
Closing ==
  /\ \A w \in Workers : pc[w] \in {"leave", "exited"} => _done
  /\ _done => topologies = <<>> /\ pc[Owner] \in {"join", "destroyed"}
  /\ _num_topologies = Len(topologies) + Cardinality(Finished)

\* Workers that sleep or will, unless they see a task or are notified; and
\* those that will look into queue q before they sleep.
Idle == Prewaiters \cup Asleep
Sees(w, q) ==
  \/ pc[w] \in {"retry", "checkShared"}
  \/ pc[w] \in {"explore", "checkDone", "scan"} /\ w \notin Idle
  \/ pc[w] = "checkDone" /\ q \in Workers
  \/ pc[w] = "scan" /\ q \in Workers /\ q >= _vtm[w]

\* No queue with a task is overlooked while no notification is on its way.
Watched(q) == Idle = {} \/ \E w \in Workers : Sees(w, q)
Settled == \A t \in Threads : npc[t] \notin NotifyPlaces
Watching == Settled => \A q \in Queues : queue[q] # <<>> => Watched(q)

\* Scan goes over the workers' queues.
Scanning == \A w \in Workers : pc[w] = "scan" => _vtm[w] \in Workers

WInv == Placed /\ Closing /\ Scanning /\ Watching

\* A thread inside a call of the notifier stays where it is.
LEMMA StaysInCall ==
  ASSUME Types, [Next]_vars, NEW t \in Threads, npc[t] # "out"
  PROVE  pc'[t] = pc[t]
<1>0. pc \in [Threads -> Whereabouts] /\ Workers \subseteq Threads
  BY WorkersAre DEF Types
<1>1. ASSUME NEW w \in Threads, npc[w] = "out" \/ npc[w] # "out",
             pc' = pc \/ (npc[w] = "out" /\ \E place \in Whereabouts : pc' = [pc EXCEPT ![w] = place])
      PROVE  pc'[t] = pc[t]
  BY <1>0, <1>1
<1>2. CASE Submit \/ Unlock \/ Cancel \/ ShutDown \/ Join
  <2>1. pc' = pc \/ (npc[Owner] = "out" /\ \E place \in Whereabouts : pc' = [pc EXCEPT ![Owner] = place])
    BY <1>2 DEF Submit, Unlock, Cancel, ShutDown, Join, At, Goto, Whereabouts
  <2>. QED BY <1>1, <2>1, WorkersAre
<1>3. CASE Stopped \/ UNCHANGED vars
  BY <1>3 DEF Stopped, vars, executorVars
<1>4. ASSUME NEW w \in Threads, InNotifier(w) PROVE pc' = pc
  BY <1>4 DEF InNotifier, executorVars
<1>5. ASSUME NEW w \in Workers,
             \/ Steal(w) \/ Retry(w) \/ Exit(w) \/ Finish(w) \/ Decrement(w) \/ Schedule(w)
             \/ GiveUp(w) \/ CheckShared(w) \/ CheckDone(w) \/ Scan(w)
      PROVE  pc'[t] = pc[t]
  <2>1. pc' = pc \/ (npc[w] = "out" /\ \E place \in Whereabouts : pc' = [pc EXCEPT ![w] = place])
    <3>1. CASE Steal(w) \/ Retry(w) \/ Exit(w) \/ Finish(w) \/ Decrement(w) \/ Schedule(w)
      BY <3>1 DEF Steal, Retry, Exit, Finish, Decrement, Schedule, StealFrom, Goto, At, Whereabouts
    <3>2. CASE GiveUp(w) \/ CheckShared(w) \/ CheckDone(w) \/ Scan(w)
      BY <3>2 DEF GiveUp, CheckShared, CheckDone, Scan, SeesTask, Goto, At, Whereabouts
    <3>. QED BY <1>5, <3>1, <3>2
  <2>. QED BY <1>0, <1>1, <2>1
<1>6. ASSUME NEW w \in Workers,
             \/ SkipCancelled(w) \/ Invoke(w) \/ Successor(w) \/ TearDown(w) \/ Pop(w)
             \/ RunAgain(w) \/ RunNext(w)
      PROVE  pc'[t] = pc[t]
  <2>1. pc' = pc \/ (npc[w] = "out" /\ \E place \in Whereabouts : pc' = [pc EXCEPT ![w] = place])
    BY <1>6 DEF SkipCancelled, Invoke, Successor, TearDown, Pop, RunAgain, RunNext, NextTask, Goto, At,
                Whereabouts
  <2>. QED BY <1>0, <1>1, <2>1
<1>. QED BY <1>0, <1>2, <1>3, <1>4, <1>5, <1>6, WorkersAre DEF Next, Own, Work

LEMMA NextPlaced ==
  ASSUME Types, NotifierTypes, Sober, Placed, [Next]_vars
  PROVE  Placed'
<1>0. /\ pc \in [Threads -> Whereabouts] /\ Workers \subseteq Threads
      /\ npc \in [Threads -> {"out"} \cup WaiterPlaces \cup NotifyPlaces]
  BY WorkersAre DEF Types, NotifierTypes
\* A step that takes nobody into cancel_wait or commit_wait.
<1>1. ASSUME \A w \in Workers : npc'[w] \in {"commit", "park", "parked"} =>
                                   npc[w] \in {"commit", "park", "parked"},
             \A w \in Workers : npc'[w] = "cancel" => npc[w] = "cancel"
      PROVE  Placed'
  <2>1. ASSUME NEW w \in Workers, npc[w] \in {"commit", "park", "parked", "cancel"} PROVE pc'[w] = pc[w]
    BY <1>0, <2>1, StaysInCall
  <2>. QED BY <1>1, <2>1 DEF Placed
<1>2. ASSUME NEW w \in Workers, CheckShared(w) \/ CheckDone(w) \/ Scan(w) PROVE Placed'
  <2>1. npc[w] = "out" /\ w \in Threads
    BY <1>0, <1>2 DEF CheckShared, CheckDone, Scan, At
  <2>2. \/ UNCHANGED notifierVars
        \/ CancelWait(w) /\ \E place \in {"retry", "leave"} : Goto(w, place)
        \/ CommitWait(w) /\ Goto(w, "explore")
    BY <1>2 DEF CheckShared, CheckDone, Scan, SeesTask
  <2>3. CASE UNCHANGED notifierVars
    BY <1>1, <2>3 DEF notifierVars
  <2>4. ASSUME CancelWait(w), NEW place \in {"retry", "leave"}, Goto(w, place) PROVE Placed'
    <3>1. npc'[w] = "cancel" /\ pc'[w] \in {"retry", "leave"}
          /\ \A v \in Workers : v # w => npc'[v] = npc[v] /\ pc'[v] = pc[v]
      BY <1>0, <2>1, <2>4 DEF CancelWait, NGoto, Goto
    <3>. QED BY <3>1 DEF Placed
  <2>5. CASE CommitWait(w) /\ Goto(w, "explore")
    <3>1. npc'[w] = "commit" /\ pc'[w] = "explore"
          /\ \A v \in Workers : v # w => npc'[v] = npc[v] /\ pc'[v] = pc[v]
      BY <1>0, <2>1, <2>5 DEF CommitWait, NGoto, Goto
    <3>. QED BY <3>1 DEF Placed
  <2>. QED BY <2>2, <2>3, <2>4, <2>5
<1>3. CASE Without \/ Begins \/ Rouses
  <2>1. npc' = npc \/ \E t \in Threads : npc' = [npc EXCEPT ![t] = "load"]
    BY <1>3 DEF Without, notifierVars, Begins, PrepareWait, Rouses, Notify, NotifyN, NGoto
  <2>. QED BY <1>0, <1>1, <2>1
<1>4. CASE Inside
  <2>1. PICK t \in Threads : NotifierStep(t)
    BY <1>4 DEF Inside
  <2>2. /\ \A v \in Threads : v # t => npc'[v] = npc[v]
        /\ npc'[t] # "cancel"
        /\ npc'[t] \in {"commit", "park", "parked"} => npc[t] \in {"commit", "park", "parked"}
    BY <1>0, <2>1 DEF NotifierStep, Notified, CancelInTurn, CommitInTurn, Park, Unparked, LoadNobody, Load,
              ReadNext, ExchangeFails, NotifyAll, NotifyPrewait, NotifyPop, Detach, Unpark, NGoto, Leave
  <2>. QED BY <1>0, <1>1, <2>2
<1>5. CASE Decides
  BY <1>2, <1>5 DEF Decides
<1>. QED BY <1>2, <1>3, <1>4, <1>5, Moves

LEMMA NothingWhenDone == ASSUME IInv, Closing, _done PROVE \A q \in Queues : queue[q] = <<>>
<1>1. left = 0
  BY DEF Closing, IInv, Counts
<1>. QED BY <1>1, NothingLeft

LEMMA FinishedIs == IsFiniteSet(Finished) /\ Cardinality(Finished) \in Nat /\ Finished \subseteq Workers
<1>1. Finished \subseteq Workers
  BY DEF Finished
<1>. QED BY <1>1, WaitersAre, FS_Subset, FS_CardinalityType

LEMMA NextClosing ==
  ASSUME IInv, Closing, [Next]_vars
  PROVE  Closing'
<1>0. /\ pc \in [Threads -> Whereabouts] /\ Workers \subseteq Threads /\ Owner \in Threads
      /\ Owner \notin Workers
  BY WorkersAre DEF IInv, Types
<1>1. ASSUME Len(topologies') = Len(topologies), topologies = <<>> => topologies' = <<>>,
             _num_topologies' = _num_topologies, _done' = _done,
             \A w \in Workers : pc'[w] = "finished" <=> pc[w] = "finished",
             \A w \in Workers : pc'[w] \in {"leave", "exited"} => pc[w] \in {"leave", "exited"} \/ _done,
             _done => pc'[Owner] \in {"join", "destroyed"}
      PROVE  Closing'
  <2>1. Finished' = Finished
    BY <1>1 DEF Finished
  <2>. QED BY <1>1, <2>1 DEF Closing
<1>2. ASSUME UNCHANGED executorVars PROVE Closing'
  BY <1>2 DEF executorVars, topologyVars, Closing, Finished
<1>3. CASE Stopped \/ UNCHANGED vars \/ \E t \in Threads : InNotifier(t)
  BY <1>2, <1>3 DEF Stopped, vars, InNotifier
\* Worker w goes from one place to another, the topologies as they are.
<1>4. ASSUME NEW w \in Workers, UNCHANGED <<topologies, _num_topologies, _done>>,
             \/ pc' = pc
             \/ \E place \in Whereabouts \ {"finished"} :
                  /\ pc' = [pc EXCEPT ![w] = place] /\ pc[w] # "finished"
                  /\ place \in {"leave", "exited"} => pc[w] = "leave" \/ _done
      PROVE  Closing'
  <2>1. w # Owner /\ \A v \in Threads : v # w => pc'[v] = pc[v]
    BY <1>0, <1>4
  <2>2. /\ pc'[w] = "finished" <=> pc[w] = "finished"
        /\ pc'[w] \in {"leave", "exited"} => pc[w] \in {"leave", "exited"} \/ _done
    BY <1>0, <1>4
  <2>. QED BY <1>0, <1>1, <1>4, <2>1, <2>2 DEF Closing
<1>5. ASSUME NEW w \in Workers,
             \/ Steal(w) \/ Retry(w) \/ Exit(w) \/ Schedule(w)
             \/ GiveUp(w) \/ CheckShared(w) \/ CheckDone(w) \/ Scan(w)
      PROVE  Closing'
  <2>1. CASE Steal(w) \/ Retry(w) \/ Exit(w) \/ Schedule(w)
    <3>1. UNCHANGED <<topologies, _num_topologies, _done>>
      BY <2>1 DEF Steal, Retry, Exit, Schedule, StealFrom, topologyVars
    <3>2. CASE Steal(w)
      <4>1. pc[w] = "explore" /\ pc' = [pc EXCEPT ![w] = "invoke"]
        BY <3>2 DEF Steal, StealFrom, Goto, At
      <4>2. "invoke" \in Whereabouts \ {"finished"} /\ "invoke" \notin {"leave", "exited"} /\ pc[w] # "finished"
        BY <4>1 DEF Whereabouts
      <4>. HIDE DEF Whereabouts
      <4>. QED BY <1>4, <3>1, <4>1, <4>2
    <3>3. CASE Retry(w)
      <4>1. pc[w] = "retry" /\ (pc' = [pc EXCEPT ![w] = "invoke"] \/ pc' = [pc EXCEPT ![w] = "explore"])
        BY <3>3 DEF Retry, StealFrom, Goto, At
      <4>2. PICK l \in {"invoke", "explore"} : pc' = [pc EXCEPT ![w] = l]
        BY <4>1
      <4>3. l \in Whereabouts \ {"finished"} /\ l \notin {"leave", "exited"} /\ pc[w] # "finished"
        BY <4>1, <4>2 DEF Whereabouts
      <4>. HIDE DEF Whereabouts
      <4>. QED BY <1>4, <3>1, <4>2, <4>3
    <3>4. CASE Exit(w)
      BY <1>4, <3>1, <3>4 DEF Exit, Goto, At, Whereabouts
    <3>5. CASE Schedule(w)
      BY <1>4, <3>1, <3>5 DEF Schedule, Goto, At, Whereabouts
    <3>. QED BY <2>1, <3>2, <3>3, <3>4, <3>5
  <2>2. CASE GiveUp(w) \/ CheckShared(w) \/ CheckDone(w) \/ Scan(w)
    BY <1>4, <2>2 DEF GiveUp, CheckShared, CheckDone, Scan, SeesTask, Goto, At, topologyVars, Whereabouts
  <2>. QED BY <1>5, <2>1, <2>2
<1>6. ASSUME NEW w \in Workers, SkipCancelled(w) \/ Invoke(w) \/ Successor(w) \/ TearDown(w) \/ Pop(w)
      PROVE  Closing'
  <2>1. UNCHANGED <<topologies, _num_topologies, _done>>
    BY <1>6 DEF SkipCancelled, Invoke, Successor, TearDown, Pop, topologyVars
  <2>2. CASE SkipCancelled(w)
    <3>1. /\ \E place \in {"topology", "pop"} : pc' = [pc EXCEPT ![w] = place]
          /\ pc[w] = "invoke"
      BY <2>2 DEF SkipCancelled, Goto, At
    <3>. QED BY <1>4, <2>1, <3>1 DEF Whereabouts
  <2>3. CASE Invoke(w)
    <3>1. pc[w] = "invoke" /\ pc' = [pc EXCEPT ![w] = "successors"]
      BY <2>3 DEF Invoke, Goto, At
    <3>2. "successors" \in Whereabouts \ {"finished"} /\ "successors" \notin {"leave", "exited"}
          /\ pc[w] # "finished"
      BY <3>1 DEF Whereabouts
    <3>. QED BY <1>4, <2>1, <3>1, <3>2
  <2>4. CASE Successor(w)
    BY <1>4, <2>1, <2>4 DEF Successor
  <2>5. CASE TearDown(w)
    BY <1>4, <2>1, <2>5 DEF TearDown, NextTask, Goto, At, Whereabouts
  <2>6. CASE Pop(w)
    BY <1>4, <2>1, <2>6 DEF Pop, Goto, At, Whereabouts
  <2>. QED BY <1>6, <2>2, <2>3, <2>4, <2>5, <2>6
<1>7. ASSUME NEW w \in Workers, RunAgain(w) PROVE Closing'
  <2>1. /\ pc' = [pc EXCEPT ![w] = "schedule"] /\ pc[w] = "topology"
        /\ _num_topologies' = _num_topologies /\ _done' = _done
        /\ topologies' = [topologies EXCEPT ![1].repeat = @ - 1]
    BY <1>7 DEF RunAgain, Goto, At
  <2>2. topologies # <<>>
    BY <2>1 DEF IInv, Counts
  <2>3. Len(topologies') = Len(topologies)
    <3>1. topologies' = [topologies EXCEPT ![1] = [topologies[1] EXCEPT !.repeat = @ - 1]]
      BY <2>1
    <3>2. [topologies[1] EXCEPT !.repeat = @ - 1] \in [repeat : Int, cancelled : BOOLEAN]
          /\ 1 \in 1 .. Len(topologies)
      BY <2>2, TopologiesAre DEF IInv
    <3>. QED BY <3>1, <3>2, ExceptSeq DEF IInv, Types
  <2>4. /\ pc'[w] = "schedule" /\ \A v \in Threads : v # w => pc'[v] = pc[v]
    BY <1>0, <2>1
  <2>. QED BY <1>0, <1>1, <2>1, <2>2, <2>3, <2>4 DEF Closing
<1>8. ASSUME NEW w \in Workers, RunNext(w) PROVE Closing'
  <2>1. /\ pc' = [pc EXCEPT ![w] = "schedule"] /\ pc[w] = "topology"
        /\ _num_topologies' = _num_topologies - 1 /\ _done' = _done /\ topologies' = Tail(topologies)
    BY <1>8 DEF RunNext, Goto, At
  <2>2. topologies # <<>> /\ ~_done
    BY <2>1 DEF IInv, Counts, Closing
  <2>3. Len(topologies') = Len(topologies) - 1
    <3>1. topologies \in Seq([repeat : Int, cancelled : BOOLEAN])
      BY DEF IInv, Types
    <3>. QED BY <2>1, <2>2, <3>1, HeadTailProperties
  <2>4. /\ pc'[w] = "schedule" /\ \A v \in Threads : v # w => pc'[v] = pc[v]
    BY <1>0, <2>1
  <2>5. Finished' = Finished
    BY <1>0, <2>1, <2>4 DEF Finished
  <2>6. _num_topologies' = Len(topologies') + Cardinality(Finished')
    <3>1. PICK l \in Nat, f \in Nat : l = Len(topologies) /\ f = Cardinality(Finished)
      BY <2>2, TopologiesAre, FinishedIs DEF IInv
    <3>2. _num_topologies = l + f
      BY <3>1 DEF Closing
    <3>3. _num_topologies' = l + f - 1 /\ Len(topologies') = l - 1 /\ Cardinality(Finished') = f
      BY <2>1, <2>3, <2>5, <3>1, <3>2
    <3>. QED BY <3>1, <3>3
  <2>7. ~_done' /\ \A v \in Workers : pc'[v] \notin {"leave", "exited"}
    BY <1>0, <2>1, <2>2, <2>4 DEF Closing
  <2>. QED BY <2>6, <2>7 DEF Closing
<1>9. ASSUME NEW w \in Workers, Finish(w) PROVE Closing'
  <2>1. /\ pc' = [pc EXCEPT ![w] = "finished"] /\ pc[w] = "topology"
        /\ _num_topologies' = _num_topologies /\ _done' = _done /\ topologies' = <<>>
        /\ Len(topologies) = 1
    BY <1>9 DEF Finish, Goto, At
  <2>2. ~_done
    BY <2>1 DEF IInv, Counts, Closing
  <2>3. /\ pc'[w] = "finished" /\ \A v \in Threads : v # w => pc'[v] = pc[v]
    BY <1>0, <2>1
  <2>4. Finished' = Finished \cup {w} /\ w \notin Finished
    BY <1>0, <2>1, <2>3 DEF Finished
  <2>5. Cardinality(Finished') = Cardinality(Finished) + 1
    BY <2>4, FinishedIs, FS_AddElement
  <2>6. _num_topologies' = Len(topologies') + Cardinality(Finished')
    <3>1. Len(topologies') = 0
      BY <2>1
    <3>. QED BY <2>1, <2>5, <3>1, FinishedIs DEF Closing
  <2>7. ~_done' /\ \A v \in Workers : pc'[v] \notin {"leave", "exited"}
    BY <1>0, <2>1, <2>2, <2>3 DEF Closing
  <2>. QED BY <2>6, <2>7 DEF Closing
<1>10. ASSUME NEW w \in Workers, Decrement(w) PROVE Closing'
  <2>1. /\ pc' = [pc EXCEPT ![w] = "pop"] /\ pc[w] = "finished"
        /\ _num_topologies' = _num_topologies - 1 /\ _done' = _done /\ topologies' = topologies
    BY <1>10 DEF Decrement, Goto, At
  <2>2. /\ pc'[w] = "pop" /\ \A v \in Threads : v # w => pc'[v] = pc[v]
    BY <1>0, <2>1
  <2>3. Finished' = Finished \ {w} /\ w \in Finished
    BY <1>0, <2>1, <2>2 DEF Finished
  <2>4. Cardinality(Finished') = Cardinality(Finished) - 1
    BY <2>3, FinishedIs, FS_RemoveElement
  <2>5. _num_topologies' = Len(topologies') + Cardinality(Finished')
    <3>1. Len(topologies) \in Nat
      BY LenProperties DEF IInv, Types
    <3>. QED BY <2>1, <2>4, <3>1, FinishedIs DEF Closing
  <2>. QED BY <1>0, <2>1, <2>2, <2>5 DEF Closing
\* The owner.
<1>11. ASSUME \A w \in Workers : pc'[w] = pc[w] PROVE Finished' = Finished
  BY <1>11 DEF Finished
<1>12. CASE Submit
  <2>1. /\ pc[Owner] = "submit" /\ _done' = _done /\ _num_topologies' = _num_topologies + 1
        /\ \A w \in Workers : pc'[w] = pc[w]
        /\ topologies' = Append(topologies, [repeat |-> Repeats[submitted'] - 1, cancelled |-> FALSE])
    BY <1>0, <1>12 DEF Submit, At, Goto
  <2>2. Len(topologies') = Len(topologies) + 1 /\ Len(topologies) \in Nat
    <3>. DEFINE T == [repeat : Int, cancelled : BOOLEAN]
    <3>1. topologies \in Seq(T)
      BY DEF IInv, Types
    <3>. HIDE DEF T
    <3>. QED BY <2>1, <3>1
  <2>3. _num_topologies' = Len(topologies') + Cardinality(Finished')
    BY <1>11, <2>1, <2>2, FinishedIs DEF Closing
  <2>. QED BY <2>1, <2>3 DEF Closing
<1>13. CASE Unlock
  <2>1. /\ \A w \in Workers : pc'[w] = pc[w]
        /\ pc[Owner] = "unlock" /\ UNCHANGED <<topologies, _num_topologies, _done>>
    BY <1>0, <1>13 DEF Unlock, At, Goto
  <2>. QED BY <1>1, <2>1 DEF Closing
<1>14. CASE Cancel
  <2>1. /\ pc' = pc /\ UNCHANGED <<_num_topologies, _done>> /\ topologies # <<>>
        /\ topologies' = [topologies EXCEPT ![Len(topologies)].cancelled = TRUE]
    BY <1>14 DEF Cancel
  <2>2. Len(topologies') = Len(topologies)
    <3>1. /\ Len(topologies) \in 1 .. Len(topologies)
          /\ [topologies[Len(topologies)] EXCEPT !.cancelled = TRUE] \in [repeat : Int, cancelled : BOOLEAN]
      <4>1. Len(topologies) \in Nat \ {0}
        BY <2>1, TopologiesAre DEF IInv
      <4>2. Len(topologies) \in 1 .. Len(topologies)
        BY <4>1
      <4>3. topologies[Len(topologies)] \in [repeat : Int, cancelled : BOOLEAN]
        BY <2>1, <4>2, TopologiesAre DEF IInv
      <4>. QED BY <4>2, <4>3
    <3>2. topologies' = [topologies EXCEPT ![Len(topologies)] = [topologies[Len(topologies)] EXCEPT !.cancelled = TRUE]]
      BY <2>1
    <3>. QED BY <3>1, <3>2, ExceptSeq DEF IInv, Types
  <2>. QED BY <1>1, <2>1, <2>2 DEF Closing
<1>15. CASE ShutDown
  <2>1. /\ _num_topologies = 0 /\ UNCHANGED <<topologies, _num_topologies>>
        /\ pc'[Owner] = "join" /\ \A w \in Workers : pc'[w] = pc[w]
    BY <1>0, <1>15 DEF ShutDown, Goto, topologyVars
  <2>2. topologies \in Seq([repeat : Int, cancelled : BOOLEAN]) /\ Len(topologies) \in Nat
    BY LenProperties DEF IInv, Types
  <2>3. Len(topologies) = 0
    BY <2>1, <2>2, FinishedIs DEF Closing
  <2>4. topologies = <<>>
    BY <2>2, <2>3, EmptySeq
  <2>. QED BY <1>11, <1>15, <2>1, <2>4 DEF Closing, ShutDown
<1>16. CASE Join
  <2>1. /\ UNCHANGED <<topologies, _num_topologies, _done>>
        /\ pc'[Owner] = "destroyed" /\ \A w \in Workers : pc'[w] = pc[w]
    BY <1>0, <1>16 DEF Join, Goto, topologyVars
  <2>. QED BY <1>1, <2>1 DEF Closing
<1>. QED
  BY <1>0, <1>3, <1>5, <1>6, <1>7, <1>8, <1>9, <1>10, <1>12, <1>13, <1>14, <1>15, <1>16 DEF Next, Own, Work

LEMMA NextScanning ==
  ASSUME Types, Scanning, [Next]_vars
  PROVE  Scanning'
<1>0. /\ pc \in [Threads -> Whereabouts] /\ Workers \subseteq Threads /\ Owner \notin Workers
      /\ _vtm \in [Workers -> Queues] /\ 1 \in Workers
  BY WorkersAre DEF Types
\* A step that sends nobody to scan.
<1>1. ASSUME \A w \in Workers : pc'[w] = "scan" => pc[w] = "scan" /\ _vtm'[w] = _vtm[w]
      PROVE  Scanning'
  BY <1>1 DEF Scanning
<1>2. CASE Submit \/ Unlock \/ Cancel \/ ShutDown \/ Join
  <2>1. _vtm' = _vtm /\ \A w \in Workers : pc'[w] = pc[w]
    BY <1>0, <1>2 DEF Submit, Unlock, Cancel, ShutDown, Join, Goto, workerVars
  <2>. QED BY <1>1, <2>1
<1>3. CASE Stopped \/ UNCHANGED vars \/ \E t \in Threads : InNotifier(t)
  <2>1. _vtm' = _vtm /\ pc' = pc
    BY <1>3 DEF Stopped, vars, InNotifier, executorVars, workerVars
  <2>. QED BY <1>1, <2>1
<1>4. ASSUME NEW w \in Workers,
             \/ pc' = pc \/ \E place \in Whereabouts \ {"scan"} : pc' = [pc EXCEPT ![w] = place],
             \/ _vtm' = _vtm
             \/ pc'[w] # "scan" /\ \E q \in Queues : _vtm' = [_vtm EXCEPT ![w] = q]
      PROVE  Scanning'
  <2>1. \A v \in Workers : v # w => pc'[v] = pc[v] /\ _vtm'[v] = _vtm[v]
    BY <1>0, <1>4
  <2>2. pc'[w] = "scan" => pc[w] = "scan" /\ _vtm'[w] = _vtm[w]
    BY <1>0, <1>4
  <2>. QED BY <1>1, <2>1, <2>2
<1>5. ASSUME NEW w \in Workers,
             \/ SkipCancelled(w) \/ Invoke(w) \/ Successor(w) \/ TearDown(w) \/ GiveUp(w)
             \/ Exit(w) \/ RunAgain(w) \/ RunNext(w) \/ Finish(w) \/ Decrement(w) \/ Schedule(w)
      PROVE  Scanning'
  <2>1. _vtm' = _vtm
    BY <1>5 DEF SkipCancelled, Invoke, Successor, TearDown, GiveUp, Exit, RunAgain, RunNext, Finish,
                Decrement, Schedule, workerVars
  <2>2. pc' = pc \/ \E place \in Whereabouts \ {"scan"} : pc' = [pc EXCEPT ![w] = place]
    <3>1. CASE SkipCancelled(w) \/ Invoke(w) \/ Successor(w) \/ TearDown(w)
      BY <3>1 DEF SkipCancelled, Invoke, Successor, TearDown, NextTask, Goto, Whereabouts
    <3>2. CASE GiveUp(w) \/ Exit(w) \/ Finish(w) \/ Decrement(w)
      BY <3>2 DEF GiveUp, Exit, Finish, Decrement, Goto, Whereabouts
    <3>3. CASE RunAgain(w) \/ RunNext(w) \/ Schedule(w)
      BY <3>3 DEF RunAgain, RunNext, Schedule, Goto, Whereabouts
    <3>. QED BY <1>5, <3>1, <3>2, <3>3
  <2>. QED BY <1>4, <2>1, <2>2
\* Steals, and tasks seen.
<1>6. ASSUME NEW w \in Workers, NEW q \in Queues, NEW place \in Whereabouts \ {"scan"},
             pc' = [pc EXCEPT ![w] = place], _vtm' = _vtm \/ _vtm' = [_vtm EXCEPT ![w] = q]
      PROVE  Scanning'
  <2>1. pc'[w] # "scan"
    BY <1>0, <1>6
  <2>. QED BY <1>4, <1>6, <2>1
<1>7. /\ {"invoke", "explore", "retry", "checkDone", "leave"} \subseteq Whereabouts \ {"scan"}
      /\ 1 \in Queues /\ Shared \in Queues
  BY WorkersAre DEF Whereabouts
<1>8. ASSUME NEW w \in Workers, Steal(w) \/ Retry(w) \/ Pop(w) \/ CheckShared(w) PROVE Scanning'
  <2>0. ASSUME NEW q \in Queues, Outruns(w, q), pc' = [pc EXCEPT ![w] = "invoke"]
        PROVE  Scanning'
    <3>1. pc'[w] # "scan" /\ \A v \in Workers \ {w} : pc'[v] = pc[v]
      BY <1>0, <2>0
    <3>2. \A v \in Workers \ {w} : pc[v] = "scan" => _vtm'[v] = _vtm[v]
      BY <2>0, OutrunsMoves
    <3>. QED BY <1>1, <3>1, <3>2
  <2>1. CASE Steal(w)
    BY <2>0, <2>1 DEF Steal, StealFrom, Goto
  <2>2. CASE Retry(w)
    <3>1. \/ pc' = [pc EXCEPT ![w] = "invoke"] /\ Outruns(w, _vtm[w])
          \/ pc' = [pc EXCEPT ![w] = "explore"] /\ _vtm' = [_vtm EXCEPT ![w] = 1]
      BY <2>2 DEF Retry, StealFrom, Goto
    <3>2. _vtm[w] \in Queues
      BY <1>0
    <3>. QED BY <1>6, <1>7, <2>0, <3>1, <3>2
  <2>4. CASE Pop(w)
    <3>1. \/ pc' = [pc EXCEPT ![w] = "invoke"] /\ (Outruns(w, w) \/ _vtm' = _vtm)
          \/ pc' = [pc EXCEPT ![w] = "explore"] /\ _vtm' = _vtm
      BY <2>4 DEF Pop, Goto
    <3>2. w \in Queues
      BY DEF Queues
    <3>. QED BY <1>6, <1>7, <2>0, <3>1, <3>2
  <2>3. CASE CheckShared(w)
    <3>1. \/ pc' = [pc EXCEPT ![w] = "retry"] /\ _vtm' = [_vtm EXCEPT ![w] = Shared]
          \/ pc' = [pc EXCEPT ![w] = "checkDone"] /\ _vtm' = _vtm
      BY <2>3 DEF CheckShared, SeesTask, Goto, workerVars
    <3>. QED BY <1>6, <1>7, <3>1
  <2>. QED BY <1>8, <2>1, <2>2, <2>3, <2>4
<1>9. ASSUME NEW w \in Workers, NEW q \in Workers, _vtm' = [_vtm EXCEPT ![w] = q],
             \A v \in Workers : v # w => pc'[v] = pc[v]
      PROVE  Scanning'
  BY <1>0, <1>9 DEF Scanning
<1>10. ASSUME NEW w \in Workers, CheckDone(w) PROVE Scanning'
  <2>1. \/ pc' = [pc EXCEPT ![w] = "leave"] /\ _vtm' = _vtm
        \/ pc' = [pc EXCEPT ![w] = "scan"] /\ _vtm' = [_vtm EXCEPT ![w] = 1]
    BY <1>10 DEF CheckDone, Goto
  <2>2. \A v \in Workers : v # w => pc'[v] = pc[v]
    BY <1>0, <2>1
  <2>. QED BY <1>0, <1>6, <1>7, <1>9, <2>1, <2>2
<1>11. ASSUME NEW w \in Workers, Scan(w) PROVE Scanning'
  <2>1. \/ pc' = [pc EXCEPT ![w] = "retry"] /\ _vtm' = [_vtm EXCEPT ![w] = _vtm[w]]
        \/ pc' = pc /\ _vtm[w] + 1 \in Workers /\ _vtm' = [_vtm EXCEPT ![w] = _vtm[w] + 1]
        \/ pc' = [pc EXCEPT ![w] = "explore"] /\ _vtm' = [_vtm EXCEPT ![w] = 1]
    BY <1>11 DEF Scan, SeesTask, Goto
  <2>2. _vtm[w] \in Queues
    BY <1>0
  <2>3. CASE pc' = pc /\ _vtm[w] + 1 \in Workers /\ _vtm' = [_vtm EXCEPT ![w] = _vtm[w] + 1]
    BY <1>9, <2>3
  <2>4. CASE pc' = [pc EXCEPT ![w] = "retry"] /\ _vtm' = [_vtm EXCEPT ![w] = _vtm[w]]
    BY <1>6, <1>7, <2>2, <2>4
  <2>5. CASE pc' = [pc EXCEPT ![w] = "explore"] /\ _vtm' = [_vtm EXCEPT ![w] = 1]
    BY <1>6, <1>7, <2>5
  <2>. QED BY <2>1, <2>3, <2>4, <2>5
<1>12. ASSUME NEW w \in Workers, Work(w), ~InNotifier(w) PROVE Scanning'
  BY <1>5, <1>8, <1>10, <1>11, <1>12 DEF Work
<1>. QED
  BY <1>0, <1>2, <1>3, <1>12, WorkersAre DEF Next, Own

\* Those that are let pass are no longer in pre-wait.
LEMMA PrewaitersPass ==
  ASSUME NotifierTypes, NotifierTypes', Tickets, Punctual, NEW k \in 0 .. _state.waiters, Passes(k)
  PROVE  Prewaiters' \subseteq Prewaiters
<1>1. PICK n \in Nat : n = _state.waiters
  BY DEF NotifierTypes, States
<1>2. ASSUME NEW w \in Workers, Waits(w)', Turn(w)' <= 0 PROVE Waits(w) /\ Turn(w) <= 0
  <2>1. Waits(w) /\ epoch'[w] = epoch[w]
    BY <1>2 DEF Passes
  <2>2. Turn(w)' = Turn(w) + k
    BY <2>1, TurnMoves DEF Passes
  <2>3. Turn(w) \in Int
    BY TurnIs
  <2>. QED BY <1>1, <1>2, <2>1, <2>2, <2>3
<1>. QED BY <1>2, PrewaitersAre, PrewaitersAreNext

\* Nothing happens in the notifier.
LEMMA SameIdle ==
  ASSUME UNCHANGED notifierVars,
         \A w \in Workers : pc'[w] \in Predicates <=> pc[w] \in Predicates
  PROVE  Idle' = Idle
<1>1. \A w \in Workers : (Waits(w)' <=> Waits(w)) /\ Turn(w)' = Turn(w)
  BY DEF Waits, At, Predicates, Turn, Lag, notifierVars
<1>2. Prewaiters' = Prewaiters
  BY <1>1, PrewaitersAre, PrewaitersAreNext
<1>3. Asleep' = Asleep
  BY DEF Asleep, notifierVars
<1>. QED BY <1>2, <1>3 DEF Idle

LEMMA CommitIdle ==
  ASSUME NotifierTypes, Types, NEW w \in Workers, At(w, "scan"), CommitWait(w), Goto(w, "explore")
  PROVE  Idle' = Idle
<1>0. w \in Threads /\ w \in Waiters /\ npc \in [Threads -> {"out"} \cup WaiterPlaces \cup NotifyPlaces]
      /\ pc \in [Threads -> Whereabouts] /\ Workers \subseteq Threads /\ Workers = Waiters
      /\ signal \in [Waiters -> {"kNotSignaled", "kWaiting", "kSignaled"}]
  BY WaitersAre, WorkersAre DEF NotifierTypes, Types
<1>1. /\ npc'[w] = "commit" /\ pc'[w] = "explore" /\ npc[w] = "out" /\ pc[w] = "scan"
      /\ \A v \in Workers : v # w => npc'[v] = npc[v] /\ pc'[v] = pc[v] /\ signal'[v] = signal[v]
      /\ _state' = _state /\ epoch' = epoch
  BY <1>0 DEF CommitWait, NGoto, Goto, At
<1>2. \A v \in Workers : (Waits(v)' <=> Waits(v)) /\ Turn(v)' = Turn(v)
  BY <1>1 DEF Waits, At, Turn, Lag
<1>3. Prewaiters' = Prewaiters
  BY <1>2, PrewaitersAre, PrewaitersAreNext
<1>4. Asleep' = Asleep
  BY <1>0, <1>1 DEF Asleep
<1>. QED BY <1>3, <1>4 DEF Idle

\* Only worker v goes on.
LEMMA WatchGoesOn ==
  ASSUME Idle' \subseteq Idle, NEW q \in Queues, Watched(q), NEW v \in Workers,
         \A w \in Workers : w # v => pc'[w] = pc[w] /\ (pc[w] = "scan" => _vtm'[w] = _vtm[w]),
         Sees(v, q) => Sees(v, q)'
  PROVE  Watched(q)'
<1>1. CASE Idle = {}
  BY <1>1 DEF Watched
<1>2. ASSUME NEW w \in Workers, Sees(w, q), w # v PROVE Sees(w, q)'
  BY <1>2 DEF Sees
<1>. QED BY <1>1, <1>2 DEF Watched

\* Inside the notifier nobody falls asleep who was not about to, ...
LEMMA InsideIdle ==
  ASSUME NInv, NotifierTypes', Punctual, pc' = pc, NEW t \in Threads, NotifierStep(t)
  PROVE  Idle' \subseteq Idle
<1>1. NotifierTypes /\ Tickets /\ SleepersHeld /\ Lists /\ Glimpse
  BY DEF NInv
<1>2. Prewaiters' \subseteq Prewaiters
  BY <1>1, InsidePasses, PrewaitersPass
<1>3. /\ npc \in [Threads -> {"out"} \cup WaiterPlaces \cup NotifyPlaces]
      /\ signal \in [Waiters -> {"kNotSignaled", "kWaiting", "kSignaled"}] /\ hold \in [Threads -> Waiters \cup {None}]
      /\ Waiters \subseteq Threads /\ Waiters = Workers
  BY <1>1, WaitersAre DEF NotifierTypes
<1>4. ASSUME NEW w \in Waiters, npc'[w] \in {"park", "parked"}, signal'[w] # "kSignaled"
      PROVE  w \in Asleep \cup Prewaiters
  <2>1. CASE t \in Waiters /\ CommitInTurn(t)
    <3>1. signal' = signal /\ \A v \in Waiters : v # t => npc'[v] = npc[v]
      BY <1>3, <2>1 DEF CommitInTurn, NGoto
    <3>2. Waits(t) /\ Turn(t) <= 0
      BY <2>1 DEF CommitInTurn, Waits
    <3>. QED BY <1>3, <1>4, <2>1, <3>1, <3>2, PrewaitersAre DEF Asleep
  <2>2. CASE t \in Waiters /\ (Notified(t) \/ CancelInTurn(t) \/ Park(t) \/ Unparked(t))
    <3>1. /\ \A v \in Waiters : v # t => npc'[v] = npc[v] /\ signal'[v] = signal[v]
          /\ npc'[t] \in {"out", "parked"} /\ (npc'[t] = "parked" => npc[t] = "park" /\ signal[t] = "kNotSignaled")
      BY <1>3, <2>2 DEF Notified, CancelInTurn, Park, Unparked, NGoto, waiting
    <3>. QED BY <1>3, <1>4, <3>1 DEF Asleep
  <2>3. CASE ~(t \in Waiters /\ (Notified(t) \/ CancelInTurn(t) \/ CommitInTurn(t) \/ Park(t) \/ Unparked(t)))
    <3>1. /\ \A v \in Threads : v # t => npc'[v] = npc[v]
          /\ npc'[t] \notin {"park", "parked"}
          /\ signal' = signal \/ signal' = [signal EXCEPT ![hold[t]] = "kSignaled"]
      BY <1>3, <2>3 DEF NotifierStep, LoadNobody, Load, ReadNext, ExchangeFails, NotifyAll, NotifyPrewait, NotifyPop,
                Detach, Unpark, NGoto, Leave, waiting
    <3>2. signal[w] # "kSignaled"
      BY <1>3, <1>4, <3>1
    <3>. QED BY <1>3, <1>4, <3>1, <3>2 DEF Asleep
  <2>. QED BY <2>1, <2>2, <2>3
<1>. QED BY <1>2, <1>4 DEF Idle, Asleep

\* ... and a notification that ends leaves nobody asleep, or has woken one.
LEMMA NobodyIdles ==
  ASSUME NInv', Settled', _state'.stack = None, _state'.waiters = 0
  PROVE  Idle' = {}
<1>1. (SleepersHeld /\ Lists)' /\ Tickets' /\ NotifierTypes'
  BY DEF NInv
<1>2. Sleepers(_state'.stack, npc', signal', hold', next')
  BY <1>1, SleepersAreNext
<1>3. WakersBy(npc') = {}
  BY DEF Settled, NotifyPlaces, WakersBy
<1>4. AsleepBy(npc', signal') = {}
  BY <1>2, <1>3, LinkedNone DEF Sleepers
<1>5. Asleep' = {}
  BY <1>4 DEF Asleep, AsleepBy
<1>6. \A w \in Workers : Turn(w)' \in Int
  <2>1. (NotifierTypes => \A w \in Workers : Turn(w) \in Int)'
    BY TurnIs, PTL
  <2>. QED BY <1>1, <2>1
<1>7. \A w \in Prewaiters' : w \in Workers /\ Turn(w)' <= 0 /\ Turn(w)' > -(_state'.waiters)
  BY <1>1, PrewaitersAreNext DEF Tickets
<1>8. \A w \in Prewaiters' : Turn(w)' > 0
  BY <1>6, <1>7
<1>9. Prewaiters' = {}
  BY <1>6, <1>7, <1>8
<1>. QED BY <1>5, <1>9 DEF Idle

\* The first in pre-wait is let pass.
LEMMA PrewaitNotified ==
  ASSUME IInv, NInv, NotifierTypes', Placed, Closing, Punctual, UNCHANGED executorVars, NEW t \in Threads, NotifyPrewait(t),
         NEW q \in Queues, queue[q] # <<>>
  PROVE  \E w \in Workers : Sees(w, q)'
<1>1. NotifierTypes /\ Tickets
  BY DEF NInv
<1>2. /\ npc[t] = "load" /\ epoch' = epoch /\ _state.waiters > 0
      /\ _state' = LeavePrewait(_state) /\ Leave(t)
  BY DEF NotifyPrewait, waiting
<1>3. _state'.epoch = (_state.epoch + 1) % EpochMod
  BY <1>1, <1>2, LeavingPrewait
<1>4. 0 \in 0 .. _state.waiters - 1 /\ 1 \in 0 .. _state.waiters
  <2>1. _state.waiters \in Nat
    BY <1>1 DEF NotifierTypes, States
  <2>. QED BY <1>2, <2>1
<1>5. PICK w \in Prewaiters : Turn(w) = -0
  BY <1>1, <1>4 DEF Tickets
<1>6. w \in Workers /\ Waits(w) /\ w \in Threads
  BY <1>5, PrewaitersAre, WaitersAre
<1>7. Turn(w)' = Turn(w) + 1
  BY <1>1, <1>2, <1>3, <1>4, <1>6, TurnMoves
<1>8. w \notin Prewaiters'
  <2>1. Turn(w)' = 1
    BY <1>5, <1>7
  <2>. QED BY <2>1, PrewaitersAreNext
<1>9. npc'[w] = npc[w] /\ npc[w] \in {"out", "cancel", "commit"} /\ pc'[w] = pc[w]
  <2>1. npc[w] \in {"out", "cancel", "commit"}
    BY <1>6 DEF Waits, At
  <2>2. w # t
    BY <1>2, <2>1
  <2>3. pc' = pc
    BY DEF executorVars
  <2>. QED BY <1>1, <1>2, <1>6, <2>1, <2>2, <2>3, Leaves
<1>10. w \notin Idle'
  BY <1>8, <1>9 DEF Idle, Asleep
<1>11. ~_done
  BY NothingWhenDone
<1>12. pc[w] \in {"explore", "retry", "checkShared", "checkDone", "scan"}
  BY <1>6, <1>9, <1>11 DEF Placed, Closing, Waits, At
<1>. QED BY <1>6, <1>9, <1>10, <1>12 DEF Sees

\* The last of the list is signalled.
LEMMA LastSignalled ==
  ASSUME NInv, Placed, pc' = pc, NEW t \in Threads, Unpark(t), NEW q \in Queues
  PROVE  \E w \in Workers : Sees(w, q)'
<1>1. NotifierTypes /\ SleepersHeld /\ Lists
  BY DEF NInv
<1>2. Sleepers(_state.stack, npc, signal, hold, next)
  BY <1>1, SleepersAre
<1>3. npc[t] = "unpark" /\ t \in WakersBy(npc)
  BY DEF Unpark, WakersBy
<1>4. hold[t] \in Waiters /\ hold[t] \in Workers /\ hold[t] # None
  BY <1>2, <1>3, WaitersAre DEF Sleepers
<1>5. hold[t] \in HeldBy(npc, hold, next, t)
  BY <1>3, <1>4 DEF HeldBy, LinkedBy
<1>6. hold[t] \in AsleepBy(npc, signal)
  BY <1>2, <1>3, <1>5 DEF Sleepers
<1>7. npc[hold[t]] \in {"park", "parked"} /\ pc[hold[t]] = "explore" /\ hold[t] # t
  BY <1>3, <1>4, <1>6 DEF AsleepBy, Placed
<1>8. npc'[hold[t]] = npc[hold[t]] /\ signal'[hold[t]] = "kSignaled"
  BY <1>1, <1>4, <1>7, WaitersAre DEF Unpark, Leave, NGoto, NotifierTypes
<1>9. PICK w \in Workers : w = hold[t]
  BY <1>4
<1>10. w \notin Asleep' /\ w \notin Prewaiters'
  BY <1>7, <1>8, <1>9 DEF Asleep, Prewaiters, At
<1>. QED BY <1>7, <1>9, <1>10 DEF Sees, Idle

LEMMA InsideWatches ==
  ASSUME IInv, NInv, NInv', Placed, Closing, Watching, Punctual,
         NEW t \in Threads, NotifierStep(t), UNCHANGED executorVars
  PROVE  Watching'
<1>. SUFFICES ASSUME Settled', NEW q \in Queues, queue'[q] # <<>> PROVE Watched(q)'
  BY DEF Watching
<1>1. pc' = pc /\ _vtm' = _vtm /\ queue' = queue
  BY DEF executorVars, workerVars, taskVars
<1>2. NotifierTypes /\ NotifierTypes'
  BY DEF NInv
<1>3. queue[q] # <<>>
  BY <1>1
<1>4. CASE Settled
  <2>1. Watched(q)
    BY <1>3, <1>4 DEF Watching
  <2>2. Idle' \subseteq Idle
    BY <1>1, <1>2, InsideIdle
  <2>3. 1 \in Workers
    BY WorkersAre
  <2>4. Sees(1, q) => Sees(1, q)'
    BY <1>1, <2>2 DEF Sees
  <2>. QED BY <1>1, <2>1, <2>2, <2>3, <2>4, WatchGoesOn
<1>5. CASE ~Settled
  <2>1. \A v \in Threads : v # t => npc'[v] = npc[v]
    BY <1>2 DEF NotifierStep, Notified, CancelInTurn, CommitInTurn, Park, Unparked, LoadNobody, Load, ReadNext,
              ExchangeFails, NotifyAll, NotifyPrewait, NotifyPop, Detach, Unpark, NGoto, Leave, NotifierTypes
  <2>2. npc[t] \in NotifyPlaces /\ npc'[t] \notin NotifyPlaces
    BY <1>5, <2>1 DEF Settled
  <2>3. t \in Callers
    BY WaitersAre
  <2>4. \A place \in NotifyPlaces : ~NGoto(t, place)
    BY <1>2, <2>2 DEF NGoto, NotifierTypes
  <2>5. npc[t] \notin WaiterPlaces
    BY <2>2 DEF NotifyPlaces, WaiterPlaces
  <2>6. LoadNobody(t) \/ NotifyAll(t) \/ NotifyPrewait(t) \/ Unpark(t)
    <3>1. ~NGoto(t, "load") /\ ~NGoto(t, "readNext") /\ ~NGoto(t, "exchange") /\ ~NGoto(t, "detach")
          /\ ~NGoto(t, "unpark")
      BY <2>4 DEF NotifyPlaces
    <3>2. ~(Notified(t) \/ CancelInTurn(t) \/ CommitInTurn(t) \/ Park(t) \/ Unparked(t))
      BY <2>5 DEF Notified, CancelInTurn, CommitInTurn, Park, Unparked, WaiterPlaces
    <3>3. ~Load(t)
      BY <3>1 DEF Load
    <3>4. ~ReadNext(t) /\ ~ExchangeFails(t) /\ ~NotifyPop(t) /\ ~Detach(t)
      BY <3>1 DEF ReadNext, ExchangeFails, NotifyPop, Detach
    <3>. QED BY <3>2, <3>3, <3>4 DEF NotifierStep
  <2>7. CASE LoadNobody(t)
    <3>1. _state'.stack = None /\ _state'.waiters = 0
      BY <2>7 DEF LoadNobody, NobodyWaits
    <3>. QED BY <3>1, NobodyIdles DEF Watched
  <2>8. CASE NotifyAll(t)
    <3>1. _state'.stack = None /\ _state'.waiters = 0
      BY <2>8 DEF NotifyAll, Nothing
    <3>. QED BY <3>1, NobodyIdles DEF Watched
  <2>9. CASE NotifyPrewait(t)
    BY <1>2, <1>3, <2>9, PrewaitNotified DEF Watched
  <2>10. CASE Unpark(t)
    BY <1>1, <2>10, LastSignalled DEF Watched
  <2>. QED BY <2>6, <2>7, <2>8, <2>9, <2>10
<1>. QED BY <1>4, <1>5

\* A notification begins.
LEMMA NotSettled ==
  ASSUME NotifierTypes, NEW t \in Threads,
         (\E a \in BOOLEAN : Notify(t, a)) \/ \E n \in Nat : NotifyN(t, n)
  PROVE  ~Settled'
<1>1. npc'[t] = "load"
  BY DEF Notify, NotifyN, NGoto, NotifierTypes
<1>. QED BY <1>1 DEF Settled, NotifyPlaces

\* A step that pushes no task and has nothing to do with the notifier.
LEMMA PlainWatches ==
  ASSUME Watching, UNCHANGED notifierVars, NEW v \in Workers,
         \A w \in Workers : w # v => pc'[w] = pc[w] /\ (pc[w] = "scan" => _vtm'[w] = _vtm[w]),
         pc'[v] \in Predicates <=> pc[v] \in Predicates,
         \A q \in Queues : queue'[q] # <<>> => queue[q] # <<>>,
         \A q \in Queues : queue'[q] # <<>> /\ Sees(v, q) => Sees(v, q)'
  PROVE  Watching'
<1>. SUFFICES ASSUME Settled', NEW q \in Queues, queue'[q] # <<>> PROVE Watched(q)'
  BY DEF Watching
<1>1. Settled
  BY DEF Settled, notifierVars
<1>2. Watched(q)
  BY <1>1 DEF Watching
<1>3. Idle' = Idle
  BY SameIdle
<1>. QED BY <1>2, <1>3, WatchGoesOn

\* The same of a worker that is neither exploring nor in its two-phase wait.
Busy == {"invoke", "successors", "pop", "topology", "finished", "schedule", "exited", "leave"}
LEMMA BusyWatches ==
  ASSUME Watching, Types, UNCHANGED notifierVars, NEW v \in Workers, pc[v] \in Busy,
         \A w \in Workers \ {v} : pc[w] = "scan" => _vtm'[w] = _vtm[w],
         pc' = pc \/ \E place \in Busy \cup {"explore"} : pc' = [pc EXCEPT ![v] = place],
         \A q \in Queues : queue'[q] # <<>> => queue[q] # <<>>
  PROVE  Watching'
<1>1. v \in Threads /\ pc \in [Threads -> Whereabouts] /\ Workers \subseteq Threads
  BY WorkersAre DEF Types
<1>2. /\ \A w \in Workers : w # v => pc'[w] = pc[w] /\ (pc[w] = "scan" => _vtm'[w] = _vtm[w])
      /\ pc'[v] \in Busy \cup {"explore"}
  BY <1>1
<1>3. pc'[v] \notin Predicates /\ pc[v] \notin Predicates
  BY <1>2 DEF Busy, Predicates
<1>4. \A q \in Queues : ~Sees(v, q)
  BY DEF Sees, Busy
<1>. QED BY <1>2, <1>3, <1>4, PlainWatches

LEMMA BusyKeeps ==
  ASSUME Watching, Types, NotifierTypes, NEW w \in Workers,
         \/ SkipCancelled(w) \/ Invoke(w) \/ Successor(w) \/ TearDown(w) \/ Pop(w) \/ Exit(w)
         \/ RunAgain(w) \/ RunNext(w) \/ Finish(w) \/ Decrement(w) \/ Schedule(w)
  PROVE  Watching'
<1>0. w \in Threads /\ queue \in [Queues -> Seq(Nodes)] /\ w \in Queues
  BY WorkersAre DEF Types
\* A task is pushed, or the worker leaves.
<1>1. ASSUME NEW a \in BOOLEAN, Notify(w, a) PROVE Watching'
  BY <1>0, <1>1, NotSettled DEF Watching
<1>2. ASSUME UNCHANGED notifierVars, UNCHANGED _vtm, queue' = queue, pc[w] \in Busy,
             pc' = pc \/ \E place \in Busy \cup {"explore"} : pc' = [pc EXCEPT ![w] = place]
      PROVE  Watching'
  BY <1>2, BusyWatches
<1>3. CASE SkipCancelled(w)
  <2>1. /\ UNCHANGED notifierVars /\ UNCHANGED _vtm /\ queue' = queue /\ pc[w] = "invoke"
        /\ \E place \in {"topology", "pop"} : pc' = [pc EXCEPT ![w] = place]
    BY <1>3 DEF SkipCancelled, Goto, At
  <2>. QED BY <1>2, <2>1 DEF Busy
<1>4. CASE Invoke(w)
  <2>1. /\ UNCHANGED notifierVars /\ UNCHANGED _vtm /\ queue' = queue /\ pc[w] = "invoke"
        /\ pc' = [pc EXCEPT ![w] = "successors"]
    BY <1>4 DEF Invoke, Goto, At
  <2>2. "successors" \in Busy /\ "invoke" \in Busy
    BY DEF Busy
  <2>. QED BY <1>2, <2>1, <2>2
<1>5. CASE Successor(w)
  <2>1. /\ UNCHANGED _vtm /\ pc' = pc /\ pc[w] = "successors"
        /\ (UNCHANGED notifierVars /\ queue' = queue) \/ Notify(w, FALSE)
    BY <1>5 DEF Successor, At
  <2>. QED BY <1>1, <1>2, <2>1 DEF Busy
<1>6. CASE TearDown(w)
  <2>1. /\ UNCHANGED notifierVars /\ UNCHANGED _vtm /\ queue' = queue /\ pc[w] = "successors"
        /\ \E place \in {"invoke", "pop", "topology"} : pc' = [pc EXCEPT ![w] = place]
    BY <1>6 DEF TearDown, NextTask, Goto, At
  <2>. QED BY <1>2, <2>1 DEF Busy
<1>7. CASE Pop(w)
  <2>1. /\ UNCHANGED notifierVars /\ pc[w] = "pop"
        /\ Outruns(w, w) \/ UNCHANGED _vtm
        /\ \E place \in {"invoke", "explore"} : pc' = [pc EXCEPT ![w] = place]
    BY <1>7 DEF Pop, Goto, At
  <2>4. \A v \in Workers \ {w} : pc[v] = "scan" => _vtm'[v] = _vtm[v]
    BY <1>0, <2>1, OutrunsMoves
  <2>2. \A q \in Queues : queue'[q] # <<>> => queue[q] # <<>>
    BY <1>0, <1>7 DEF Pop
  <2>3. "pop" \in Busy /\ "invoke" \in Busy
    BY DEF Busy
  <2>. QED BY <2>1, <2>2, <2>3, <2>4, BusyWatches
<1>8. CASE Exit(w)
  BY <1>1, <1>8 DEF Exit
<1>9. CASE RunAgain(w) \/ RunNext(w) \/ Finish(w) \/ Decrement(w)
  <2>1. /\ UNCHANGED notifierVars /\ UNCHANGED _vtm /\ queue' = queue /\ pc[w] \in {"topology", "finished"}
        /\ \E place \in {"schedule", "finished", "pop"} : pc' = [pc EXCEPT ![w] = place]
    BY <1>9 DEF RunAgain, RunNext, Finish, Decrement, Goto, At, taskVars, workerVars
  <2>. QED BY <1>2, <2>1 DEF Busy
<1>10. CASE Schedule(w)
  <2>1. \/ Notify(w, FALSE)
        \/ /\ UNCHANGED notifierVars /\ UNCHANGED _vtm /\ queue' = queue /\ pc[w] = "schedule"
           /\ pc' = [pc EXCEPT ![w] = "pop"]
    BY <1>10 DEF Schedule, Goto, At
  <2>2. "pop" \in Busy /\ "schedule" \in Busy
    BY DEF Busy
  <2>. QED BY <1>1, <1>2, <2>1, <2>2
<1>. QED BY <1>3, <1>4, <1>5, <1>6, <1>7, <1>8, <1>9, <1>10

\* A thief looks for tasks, and is about to sleep.
LEMMA ThiefKeeps ==
  ASSUME IInv, NotifierTypes, Placed, Closing, Scanning, Watching, NEW w \in Workers,
         Steal(w) \/ GiveUp(w) \/ Retry(w) \/ CheckShared(w) \/ CheckDone(w) \/ Scan(w)
  PROVE  Watching'
<1>0. /\ w \in Threads /\ queue \in [Queues -> Seq(Nodes)] /\ pc \in [Threads -> Whereabouts]
      /\ Workers \subseteq Threads /\ _vtm \in [Workers -> Queues] /\ Types
  BY WorkersAre DEF Types, IInv
<1>1. ASSUME NEW a \in BOOLEAN, Notify(w, a) PROVE Watching'
  BY <1>0, <1>1, NotSettled DEF Watching
<1>2. ASSUME \A q \in Queues : Sees(w, q)' PROVE Watching'
  BY <1>2 DEF Watching, Watched
<1>3. ASSUME pc' = [pc EXCEPT ![w] = "retry"] \/ pc' = [pc EXCEPT ![w] = "checkShared"] PROVE Watching'
  <2>1. pc'[w] \in {"retry", "checkShared"}
    BY <1>0, <1>3
  <2>. QED BY <1>2, <2>1 DEF Sees
<1>4. ASSUME NEW place, pc' = [pc EXCEPT ![w] = place]
      PROVE  pc'[w] = place /\ \A v \in Workers : v # w => pc'[v] = pc[v]
  BY <1>0, <1>4
<1>5. ASSUME NEW q, _vtm' = [_vtm EXCEPT ![w] = q]
      PROVE  _vtm'[w] = q /\ \A v \in Workers : v # w => _vtm'[v] = _vtm[v]
  BY <1>0, <1>5
<1>6. CASE Steal(w)
  BY <1>1, <1>6 DEF Steal, StealFrom
<1>7. CASE GiveUp(w)
  BY <1>3, <1>7 DEF GiveUp, Goto
<1>8. CASE Retry(w)
  <2>1. CASE Notify(w, FALSE)
    BY <1>1, <2>1
  <2>2. CASE ~Notify(w, FALSE)
    <3>1. /\ pc[w] = "retry" /\ npc[w] = "out" /\ UNCHANGED notifierVars /\ queue' = queue
          /\ pc' = [pc EXCEPT ![w] = "explore"] /\ _vtm' = [_vtm EXCEPT ![w] = 1]
      BY <1>8, <2>2 DEF Retry, StealFrom, At, Goto, taskVars
    <3>2. pc'[w] = "explore" /\ \A v \in Workers : v # w => pc'[v] = pc[v] /\ _vtm'[v] = _vtm[v]
      BY <1>4, <1>5, <3>1
    <3>3. w \notin Idle'
      <4>1. npc'[w] = "out"
        BY <3>1 DEF notifierVars
      <4>. QED BY <3>2, <4>1 DEF Idle, Prewaiters, Asleep, At
    <3>4. \A q \in Queues : Sees(w, q)'
      BY <3>2, <3>3 DEF Sees
    <3>. QED BY <1>2, <3>4
  <2>. QED BY <2>1, <2>2
<1>9. CASE CheckShared(w)
  <2>1. CASE SeesTask(w, Shared)
    BY <1>3, <2>1 DEF SeesTask, Goto
  <2>2. CASE ~SeesTask(w, Shared)
    <3>1. /\ pc[w] = "checkShared" /\ UNCHANGED notifierVars /\ queue' = queue /\ queue[Shared] = <<>>
          /\ pc' = [pc EXCEPT ![w] = "checkDone"] /\ _vtm' = _vtm
      BY <1>9, <2>2 DEF CheckShared, At, Goto, taskVars, workerVars
    <3>2. pc'[w] = "checkDone" /\ \A v \in Workers : v # w => pc'[v] = pc[v] /\ _vtm'[v] = _vtm[v]
      BY <1>4, <3>1
    <3>3. \A q \in Queues : queue'[q] # <<>> => Sees(w, q)'
      BY <3>1, <3>2 DEF Sees, Queues
    <3>. QED BY <3>1, <3>2, <3>3, PlainWatches DEF Predicates
  <2>. QED BY <2>1, <2>2
<1>10. CASE CheckDone(w)
  <2>1. queue' = queue
    BY <1>10 DEF CheckDone, taskVars
  <2>2. CASE _done
    BY <2>1, <2>2, NothingWhenDone DEF Watching
  <2>3. CASE ~_done
    <3>1. /\ pc[w] = "checkDone" /\ npc[w] = "out" /\ UNCHANGED notifierVars
          /\ pc' = [pc EXCEPT ![w] = "scan"] /\ _vtm' = [_vtm EXCEPT ![w] = 1]
      BY <1>10, <2>3 DEF CheckDone, At, Goto
    <3>2. /\ pc'[w] = "scan" /\ \A v \in Workers : v # w => pc'[v] = pc[v] /\ _vtm'[v] = _vtm[v]
          /\ _vtm'[w] = 1
      BY <1>4, <1>5, <3>1
    <3>3. Idle' = Idle
      <4>1. \A v \in Workers : pc'[v] \in Predicates <=> pc[v] \in Predicates
        BY <3>1, <3>2 DEF Predicates
      <4>. QED BY <3>1, <4>1, SameIdle
    <3>4. \A q \in Workers : q >= 1
      BY ExecutorAssumption, NotifierAssumption, FS_CardinalityType DEF Workers
    <3>5. \A q \in Queues : Sees(w, q) => Sees(w, q)'
      BY <3>1, <3>2, <3>3, <3>4 DEF Sees
    <3>. QED BY <2>1, <3>1, <3>2, <3>5, PlainWatches DEF Predicates
  <2>. QED BY <2>2, <2>3
<1>11. CASE Scan(w)
  <2>1. CASE SeesTask(w, _vtm[w])
    BY <1>3, <2>1 DEF SeesTask, Goto
  <2>2. /\ pc[w] = "scan" /\ npc[w] = "out" /\ At(w, "scan")
    BY <1>11 DEF Scan, At
  <2>3. PICK N \in Nat : N = Cardinality(Workers) /\ Workers = 1 .. N
    BY ExecutorAssumption, NotifierAssumption, FS_CardinalityType DEF Workers
  <2>4. PICK i \in 1 .. N : i = _vtm[w]
    BY <2>2, <2>3 DEF Scanning
  <2>5. CASE ~SeesTask(w, _vtm[w]) /\ i + 1 \in Workers
    <3>1. /\ queue[i] = <<>> /\ UNCHANGED notifierVars /\ pc' = pc /\ _vtm' = [_vtm EXCEPT ![w] = i + 1]
          /\ queue' = queue
      BY <1>11, <2>4, <2>5 DEF Scan, taskVars
    <3>2. _vtm'[w] = i + 1 /\ \A v \in Workers : v # w => _vtm'[v] = _vtm[v]
      BY <1>5, <3>1
    <3>3. Idle' = Idle
      BY <3>1, SameIdle
    <3>4. ASSUME NEW q \in Queues, queue'[q] # <<>>, Sees(w, q) PROVE Sees(w, q)'
      <4>1. CASE w \notin Idle
        BY <2>2, <3>1, <3>3, <4>1 DEF Sees
      <4>2. CASE q \in Workers /\ q >= i
        <5>1. q # i
          BY <3>1, <3>4
        <5>2. q >= i + 1
          BY <2>3, <2>4, <4>2, <5>1
        <5>. QED BY <2>2, <3>1, <3>2, <4>2, <5>2 DEF Sees
      <4>. QED BY <2>2, <2>4, <3>4, <4>1, <4>2 DEF Sees
    <3>. QED BY <3>1, <3>2, <3>4, PlainWatches
  <2>6. CASE ~SeesTask(w, _vtm[w]) /\ i + 1 \notin Workers
    <3>1. /\ queue[i] = <<>> /\ CommitWait(w) /\ Goto(w, "explore") /\ _vtm' = [_vtm EXCEPT ![w] = 1]
          /\ queue' = queue /\ pc' = [pc EXCEPT ![w] = "explore"]
      BY <1>11, <2>4, <2>6 DEF Scan, taskVars, Goto
    <3>2. /\ \A v \in Workers : v # w => pc'[v] = pc[v] /\ _vtm'[v] = _vtm[v]
          /\ pc'[w] = "explore"
      BY <1>4, <1>5, <3>1
    <3>3. Idle' = Idle
      BY <1>0, <2>2, <3>1, CommitIdle
    <3>4. ASSUME Settled' PROVE Settled
      <4>1. \A t \in Threads : t # w => npc'[t] = npc[t]
        BY <3>1 DEF CommitWait, NGoto, NotifierTypes
      <4>. QED BY <2>2, <3>4, <4>1 DEF Settled, NotifyPlaces
    <3>5. ASSUME NEW q \in Queues, queue'[q] # <<>>, Sees(w, q) PROVE Sees(w, q)'
      <4>1. w \notin Idle
        <5>1. q \in Workers /\ q >= i => q = i
          <6>1. i + 1 \notin 1 .. N
            BY <2>3, <2>6
          <6>2. i = N
            BY <6>1
          <6>3. q \in 1 .. N /\ q >= N => q = N
            OBVIOUS
          <6>. QED BY <2>3, <6>2, <6>3
        <5>. QED BY <2>2, <2>4, <3>1, <3>5, <5>1 DEF Sees
      <4>. QED BY <3>2, <3>3, <4>1 DEF Sees
    <3>6. ASSUME Settled', NEW q \in Queues, queue'[q] # <<>> PROVE Watched(q)'
      <4>1. Watched(q)
        BY <3>1, <3>4, <3>6 DEF Watching
      <4>. QED BY <3>2, <3>3, <3>5, <3>6, <4>1, WatchGoesOn
    <3>. QED BY <3>6 DEF Watching
  <2>. QED BY <2>1, <2>5, <2>6
<1>. QED BY <1>6, <1>7, <1>8, <1>9, <1>10, <1>11

LEMMA NextWatching ==
  ASSUME IInv, NInv, NInv', Placed, Closing, Scanning, Watching, Punctual, [Next]_vars
  PROVE  Watching'
<1>1. Types /\ NotifierTypes /\ Owner \in Threads /\ Workers \subseteq Threads /\ Owner \notin Workers
      /\ 1 \in Workers
  BY WorkersAre DEF IInv, NInv
<1>2. ASSUME UNCHANGED notifierVars, UNCHANGED <<queue, _vtm>>, \A w \in Workers : pc'[w] = pc[w]
      PROVE  Watching'
  <2>1. Idle' = Idle
    BY <1>2, SameIdle
  <2>2. \A q \in Queues : Sees(1, q) => Sees(1, q)'
    BY <1>1, <1>2, <2>1 DEF Sees
  <2>. QED BY <1>1, <1>2, <2>2, PlainWatches
<1>3. CASE Submit
  <2>1. CASE topologies # <<>>
    BY <1>2, <1>3, <2>1 DEF Submit, taskVars, workerVars
  <2>2. CASE topologies = <<>>
    <3>1. Len(Sources) \in Nat
      BY SourcesAre, LenProperties
    <3>2. NotifyN(Owner, Len(Sources))
      BY <1>3, <2>2 DEF Submit
    <3>. QED BY <1>1, <3>1, <3>2, NotSettled DEF Watching
  <2>. QED BY <2>1, <2>2
<1>4. CASE ShutDown
  BY <1>1, <1>4, NotSettled DEF ShutDown, Watching
<1>5. CASE Unlock \/ Cancel \/ Join
  <2>1. \A w \in Workers : pc'[w] = pc[w]
    BY <1>1, <1>5 DEF Unlock, Cancel, Join, Goto, Types
  <2>. QED BY <1>2, <1>5, <2>1 DEF Unlock, Cancel, Join, taskVars, workerVars
<1>6. CASE Stopped \/ UNCHANGED vars
  BY <1>2, <1>6 DEF Stopped, vars, executorVars, taskVars, workerVars
<1>7. ASSUME NEW t \in Threads, InNotifier(t) PROVE Watching'
  BY <1>7, InsideWatches DEF InNotifier
<1>8. ASSUME NEW w \in Workers, Work(w), ~InNotifier(w) PROVE Watching'
  BY <1>1, <1>8, BusyKeeps, ThiefKeeps DEF Work
<1>. QED BY <1>1, <1>3, <1>4, <1>5, <1>6, <1>7, <1>8 DEF Next, Own

LEMMA WatchBegins == Init => WInv
<1>. SUFFICES ASSUME Init PROVE WInv
  OBVIOUS
<1>1. \A w \in Workers : w \in Threads /\ w # Owner
  BY WorkersAre
<1>2. \A w \in Workers : pc[w] = "explore" /\ npc[w] = "out"
  BY <1>1, WaitersAre DEF Init, NotifierInit
<1>3. Finished = {}
  BY <1>2 DEF Finished
<1>4. _done = FALSE /\ topologies = <<>> /\ _num_topologies = 0 /\ \A q \in Queues : queue[q] = <<>>
  BY DEF Init
<1>5. Len(topologies) = 0 /\ Cardinality(Finished) = 0
  BY <1>3, <1>4, FS_EmptySet
<1>6. Closing
  BY <1>2, <1>4, <1>5 DEF Closing
<1>. QED BY <1>2, <1>4, <1>6 DEF WInv, Placed, Scanning, Watching

LEMMA WatchNext == WInv /\ IInv /\ NInv /\ NInv' /\ Punctual /\ [Next]_vars => WInv'
<1>. SUFFICES ASSUME WInv, IInv, NInv, NInv', Punctual, [Next]_vars PROVE WInv'
  OBVIOUS
<1>1. Types /\ NotifierTypes /\ Sober /\ Placed /\ Closing /\ Scanning /\ Watching
  BY DEF WInv, IInv, NInv, Tickets, Sober
<1>. QED BY <1>1, NextPlaced, NextClosing, NextScanning, NextWatching DEF WInv

LEMMA Overlooked == WInv /\ NInv => ThiefIsAwake
<1>. SUFFICES ASSUME WInv, NInv, NEW q \in Queues, queue[q] # <<>>,
                     \A t \in Threads : npc[t] \in {"out", "cancel", "commit", "park", "parked"}
              PROVE  Asleep = {} \/ \E w \in Workers \ Asleep : WillSee(w)
  BY DEF ThiefIsAwake
<1>1. Settled
  BY DEF Settled, NotifyPlaces
<1>2. Watched(q)
  BY <1>1 DEF WInv, Watching
<1>3. ASSUME NEW w \in Workers, Sees(w, q) PROVE w \notin Asleep /\ WillSee(w)
  <2>1. w \in Asleep => pc[w] = "explore"
    BY <1>3 DEF WInv, Placed, Asleep
  <2>2. w \notin Asleep
    BY <1>3, <2>1 DEF Sees, Idle
  <2>3. WillSee(w)
    BY <1>3 DEF Sees, Idle, WillSee
  <2>. QED BY <2>2, <2>3
<1>. QED BY <1>2, <1>3 DEF Watched, Idle

(* While nobody lags behind by half of all epochs, a task that lies in a    *)
(* queue with no notification on its way finds nobody asleep, or a worker   *)
(* that steals or will look into that queue before it sleeps: the two-phase *)
(* wait of executor.hpp:1337-1366 misses no push.                           *)
THEOREM ThievesAwake == Spec /\ []Punctual => []ThiefIsAwake
<1>1. Init => WInv
  BY WatchBegins
<1>2. WInv /\ IInv /\ NInv /\ NInv' /\ Punctual /\ [Next]_vars => WInv'
  BY WatchNext
<1>3. WInv /\ NInv => ThiefIsAwake
  BY Overlooked
<1>. QED BY <1>1, <1>2, <1>3, Inductive, NotifierHolds, PTL DEF Spec
=============================================================================
