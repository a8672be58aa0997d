-------------------------- MODULE TaskQueueProofs --------------------------
(* The queue of taskflow/core/tsq.hpp implements WorkQueue: for any number  *)
(* of thieves, tasks and priorities, and any capacity to begin with, every  *)
(* push, pop and steal takes effect in one step.                            *)
EXTENDS TaskQueue, SequenceTheorems, TLAPS

-----------------------------------------------------------------------------
(* Places in an array, and sequences.                                       *)

LEMMA Division ==
  ASSUME NEW c \in Nat \ {0}, NEW i \in Int
  PROVE  i = c * (i \div c) + (i % c) /\ i \div c \in Int /\ i % c \in 0 .. c - 1
<1>1. c \in Int /\ c > 0
  OBVIOUS
<1>2. i = c * (i \div c) + (i % c)
  BY <1>1, Z3
<1>. QED BY <1>1, <1>2

\* Fewer than c apart, no two indices share a place in an array of c.
LEMMA PlacesDiffer ==
  ASSUME NEW c \in Nat \ {0}, NEW i \in Int, NEW j \in Int,
         i <= j, j - i < c, i % c = j % c
  PROVE  i = j
<1>1. i = c * (i \div c) + (i % c) /\ j = c * (j \div c) + (j % c)
  BY Division
<1>2. i \div c \in Int /\ j \div c \in Int /\ c \in Int /\ i % c \in Int
  BY Division
<1>. DEFINE q == (j \div c) - (i \div c)
<1>3. q \in Int /\ j - i = c * q
  <2>1. ASSUME NEW x \in Int, NEW y \in Int, NEW r \in Int, i = c * x + r, j = c * y + r
        PROVE j - i = c * (y - x)
    BY <1>2, <2>1
  <2>. QED BY <1>1, <1>2, <2>1
<1>. HIDE DEF q
<1>4. q < 1
  <2>1. SUFFICES ASSUME q >= 1 PROVE FALSE
    BY <1>3
  <2>2. c * q >= c
    BY <1>3, <2>1
  <2>. QED BY <1>3, <2>2
<1>5. q > -1
  <2>1. SUFFICES ASSUME q <= -1 PROVE FALSE
    BY <1>3
  <2>2. c * q <= -c
    BY <1>3, <2>1
  <2>. QED BY <1>3, <2>2
<1>. QED BY <1>3, <1>4, <1>5

LEMMA AppendIs ==
  ASSUME NEW S, NEW s \in Seq(S), NEW x \in S
  PROVE  Append(s, x) = [i \in 1 .. Len(s) + 1 |-> IF i <= Len(s) THEN s[i] ELSE x]
<1>. DEFINE r == [i \in 1 .. Len(s) + 1 |-> IF i <= Len(s) THEN s[i] ELSE x]
<1>1. Append(s, x) \in Seq(S) /\ r \in Seq(S)
  BY LenProperties, IsASeq
<1>2. Len(Append(s, x)) = Len(s) + 1 /\ Len(r) = Len(s) + 1
  BY <1>1
<1>3. \A i \in 1 .. Len(s) + 1 : Append(s, x)[i] = r[i]
  OBVIOUS
<1>. HIDE DEF r
<1>4. Append(s, x) = r
  BY <1>1, <1>2, <1>3, SeqEqual
<1>. QED BY <1>4 DEF r

LEMMA TailIs ==
  ASSUME NEW S, NEW s \in Seq(S), s # <<>>
  PROVE  Tail(s) = [i \in 1 .. Len(s) - 1 |-> s[i + 1]]
BY HeadTailProperties, LenProperties

LEMMA FrontIs ==
  ASSUME NEW S, NEW s \in Seq(S), s # <<>>
  PROVE  Front(s) = [i \in 1 .. Len(s) - 1 |-> s[i]]
BY SubSeqProperties DEF Front

-----------------------------------------------------------------------------
(* The invariant.                                                           *)

Array == UNION {[C : {c}, S : [0 .. c - 1 -> Items \cup {Null}]] : c \in Nat \ {0}}

OwnerPlaces == {"idle", "grow", "store", "publish", "pop", "popTop", "popExchange", "restore"}
ThiefPlaces ==
  {"idle", "steal", "stealBottom", "stealArray", "stealItem", "stealExchange",
   "empty", "emptyTop", "wasEmpty"}

Types ==
  /\ _top \in [Levels -> Nat] /\ _bottom \in [Levels -> Int]
  /\ arrays \in [Levels -> Seq(Array) \ {<<>>}]
  /\ pc \in [Threads -> OwnerPlaces \cup ThiefPlaces]
  /\ pc[Owner] \in OwnerPlaces /\ \A w \in Thieves : pc[w] \in ThiefPlaces
  /\ level \in [Threads -> Levels]
  /\ t_ \in [Threads -> Nat] /\ b_ \in [Threads -> Int] /\ a_ \in [Threads -> Nat]
  /\ item \in [Threads -> Items \cup {Null}]
  /\ pushed \subseteq Items /\ taken \in [Threads -> SUBSET Items] /\ refused \in BOOLEAN

\* What the queue holds lies in the array, all of it tasks that were pushed.
Window ==
  /\ \A p \in Levels :
       /\ _top[p] <= End(p) /\ End(p) - _top[p] <= _array(p).C
       /\ \A i \in _top[p] .. End(p) - 1 : Slot(_array(p), i) \in pushed
  /\ \A w \in Threads : taken[w] \subseteq pushed

\* A push has a task no one has, and room for it from "store" on.
Pushing ==
  pc[Owner] \in {"grow", "store", "publish"} =>
    LET p == level[Owner]
        x == item[Owner]
    IN  /\ x \in pushed /\ p = PriorityOf[x]
        /\ \A q \in Levels : \A i \in _top[q] .. End(q) - 1 : Slot(_array(q), i) # x
        /\ \A w \in Threads : x \notin taken[w]
        /\ b_[Owner] = _bottom[p]
        /\ pc[Owner] = "grow" => t_[Owner] <= _top[p] /\ b_[Owner] - t_[Owner] <= _array(p).C
        /\ pc[Owner] \in {"store", "publish"} => b_[Owner] - _top[p] < _array(p).C
        /\ pc[Owner] = "publish" => Slot(_array(p), b_[Owner]) = x

\* A pop has found nothing at the levels it has left behind.
Popping ==
  /\ pc[Owner] = "idle" => level[Owner] = 0
  /\ pc[Owner] \in {"idle", "pop", "popTop"} => item[Owner] = Null
  /\ pc[Owner] \in {"pop", "popTop", "popExchange", "restore"} =>
       \A q \in Levels : q < level[Owner] => End(q) = _top[q]
  /\ pc[Owner] \in {"popTop", "popExchange", "restore"} => b_[Owner] = _bottom[level[Owner]]
  /\ pc[Owner] = "popExchange" =>
       /\ t_[Owner] = b_[Owner] /\ t_[Owner] <= _top[level[Owner]]
       /\ item[Owner] = Slot(_array(level[Owner]), b_[Owner])
  /\ pc[Owner] = "restore" => End(level[Owner]) = _top[level[Owner]]
  /\ refused => pc[Owner] = "idle" /\ \A q \in Levels : End(q) = _top[q]

\* A thief whose exchange would succeed has the oldest task.
Stealing(w) ==
  LET p == level[w]
  IN  /\ pc[w] \in {"stealBottom", "stealArray", "stealItem", "stealExchange"} => t_[w] <= _top[p]
      /\ pc[w] \in {"stealArray", "stealItem", "stealExchange"} =>
           (t_[w] = _top[p] => _top[p] < End(p))
      /\ pc[w] = "stealItem" =>
           /\ a_[w] \in DOMAIN arrays[p]
           /\ t_[w] = _top[p] => Slot(arrays[p][a_[w]], t_[w]) = Slot(_array(p), _top[p])
      /\ pc[w] = "stealExchange" =>
           (t_[w] = _top[p] => item[w] = Slot(_array(p), _top[p]))

IInv == Types /\ Window /\ Pushing /\ Popping /\ \A w \in Thieves : Stealing(w)

-----------------------------------------------------------------------------
(* What the types give.                                                     *)

LEMMA ArrayIs ==
  ASSUME NEW arr \in Array
  PROVE  /\ arr.C \in Nat \ {0} /\ arr.S \in [0 .. arr.C - 1 -> Items \cup {Null}]
         /\ \A i \in Int : Slot(arr, i) \in Items \cup {Null}
<1>1. PICK c \in Nat \ {0} : arr \in [C : {c}, S : [0 .. c - 1 -> Items \cup {Null}]]
  BY DEF Array
<1>2. arr.C = c /\ arr.S \in [0 .. c - 1 -> Items \cup {Null}]
  BY <1>1
<1>3. \A i \in Int : i % c \in 0 .. c - 1
  BY Division
<1>. QED BY <1>1, <1>2, <1>3 DEF Slot

LEMMA ArrayMade ==
  ASSUME NEW c \in Nat \ {0}, NEW S \in [0 .. c - 1 -> Items \cup {Null}]
  PROVE  [C |-> c, S |-> S] \in Array
BY DEF Array

Sound(p) ==
  /\ _top[p] \in Nat /\ _bottom[p] \in Int /\ End(p) \in Int
  /\ arrays[p] \in Seq(Array)
  /\ Len(arrays[p]) \in Nat \ {0} /\ DOMAIN arrays[p] = 1 .. Len(arrays[p])
  /\ \A g \in DOMAIN arrays[p] : arrays[p][g] \in Array
  /\ _array(p) = arrays[p][Len(arrays[p])]
  /\ _array(p) \in Array /\ _array(p).C \in Nat \ {0}
  /\ \A i \in Int : Slot(_array(p), i) \in Items \cup {Null}

LEMMA AllSound == Types => \A p \in Levels : Sound(p)
<1>. SUFFICES ASSUME Types, NEW p \in Levels PROVE Sound(p)
  OBVIOUS
<1>1. _top[p] \in Nat /\ _bottom[p] \in Int /\ End(p) \in Int
  BY DEF Types, End
<1>2. arrays[p] \in Seq(Array) /\ arrays[p] # <<>>
  BY DEF Types
<1>3. Len(arrays[p]) \in Nat \ {0} /\ DOMAIN arrays[p] = 1 .. Len(arrays[p])
  BY <1>2, EmptySeq, LenProperties
<1>4. /\ \A g \in DOMAIN arrays[p] : arrays[p][g] \in Array
      /\ _array(p) = arrays[p][Len(arrays[p])] /\ _array(p) \in Array
  BY <1>2, <1>3, ElementOfSeq DEF _array, Last
<1>. QED BY <1>1, <1>2, <1>3, <1>4, ArrayIs DEF Sound

LEMMA AllSoundNext == Types' => (\A p \in Levels : Sound(p))'
BY AllSound, PTL

-----------------------------------------------------------------------------
(* What all steps but the end of a push do to level q: nothing comes to the *)
(* queue, and what stays keeps its index.                                   *)
Shrinks(q) ==
  /\ _top[q] <= _top'[q] /\ _top'[q] <= End(q)' /\ End(q)' <= End(q)
  /\ _array(q).C <= _array(q)'.C
  /\ \A i \in _top[q] .. End(q) - 1 : Slot(_array(q)', i) = Slot(_array(q), i)

\* What every step does to the thieves of level q that have begun.
Spares(q) ==
  /\ _top[q] <= _top'[q]
  /\ DOMAIN arrays[q] \subseteq DOMAIN arrays'[q]
  /\ _top'[q] = _top[q] /\ _top[q] < End(q) =>
       /\ _top[q] < End(q)'
       /\ Slot(_array(q)', _top[q]) = Slot(_array(q), _top[q])
       /\ \A g \in DOMAIN arrays[q] : Slot(arrays'[q][g], _top[q]) = Slot(arrays[q][g], _top[q])

LEMMA WindowKept ==
  ASSUME Types, Types', Window, \A q \in Levels : Shrinks(q),
         pushed \subseteq pushed', \A w \in Threads : taken'[w] \subseteq pushed'
  PROVE  Window'
<1>. SUFFICES ASSUME NEW q \in Levels
              PROVE  /\ _top'[q] <= End(q)' /\ End(q)' - _top'[q] <= _array(q)'.C
                     /\ \A i \in _top'[q] .. End(q)' - 1 : Slot(_array(q)', i) \in pushed'
  BY DEF Window, Slot
<1>1. /\ _top[q] \in Nat /\ End(q) \in Int /\ _top'[q] \in Nat /\ End(q)' \in Int
      /\ _array(q).C \in Nat /\ _array(q)'.C \in Nat
  BY AllSound, AllSoundNext DEF Sound
<1>2. _top'[q] .. End(q)' - 1 \subseteq _top[q] .. End(q) - 1
  BY <1>1 DEF Shrinks
<1>. QED BY <1>1, <1>2 DEF Shrinks, Window

LEMMA StealingKept ==
  ASSUME Types, NEW w \in Thieves, Stealing(w), \A q \in Levels : Spares(q), Types',
         pc'[w] = pc[w], level'[w] = level[w], t_'[w] = t_[w], a_'[w] = a_[w], item'[w] = item[w]
  PROVE  Stealing(w)'
<1>. DEFINE p == level[w]
<1>1. p \in Levels /\ t_[w] \in Nat /\ _top[p] \in Nat /\ _top'[p] \in Nat
  BY DEF Types, Threads
<1>2. Spares(p)
  BY <1>1
<1>3. t_[w] <= _top[p] => t_[w] <= _top'[p] /\ (t_[w] = _top'[p] => _top'[p] = _top[p])
  BY <1>1, <1>2 DEF Spares
<1>4. CASE pc[w] \notin {"stealBottom", "stealArray", "stealItem", "stealExchange"}
  BY <1>4 DEF Stealing
<1>5. CASE pc[w] \in {"stealBottom", "stealArray", "stealItem", "stealExchange"}
  <2>1. t_[w] <= _top[p] /\ t_[w] <= _top'[p] /\ (t_[w] = _top'[p] => _top'[p] = _top[p])
    BY <1>3, <1>5 DEF Stealing
  <2>2. pc[w] # "stealBottom" /\ t_[w] = _top'[p] => _top[p] < End(p) /\ _top'[p] < End(p)'
    BY <1>2, <1>5, <2>1 DEF Stealing, Spares
  <2>3. pc[w] = "stealItem" => a_[w] \in DOMAIN arrays'[p]
    BY <1>2 DEF Stealing, Spares
  <2>4. pc[w] = "stealItem" /\ t_[w] = _top'[p] =>
          Slot(arrays'[p][a_[w]], t_[w]) = Slot(_array(p)', _top'[p])
    BY <1>2, <2>1, <2>2 DEF Stealing, Spares
  <2>5. pc[w] = "stealExchange" /\ t_[w] = _top'[p] => item[w] = Slot(_array(p)', _top'[p])
    BY <1>2, <2>1, <2>2 DEF Stealing, Spares
  <2>. QED BY <2>1, <2>2, <2>3, <2>4, <2>5 DEF Stealing, Slot
<1>. QED BY <1>4, <1>5

-----------------------------------------------------------------------------
(* The deque that the callers see.                                          *)

LEMMA ContentIs ==
  ASSUME Types, Window, NEW p \in Levels
  PROVE  /\ Content(p) \in Seq(Items) /\ Len(Content(p)) = End(p) - _top[p]
         /\ \A i \in 1 .. End(p) - _top[p] : Content(p)[i] = Slot(_array(p), _top[p] + i - 1)
<1>1. _top[p] \in Nat /\ End(p) \in Int /\ _top[p] <= End(p)
  BY AllSound DEF Sound, Window
<1>2. End(p) - _top[p] \in Nat
  BY <1>1
<1>3. ASSUME NEW i \in 1 .. End(p) - _top[p] PROVE Slot(_array(p), _top[p] + i - 1) \in Items
  <2>1. _top[p] + i - 1 \in _top[p] .. End(p) - 1
    BY <1>1
  <2>. QED BY <2>1 DEF Window, Types
<1>4. Content(p) \in [1 .. End(p) - _top[p] -> Items]
  BY <1>3 DEF Content
<1>5. Content(p) \in Seq(Items)
  BY <1>2, <1>4, IsASeq
<1>6. Len(Content(p)) = End(p) - _top[p]
  BY <1>2, <1>4, <1>5, LenProperties
<1>. QED BY <1>5, <1>6 DEF Content

LEMMA ContentsAre ==
  Types /\ Window =>
    \A p \in Levels : Content(p) \in Seq(Items) /\ Len(Content(p)) = End(p) - _top[p]
BY ContentIs

LEMMA ContentsAreNext ==
  Types' /\ Window' =>
    (\A p \in Levels : Content(p) \in Seq(Items) /\ Len(Content(p)) = End(p) - _top[p])'
BY ContentsAre, PTL

LEMMA DequeSame ==
  ASSUME Types, Types',
         \A q \in Levels :
           /\ _top'[q] = _top[q] /\ End(q)' = End(q)
           /\ \A i \in _top[q] .. End(q) - 1 : Slot(_array(q)', i) = Slot(_array(q), i)
  PROVE  Deque' = Deque
<1>1. ASSUME NEW q \in Levels PROVE Content(q)' = Content(q)
  <2>1. _top[q] \in Nat /\ End(q) \in Int
    BY AllSound DEF Sound
  <2>2. ASSUME NEW i \in 1 .. End(q) - _top[q]
        PROVE  Slot(_array(q)', _top[q] + i - 1) = Slot(_array(q), _top[q] + i - 1)
    <3>1. _top[q] + i - 1 \in _top[q] .. End(q) - 1
      BY <2>1
    <3>. QED BY <3>1
  <2>3. Content(q)' = [i \in 1 .. End(q)' - _top'[q] |-> Slot(_array(q)', _top'[q] + i - 1)]
    BY DEF Content, Slot
  <2>4. Content(q)' = [i \in 1 .. End(q) - _top[q] |-> Slot(_array(q)', _top[q] + i - 1)]
    BY <2>3
  <2>. QED BY <2>2, <2>4 DEF Content
<1>. QED BY <1>1 DEF Deque

-----------------------------------------------------------------------------
(* Thieves.                                                                 *)

\* The locals of one thread change, and keep their types.
Locals(w) ==
  /\ pc' \in [Threads -> OwnerPlaces \cup ThiefPlaces] /\ \A v \in Threads \ {w} : pc'[v] = pc[v]
  /\ level' \in [Threads -> Levels]
  /\ t_' \in [Threads -> Nat] /\ b_' \in [Threads -> Int] /\ a_' \in [Threads -> Nat]
  /\ item' \in [Threads -> Items \cup {Null}]

LEMMA ReturnLocals ==
  ASSUME Types, NEW w \in Threads, Return(w)
  PROVE  Locals(w) /\ pc'[w] = "idle"
<1>1. 0 \in Levels /\ "idle" \in OwnerPlaces
  BY LevelsAssumption DEF Levels, OwnerPlaces
<1>2. pc' = [pc EXCEPT ![w] = "idle"] /\ level' = [level EXCEPT ![w] = 0]
  BY DEF Return, Goto
<1>. QED BY <1>1, <1>2, SMTT(30) DEF Types, Return, Locals

LEMMA NextLevelLocals ==
  ASSUME Types, NEW w \in Threads, NEW place \in OwnerPlaces \cup ThiefPlaces, NextLevel(w, place)
  PROVE  Locals(w) /\ pc'[w] \in {place, "idle"}
<1>1. CASE Return(w)
  BY <1>1, ReturnLocals
<1>2. CASE level[w] + 1 \in Levels /\ ~Return(w)
  <2>1. pc' = [pc EXCEPT ![w] = place] /\ level' = [level EXCEPT ![w] = level[w] + 1]
    BY <1>2 DEF NextLevel, Goto
  <2>2. /\ t_' = [t_ EXCEPT ![w] = 0] /\ b_' = [b_ EXCEPT ![w] = 0]
        /\ a_' = [a_ EXCEPT ![w] = 1] /\ item' = [item EXCEPT ![w] = Null]
    BY <1>2 DEF NextLevel
  <2>. QED BY <1>2, <2>1, <2>2, SMTT(30) DEF Types, Locals
<1>. QED BY <1>1, <1>2 DEF NextLevel

\* What no step of thief w touches.
Apart(w) ==
  /\ UNCHANGED <<_bottom, arrays, pushed, refused>>
  /\ \A v \in Threads \ {w} :
       /\ pc'[v] = pc[v] /\ level'[v] = level[v] /\ t_'[v] = t_[v]
       /\ b_'[v] = b_[v] /\ a_'[v] = a_[v] /\ item'[v] = item[v]

LEMMA ThiefApart ==
  ASSUME Types, NEW w \in Thieves, Thief(w)
  PROVE  Apart(w)
<1>. USE DEF Types, Threads, Apart, Goto, Return, NextLevel, shared, history
<1>1. CASE StealTop(w) BY <1>1 DEF StealTop
<1>2. CASE StealBottom(w) BY <1>2 DEF StealBottom
<1>3. CASE StealArray(w) BY <1>3 DEF StealArray
<1>4. CASE StealItem(w) BY <1>4 DEF StealItem
<1>5. CASE StealExchange(w) BY <1>5 DEF StealExchange
<1>6. CASE EmptyBottom(w) BY <1>6 DEF EmptyBottom
<1>7. CASE EmptyTop(w) BY <1>7 DEF EmptyTop
<1>8. CASE WasEmpty(w) BY <1>8 DEF WasEmpty
<1>. QED BY <1>1, <1>2, <1>3, <1>4, <1>5, <1>6, <1>7, <1>8 DEF Thief

LEMMA EndsApart ==
  ASSUME Types, NEW w \in Thieves, Apart(w)
  PROVE  \A q \in Levels : End(q)' = End(q) /\ _array(q)' = _array(q)
<1>1. Owner \in Threads \ {w}
  BY ThreadsAssumption DEF Threads
<1>. QED BY <1>1 DEF Apart, End, _array

\* A step of a thief that takes at most an oldest task.
LEMMA ThiefKeeps ==
  ASSUME IInv, NEW w \in Thieves, Apart(w), Types', Stealing(w)',
         \A q \in Levels : _top[q] <= _top'[q] /\ _top'[q] <= End(q),
         \A v \in Threads : \A x \in taken'[v] :
           x \in taken[v] \/ \E q \in Levels : _top[q] < End(q) /\ x = Slot(_array(q), _top[q])
  PROVE  IInv'
<1>. DEFINE Live(q) == _top[q] .. End(q) - 1
<1>1. Types /\ Window /\ Pushing /\ Popping /\ Owner \in Threads \ {w}
  BY ThreadsAssumption DEF IInv, Threads
<1>2. \A q \in Levels : Sound(q) /\ Sound(q)' /\ End(q)' = End(q) /\ _array(q)' = _array(q)
  BY <1>1, AllSound, AllSoundNext, EndsApart
<1>3. \A q \in Levels : Shrinks(q) /\ Spares(q)
  BY <1>2 DEF Shrinks, Spares, Sound, Apart
<1>4. \A v \in Threads : \A x \in taken'[v] :
        x \in taken[v] \/ \E q \in Levels : \E i \in Live(q) : x = Slot(_array(q), i)
  <2>1. \A q \in Levels : _top[q] < End(q) => _top[q] \in Live(q)
    BY <1>2 DEF Sound
  <2>. QED BY <2>1
<1>5. Window'
  <2>1. \A v \in Threads : taken'[v] \subseteq pushed'
    BY <1>1, <1>4 DEF Window, Apart
  <2>. QED BY <1>1, <1>3, <2>1, WindowKept DEF Apart
<1>6. Pushing'
  <2>. SUFFICES ASSUME pc[Owner] \in {"grow", "store", "publish"} PROVE Pushing'
    BY <1>1 DEF Pushing, Apart
  <2>. DEFINE p == level[Owner]  x == item[Owner]
  <2>1. p \in Levels /\ b_[Owner] \in Int /\ t_[Owner] \in Nat
    BY <1>1 DEF Types
  <2>2. \A q \in Levels : \A i \in Live(q) : Slot(_array(q), i) # x
    BY <1>1 DEF Pushing
  <2>3. \A q \in Levels : \A i \in _top'[q] .. End(q)' - 1 : Slot(_array(q)', i) # x
    <3>1. \A q \in Levels : _top'[q] .. End(q)' - 1 \subseteq Live(q)
      BY <1>2 DEF Sound
    <3>. QED BY <1>2, <2>2, <3>1
  <2>4. \A v \in Threads : x \notin taken'[v]
    BY <1>1, <1>4, <2>2 DEF Pushing
  <2>5. /\ pc[Owner] = "grow" => t_[Owner] <= _top'[p]
        /\ pc[Owner] \in {"store", "publish"} => b_[Owner] - _top'[p] < _array(p).C
    <3>1. /\ _top[p] \in Nat /\ _top'[p] \in Nat /\ _top[p] <= _top'[p]
          /\ _array(p).C \in Nat
      BY <1>2, <1>3, <2>1 DEF Sound, Shrinks
    <3>2. /\ pc[Owner] = "grow" => t_[Owner] <= _top[p]
          /\ pc[Owner] \in {"store", "publish"} => b_[Owner] - _top[p] < _array(p).C
      BY <1>1 DEF Pushing
    <3>. QED BY <2>1, <3>1, <3>2
  <2>. QED BY <1>1, <1>2, <2>1, <2>3, <2>4, <2>5 DEF Pushing, Apart, Slot
<1>7. Popping'
  <2>1. \A q \in Levels : End(q) = _top[q] => End(q)' = _top'[q]
    BY <1>2 DEF Sound
  <2>2. level[Owner] \in Levels
    BY <1>1 DEF Types
  <2>3. t_[Owner] <= _top[level[Owner]] => t_[Owner] <= _top'[level[Owner]]
    BY <1>1, <1>2, <2>2 DEF Types, Sound
  <2>. QED BY <1>1, <1>2, <2>1, <2>2, <2>3 DEF Popping, Apart, Slot
<1>8. ASSUME NEW v \in Thieves, v # w PROVE Stealing(v)'
  <2>1. Stealing(v) /\ v \in Threads \ {w}
    BY <1>8 DEF IInv, Threads
  <2>. QED BY <1>1, <1>3, <2>1, StealingKept DEF Apart
<1>. QED BY <1>5, <1>6, <1>7, <1>8 DEF IInv

\* Steps of thieves that only look.
LEMMA LookKeeps ==
  ASSUME IInv, NEW w \in Thieves, Thief(w), UNCHANGED <<_top, taken>>
  PROVE  IInv' /\ Deque' = Deque
<1>1. Types /\ Window /\ Popping /\ Stealing(w) /\ Apart(w) /\ w \in Threads /\ w # Owner
  BY ThiefApart, ThreadsAssumption DEF IInv, Threads
<1>. DEFINE p == level[w]
<1>2. p \in Levels /\ \A q \in Levels : Sound(q) /\ End(q)' = End(q) /\ _array(q)' = _array(q)
  BY <1>1, AllSound, EndsApart DEF Types
<1>3. Types'
  <2>1. Locals(w) /\ pc'[w] \in ThiefPlaces
    <3>. USE <1>1, <1>2 DEF ThiefPlaces, shared, history
    <3>1. CASE StealTop(w) BY <3>1 DEF StealTop, Types, Goto, Locals, Sound
    <3>2. CASE StealBottom(w)
      <4>1. CASE NextLevel(w, "steal") BY <3>2, <4>1, NextLevelLocals
      <4>2. CASE ~NextLevel(w, "steal") BY <3>2, <4>2 DEF StealBottom, Types, Goto, Locals
      <4>. QED BY <4>1, <4>2
    <3>3. CASE StealArray(w) BY <3>3 DEF StealArray, Types, Goto, Locals, Sound
    <3>4. CASE StealItem(w)
      <4>1. Slot(arrays[p][a_[w]], t_[w]) \in Items \cup {Null}
        BY <3>4, ArrayIs DEF StealItem, Stealing, Sound, Types
      <4>. QED BY <3>4, <4>1 DEF StealItem, Types, Goto, Locals
    <3>5. CASE StealExchange(w)
      <4>1. NextLevel(w, "steal") \/ Return(w)
        BY <3>5 DEF StealExchange
      <4>. QED BY <4>1, NextLevelLocals, ReturnLocals
    <3>6. CASE EmptyBottom(w) BY <3>6 DEF EmptyBottom, Types, Goto, Locals, Sound
    <3>7. CASE EmptyTop(w)
      <4>1. \/ NextLevel(w, "empty") \/ Return(w)
            \/ Goto(w, "wasEmpty") /\ UNCHANGED <<level, t_, b_, a_, item, before>>
        BY <3>7 DEF EmptyTop
      <4>2. CASE NextLevel(w, "empty") \/ Return(w) BY <4>2, NextLevelLocals, ReturnLocals
      <4>3. CASE Goto(w, "wasEmpty") /\ UNCHANGED <<level, t_, b_, a_, item, before>>
        BY <4>3 DEF Types, Goto, Locals
      <4>. QED BY <4>1, <4>2, <4>3
    <3>8. CASE WasEmpty(w) BY <3>8, ReturnLocals DEF WasEmpty
    <3>. QED BY <3>1, <3>2, <3>3, <3>4, <3>5, <3>6, <3>7, <3>8 DEF Thief
  <2>2. UNCHANGED <<_top, _bottom, arrays, pushed, taken, refused>>
    BY <1>1 DEF Apart
  <2>3. pc'[Owner] = pc[Owner] /\ \A v \in Thieves : pc'[v] \in ThiefPlaces
    BY <1>1, <2>1 DEF Apart, Types, Threads
  <2>. QED BY <1>1, <2>1, <2>2, <2>3 DEF Types, Locals
<1>4. Stealing(w)'
  <2>. USE <1>1, <1>2 DEF Types, Goto, Return, NextLevel, shared, history, Apart
  <2>1. CASE StealTop(w) BY <2>1 DEF StealTop, Stealing, Sound
  <2>2. CASE StealBottom(w)
    <3>1. _bottom[p] <= End(p)
      BY DEF End, Sound
    <3>2. t_[w] <= _top[p]
      BY <2>2 DEF Stealing, StealBottom
    <3>3. CASE t_[w] < _bottom[p] /\ pc'[w] = "stealArray"
      BY <2>2, <3>1, <3>2, <3>3 DEF Stealing, StealBottom, Sound
    <3>. QED BY <2>2, <3>3 DEF Stealing, StealBottom
  <2>3. CASE StealArray(w)
    <3>1. a_'[w] = Len(arrays[p]) /\ a_'[w] \in DOMAIN arrays[p] /\ _array(p) = arrays[p][a_'[w]]
      BY <2>3 DEF StealArray, Sound
    <3>2. /\ pc'[w] = "stealItem" /\ level'[w] = p /\ t_'[w] = t_[w] /\ _top' = _top
      BY <2>3 DEF StealArray
    <3>. QED BY <2>3, <3>1, <3>2 DEF StealArray, Stealing, Slot
  <2>4. CASE StealItem(w) BY <2>4 DEF StealItem, Stealing, Slot
  <2>5. CASE StealExchange(w) BY <2>5 DEF StealExchange, Stealing
  <2>6. CASE EmptyBottom(w) BY <2>6 DEF EmptyBottom, Stealing
  <2>7. CASE EmptyTop(w) BY <2>7 DEF EmptyTop, Stealing
  <2>8. CASE WasEmpty(w) BY <2>8 DEF WasEmpty, Stealing
  <2>. QED BY <2>1, <2>2, <2>3, <2>4, <2>5, <2>6, <2>7, <2>8 DEF Thief
<1>5. \A q \in Levels : _top[q] <= _top'[q] /\ _top'[q] <= End(q)
  BY <1>1, <1>2 DEF Sound, Window
<1>6. IInv'
  BY <1>1, <1>3, <1>4, <1>5, ThiefKeeps
<1>7. Deque' = Deque
  BY <1>1, <1>2, <1>3, DequeSame DEF Apart
<1>. QED BY <1>6, <1>7

\* The exchange of a thief takes the oldest task of its level.
LEMMA ExchangeTakes ==
  ASSUME IInv, NEW w \in Thieves, NEW p \in Levels, p = level[w],
         StealExchange(w), _top[p] = t_[w],
         _top' = [_top EXCEPT ![p] = @ + 1], Takes(w, item[w]), Return(w)
  PROVE  /\ IInv' /\ Content(p) # <<>> /\ item[w] = Head(Content(p))
         /\ Deque' = [Deque EXCEPT ![p] = Tail(@)]
<1>1. /\ Types /\ Window /\ Stealing(w) /\ Apart(w) /\ w \in Threads /\ w # Owner
      /\ pc[w] = "stealExchange" /\ p \in Levels /\ UNCHANGED <<_bottom, arrays, pushed, refused>>
  BY ThiefApart, ThreadsAssumption DEF IInv, Thief, Threads, StealExchange, Types
<1>2. \A q \in Levels : Sound(q) /\ End(q)' = End(q) /\ _array(q)' = _array(q)
  BY <1>1, AllSound, EndsApart
<1>3. _top[p] < End(p) /\ item[w] = Slot(_array(p), _top[p])
  BY <1>1 DEF Stealing
<1>4. item[w] \in pushed
  BY <1>1, <1>2, <1>3 DEF Window, Sound
<1>5. Types'
  <2>1. _top' \in [Levels -> Nat] /\ taken' \in [Threads -> SUBSET Items]
    BY <1>1, <1>4 DEF Types, Takes
  <2>2. Locals(w) /\ pc'[w] = "idle"
    BY <1>1, ReturnLocals
  <2>3. pc'[Owner] = pc[Owner] /\ \A v \in Thieves : pc'[v] \in ThiefPlaces
    BY <1>1, <2>2 DEF Apart, Types, Threads, ThiefPlaces
  <2>. QED BY <1>1, <2>1, <2>2, <2>3 DEF Types, Locals
<1>6. Stealing(w)'
  BY <1>1 DEF Stealing, Return, Goto, Types
<1>7. \A q \in Levels : _top[q] <= _top'[q] /\ _top'[q] <= End(q)
  <2>1. \A q \in Levels : _top'[q] = IF q = p THEN _top[q] + 1 ELSE _top[q]
    BY <1>1 DEF Types
  <2>. QED BY <1>1, <1>2, <1>3, <2>1 DEF Window, Sound
<1>8. \A v \in Threads : \A x \in taken'[v] :
        x \in taken[v] \/ \E q \in Levels : _top[q] < End(q) /\ x = Slot(_array(q), _top[q])
  BY <1>1, <1>3 DEF Takes, Types
<1>9. IInv'
  BY <1>1, <1>5, <1>6, <1>7, <1>8, ThiefKeeps
<1>10. Content(p) \in Seq(Items) /\ Content(p) # <<>> /\ item[w] = Head(Content(p))
  BY <1>1, <1>2, <1>3, ContentIs DEF Sound
<1>11. ASSUME NEW q \in Levels, q # p PROVE Content(q)' = Content(q)
  <2>1. _top'[q] = _top[q]
    BY <1>1, <1>11 DEF Types
  <2>. QED BY <1>2, <2>1 DEF Content, Slot
<1>12. Content(p)' = Tail(Content(p))
  <2>1. Content(p)' = [i \in 1 .. End(p) - _top'[p] |-> Slot(_array(p), _top'[p] + i - 1)]
    <3>1. End(p)' = End(p) /\ _array(p)' = _array(p)
      BY <1>1, <1>2
    <3>2. Content(p)' = [i \in 1 .. End(p)' - _top'[p] |-> Slot(_array(p)', _top'[p] + i - 1)]
      BY DEF Content, Slot
    <3>. QED BY <3>1, <3>2
  <2>2. _top'[p] = _top[p] + 1 /\ _top[p] \in Nat /\ End(p) \in Int
    BY <1>1, <1>2 DEF Types, Sound
  <2>3. Tail(Content(p)) = [i \in 1 .. Len(Content(p)) - 1 |-> Content(p)[i + 1]]
    BY <1>10, TailIs
  <2>4. ASSUME NEW i \in 1 .. End(p) - _top[p] - 1
        PROVE  Content(p)[i + 1] = Slot(_array(p), _top'[p] + i - 1)
    <3>1. i + 1 \in 1 .. End(p) - _top[p] /\ _top[p] + (i + 1) - 1 = _top'[p] + i - 1
      BY <2>2
    <3>. QED BY <1>1, <3>1, ContentIs
  <2>5. Len(Content(p)) - 1 = End(p) - _top[p] - 1 /\ End(p) - _top'[p] = End(p) - _top[p] - 1
    BY <1>1, <2>2, ContentIs
  <2>. QED BY <2>1, <2>3, <2>4, <2>5
<1>13. Deque' = [Deque EXCEPT ![p] = Tail(@)]
  <2>1. \A q \in Levels : Content(q)' = IF q = p THEN Tail(Content(p)) ELSE Content(q)
    BY <1>11, <1>12
  <2>. QED BY <1>1, <2>1 DEF Deque
<1>. QED BY <1>9, <1>10, <1>13

-----------------------------------------------------------------------------
(* The owner.                                                               *)

\* A step of the owner that neither adds to the queue nor undoes what a thief
\* has seen.
LEMMA OwnerKeeps ==
  ASSUME IInv, Types', Pushing', Popping', \A q \in Levels : Shrinks(q) /\ Spares(q),
         pushed \subseteq pushed', \A v \in Threads : taken'[v] \subseteq pushed',
         \A w \in Thieves : /\ pc'[w] = pc[w] /\ level'[w] = level[w] /\ t_'[w] = t_[w]
                            /\ a_'[w] = a_[w] /\ item'[w] = item[w]
  PROVE  IInv'
<1>1. Window'
  BY WindowKept DEF IInv
<1>2. ASSUME NEW w \in Thieves PROVE Stealing(w)'
  BY <1>2, StealingKept DEF IInv
<1>. QED BY <1>1, <1>2 DEF IInv

\* Where no array changes and the window at most shrinks.
LEMMA SameArrays ==
  ASSUME Types, Types', Window, arrays' = arrays,
         \A q \in Levels : /\ _top[q] <= _top'[q] /\ _top'[q] <= End(q)' /\ End(q)' <= End(q)
                           /\ _top'[q] = _top[q] /\ _top[q] < End(q) => _top[q] < End(q)'
  PROVE  \A q \in Levels : Shrinks(q) /\ Spares(q) /\ _array(q)' = _array(q)
<1>1. \A q \in Levels : _array(q)' = _array(q) /\ Sound(q)
  BY AllSound DEF _array
<1>. QED BY <1>1 DEF Shrinks, Spares, Sound

LEMMA PushKeeps ==
  ASSUME IInv, NEW x \in Items, Push(x)
  PROVE  IInv' /\ Deque' = Deque
<1>1. /\ Types /\ Window /\ pc[Owner] = "idle" /\ Owner \in Threads /\ x \notin pushed
      /\ pushed' = pushed \cup {x} /\ UNCHANGED <<_top, _bottom, arrays, taken>>
  BY DEF IInv, Push, Threads, shared
<1>2. PICK p \in Levels : p = PriorityOf[x]
  BY LevelsAssumption
<1>3. /\ level' = [level EXCEPT ![Owner] = p] /\ item' = [item EXCEPT ![Owner] = x]
      /\ b_' = [b_ EXCEPT ![Owner] = _bottom[p]] /\ t_' = [t_ EXCEPT ![Owner] = _top[p]]
      /\ pc' = [pc EXCEPT ![Owner] = IF PushFull(p) THEN "grow" ELSE "store"]
      /\ a_' = a_ /\ refused' = FALSE
  BY <1>2 DEF Push, Goto
<1>4. \A q \in Levels : Sound(q)
  BY <1>1, AllSound
<1>5. Types'
  <2>1. Locals(Owner) /\ pc'[Owner] \in {"grow", "store"}
    BY <1>1, <1>2, <1>3, <1>4 DEF Types, Locals, OwnerPlaces, Sound
  <2>2. \A w \in Thieves : pc'[w] = pc[w]
    BY <1>1, <1>3, ThreadsAssumption DEF Types, Threads
  <2>. QED BY <1>1, <1>3, <2>1, <2>2 DEF Types, Locals, OwnerPlaces
<1>6. \A q \in Levels : End(q) = _bottom[q] /\ End(q)' = _bottom[q]
  BY <1>1, <1>3 DEF End, Types
<1>7. \A q \in Levels : Shrinks(q) /\ Spares(q) /\ _array(q)' = _array(q)
  <2>1. \A q \in Levels : _top[q] <= End(q) /\ End(q)' = End(q) /\ _top'[q] = _top[q]
    BY <1>1, <1>6 DEF Window
  <2>. QED BY <1>1, <1>4, <1>5, <2>1, SameArrays DEF Sound
<1>8. Pushing'
  <2>1. \A q \in Levels : \A i \in _top[q] .. End(q) - 1 : Slot(_array(q), i) # x
    BY <1>1 DEF Window
  <2>2. \A v \in Threads : x \notin taken[v]
    BY <1>1 DEF Window
  <2>3. /\ level'[Owner] = p /\ item'[Owner] = x /\ b_'[Owner] = _bottom[p] /\ t_'[Owner] = _top[p]
        /\ pc'[Owner] = (IF PushFull(p) THEN "grow" ELSE "store")
    BY <1>1, <1>3 DEF Types
  <2>4. PushFull(p) <=> _array(p).C - 1 < _bottom[p] - _top[p]
    BY DEF PushFull
  <2>5. _bottom[p] - _top[p] <= _array(p).C
    BY <1>1, <1>6 DEF Window
  <2>6. /\ pc'[Owner] = "grow" => b_'[Owner] - t_'[Owner] <= _array(p).C
        /\ pc'[Owner] = "store" => b_'[Owner] - _top'[p] < _array(p).C
    BY <1>1, <1>4, <2>3, <2>4, <2>5 DEF Sound
  <2>7. \A q \in Levels : \A i \in _top'[q] .. End(q)' - 1 : Slot(_array(q)', i) # x
    BY <1>1, <1>6, <1>7, <2>1
  <2>. QED BY <1>1, <1>2, <1>4, <1>7, <2>2, <2>3, <2>6, <2>7 DEF Pushing, Slot, Sound
<1>9. Popping'
  <2>1. pc'[Owner] \in {"grow", "store"} /\ refused' = FALSE
    BY <1>1, <1>3 DEF Types
  <2>. QED BY <2>1 DEF Popping
<1>10. IInv'
  <2>1. \A w \in Thieves : /\ pc'[w] = pc[w] /\ level'[w] = level[w] /\ t_'[w] = t_[w]
                           /\ a_'[w] = a_[w] /\ item'[w] = item[w]
    BY <1>1, <1>3, ThreadsAssumption DEF Types, Threads
  <2>2. \A v \in Threads : taken'[v] \subseteq pushed'
    BY <1>1 DEF Window
  <2>. QED BY <1>1, <1>5, <1>7, <1>8, <1>9, <2>1, <2>2, OwnerKeeps
<1>11. Deque' = Deque
  BY <1>1, <1>5, <1>6, <1>7, DequeSame DEF Shrinks
<1>. QED BY <1>10, <1>11

\* The tasks find their places in an array of twice the room.
LEMMA GrowKeeps ==
  ASSUME IInv, Grow
  PROVE  IInv' /\ Deque' = Deque
<1>. DEFINE place(k, c) == {i \in t_[Owner] .. b_[Owner] - 1 : i % (2 * c) = k}
            made(old) == [C |-> 2 * old.C,
                          S |-> [k \in 0 .. 2 * old.C - 1 |->
                                   IF place(k, old.C) = {} THEN Null
                                   ELSE Slot(old, CHOOSE i \in place(k, old.C) : TRUE)]]
<1>1. /\ Types /\ Window /\ Pushing /\ pc[Owner] = "grow" /\ Owner \in Threads
      /\ pc' = [pc EXCEPT ![Owner] = "store"]
      /\ UNCHANGED <<_top, _bottom, level, t_, b_, a_, item, pushed, taken, refused, before>>
  BY DEF IInv, Grow, Threads, Goto, history
<1>2. PICK p \in Levels : p = level[Owner]
  BY <1>1 DEF Types
<1>3. \A q \in Levels : Sound(q)
  BY <1>1, AllSound
<1>4. PICK old \in Array : old = _array(p)
  BY <1>3 DEF Sound
<1>5. old.C \in Nat \ {0} /\ 2 * old.C \in Nat \ {0}
  BY <1>4, ArrayIs
<1>6. arrays' = [arrays EXCEPT ![p] = Append(@, made(old))]
  <2>1. arrays' = [arrays EXCEPT ![level[Owner]] = Append(@, made(_array(level[Owner])))]
    BY DEF Grow
  <2>. QED BY <1>2, <1>4, <2>1
<1>7. made(old) \in Array
  <2>1. \A i \in Int : Slot(old, i) \in Items \cup {Null}
    BY ArrayIs
  <2>2. \A k \in 0 .. 2 * old.C - 1 :
          place(k, old.C) # {} => (CHOOSE i \in place(k, old.C) : TRUE) \in Int
    BY <1>1 DEF Types
  <2>3. [k \in 0 .. 2 * old.C - 1 |->
           IF place(k, old.C) = {} THEN Null ELSE Slot(old, CHOOSE i \in place(k, old.C) : TRUE)]
          \in [0 .. 2 * old.C - 1 -> Items \cup {Null}]
    BY <2>1, <2>2
  <2>. QED BY <1>5, <2>3, ArrayMade
<1>8. /\ t_[Owner] \in Nat /\ b_[Owner] \in Int /\ b_[Owner] = _bottom[p]
      /\ t_[Owner] <= _top[p] /\ b_[Owner] - t_[Owner] <= old.C
  BY <1>1, <1>2, <1>4 DEF Pushing, Types
<1>9. ASSUME NEW i \in t_[Owner] .. b_[Owner] - 1 PROVE Slot(made(old), i) = Slot(old, i)
  <2>1. i % (2 * old.C) \in 0 .. 2 * old.C - 1 /\ i \in place(i % (2 * old.C), old.C)
    <3>1. i \in Int
      BY <1>8
    <3>2. ASSUME NEW c \in Nat \ {0} PROVE i % c \in 0 .. c - 1
      BY <3>1, Division
    <3>3. i % (2 * old.C) \in 0 .. (2 * old.C) - 1
      BY <1>5, <3>2, Zenon
    <3>. QED BY <3>1, <3>3
  <2>2. \A j \in place(i % (2 * old.C), old.C) : j = i
    <3>1. ASSUME NEW j \in t_[Owner] .. b_[Owner] - 1, j % (2 * old.C) = i % (2 * old.C)
          PROVE  j = i
      <4>1. i \in Int /\ j \in Int /\ i - j < 2 * old.C /\ j - i < 2 * old.C
        BY <1>5, <1>8
      <4>2. i <= j \/ j <= i
        BY <4>1
      <4>. QED BY <1>5, <3>1, <4>1, <4>2, PlacesDiffer
    <3>. QED BY <3>1
  <2>3. (CHOOSE j \in place(i % (2 * old.C), old.C) : TRUE) = i
    BY <2>1, <2>2
  <2>. QED BY <2>1, <2>3 DEF Slot
<1>. HIDE DEF made
<1>10. /\ arrays'[p] = Append(arrays[p], made(old)) /\ \A q \in Levels : q # p => arrays'[q] = arrays[q]
       /\ arrays' \in [Levels -> Seq(Array) \ {<<>>}]
  <2>1. Append(arrays[p], made(old)) \in Seq(Array) \ {<<>>}
    BY <1>3, <1>7, AppendProperties DEF Sound
  <2>. QED BY <1>1, <1>6, <2>1 DEF Types
<1>11. Types'
  <2>1. pc'[Owner] = "store" /\ pc' \in [Threads -> OwnerPlaces \cup ThiefPlaces]
        /\ \A w \in Thieves : pc'[w] = pc[w]
    BY <1>1, ThreadsAssumption DEF Types, Threads, OwnerPlaces
  <2>. QED BY <1>1, <1>10, <2>1 DEF Types, OwnerPlaces
<1>12. /\ _array(p)' = made(old) /\ \A q \in Levels : q # p => _array(q)' = _array(q)
       /\ DOMAIN arrays[p] \subseteq DOMAIN arrays'[p]
       /\ \A g \in DOMAIN arrays[p] : arrays'[p][g] = arrays[p][g]
  <2>1. /\ Len(arrays'[p]) = Len(arrays[p]) + 1 /\ arrays'[p][Len(arrays[p]) + 1] = made(old)
        /\ \A g \in DOMAIN arrays[p] : g \in DOMAIN arrays'[p] /\ arrays'[p][g] = arrays[p][g]
    BY <1>3, <1>7, <1>10, AppendProperties DEF Sound
  <2>2. \A q \in Levels : _array(q)' = Last(arrays'[q])
    BY DEF _array
  <2>. QED BY <1>10, <2>1, <2>2 DEF _array, Last
<1>13. \A q \in Levels : End(q) = _bottom[q] /\ End(q)' = _bottom[q]
  BY <1>1, <1>11 DEF End, Types
<1>14. \A q \in Levels : Shrinks(q) /\ Spares(q)
  <2>1. ASSUME NEW q \in Levels, q # p PROVE Shrinks(q) /\ Spares(q)
    <3>1. /\ _top'[q] = _top[q] /\ End(q)' = End(q) /\ _array(q)' = _array(q)
          /\ arrays'[q] = arrays[q] /\ _top[q] <= End(q)
      BY <1>1, <1>10, <1>12, <1>13, <2>1 DEF Window
    <3>2. _top[q] \in Nat /\ End(q) \in Int /\ _array(q).C \in Nat
      BY <1>3 DEF Sound
    <3>. QED BY <3>1, <3>2 DEF Shrinks, Spares
  <2>2. \A i \in _top[p] .. End(p) - 1 : Slot(_array(p)', i) = Slot(_array(p), i)
    <3>1. \A i \in _top[p] .. End(p) - 1 : i \in t_[Owner] .. b_[Owner] - 1
      BY <1>3, <1>8, <1>13 DEF Sound
    <3>. QED BY <1>4, <1>9, <1>12, <3>1
  <2>3. made(old).C = 2 * old.C /\ old.C <= 2 * old.C
    BY <1>5 DEF made
  <2>4. Shrinks(p)
    BY <1>1, <1>3, <1>4, <1>12, <1>13, <2>2, <2>3 DEF Shrinks, Sound, Window
  <2>5. Spares(p)
    BY <1>1, <1>3, <1>12, <1>13, <2>2 DEF Spares, Sound
  <2>. QED BY <2>1, <2>4, <2>5
<1>15. Pushing'
  <2>1. \A q \in Levels : \A i \in _top'[q] .. End(q)' - 1 : Slot(_array(q)', i) # item[Owner]
    BY <1>1, <1>13, <1>14 DEF Pushing, Shrinks
  <2>2. b_[Owner] - _top[p] < made(old).C
    BY <1>3, <1>5, <1>8 DEF Sound, made
  <2>3. pc'[Owner] = "store"
    BY <1>1 DEF Types
  <2>. QED BY <1>1, <1>2, <1>8, <1>12, <2>1, <2>2, <2>3 DEF Pushing, Slot
<1>16. Popping'
  <2>1. pc'[Owner] = "store" /\ refused' = FALSE
    BY <1>1 DEF IInv, Popping, Types
  <2>. QED BY <2>1 DEF Popping
<1>17. IInv'
  <2>1. \A w \in Thieves : pc'[w] = pc[w]
    BY <1>1, ThreadsAssumption DEF Types, Threads
  <2>. QED BY <1>1, <1>11, <1>14, <1>15, <1>16, <2>1, OwnerKeeps DEF Window
<1>18. Deque' = Deque
  BY <1>1, <1>11, <1>13, <1>14, DequeSame DEF Shrinks
<1>. QED BY <1>17, <1>18

\* The place behind the window is none of the queue's.
LEMMA StoreKeeps ==
  ASSUME IInv, Store
  PROVE  IInv' /\ Deque' = Deque
<1>1. /\ Types /\ Window /\ Pushing /\ pc[Owner] = "store" /\ Owner \in Threads
      /\ pc' = [pc EXCEPT ![Owner] = "publish"]
      /\ UNCHANGED <<_top, _bottom, level, t_, b_, a_, item, pushed, taken, refused, before>>
  BY DEF IInv, Store, Threads, Goto, history
<1>2. PICK p \in Levels : p = level[Owner]
  BY <1>1 DEF Types
<1>3. \A q \in Levels : Sound(q)
  BY <1>1, AllSound
<1>4. PICK old \in Array : old = _array(p) /\ old = arrays[p][Len(arrays[p])]
  BY <1>3 DEF Sound
<1>5. old.C \in Nat \ {0} /\ old.S \in [0 .. old.C - 1 -> Items \cup {Null}]
  BY <1>4, ArrayIs
<1>. DEFINE n == Len(arrays[p])  k == b_[Owner] % old.C
            new == [old EXCEPT !.S[b_[Owner] % old.C] = item[Owner]]
<1>6. /\ b_[Owner] \in Int /\ b_[Owner] = _bottom[p] /\ item[Owner] \in Items
      /\ b_[Owner] - _top[p] < old.C
  BY <1>1, <1>2, <1>4 DEF Pushing, Types
<1>7. k \in 0 .. old.C - 1
  BY <1>5, <1>6, Division
<1>8. /\ new = [C |-> old.C, S |-> [old.S EXCEPT ![k] = item[Owner]]]
      /\ new.C = old.C /\ new.S = [old.S EXCEPT ![k] = item[Owner]]
  <2>1. PICK c \in Nat \ {0} : old \in [C : {c}, S : [0 .. c - 1 -> Items \cup {Null}]]
    BY <1>4 DEF Array
  <2>. QED BY <2>1
<1>9. new \in Array
  BY <1>5, <1>6, <1>7, <1>8, ArrayMade
<1>10. /\ arrays' = [arrays EXCEPT ![p] = [arrays[p] EXCEPT ![n] = new]]
  <2>1. arrays' = [arrays EXCEPT ![level[Owner]][Len(arrays[level[Owner]])].S[b_[Owner] % _array(level[Owner]).C] = item[Owner]]
    BY DEF Store
  <2>. QED BY <1>2, <1>4, <2>1
<1>. HIDE DEF new
<1>11. /\ [arrays[p] EXCEPT ![n] = new] \in Seq(Array) \ {<<>>}
       /\ Len([arrays[p] EXCEPT ![n] = new]) = n
  <2>1. n \in 1 .. Len(arrays[p]) /\ arrays[p] \in Seq(Array) /\ n # 0
    BY <1>3 DEF Sound
  <2>. QED BY <1>9, <2>1, ExceptSeq, EmptySeq
<1>12. /\ arrays' \in [Levels -> Seq(Array) \ {<<>>}]
       /\ \A q \in Levels : q # p => arrays'[q] = arrays[q]
       /\ DOMAIN arrays'[p] = DOMAIN arrays[p] /\ Len(arrays'[p]) = n
       /\ \A g \in DOMAIN arrays[p] : arrays'[p][g] = IF g = n THEN new ELSE arrays[p][g]
  BY <1>1, <1>3, <1>10, <1>11 DEF Types, Sound
<1>13. Types'
  <2>1. pc'[Owner] = "publish" /\ pc' \in [Threads -> OwnerPlaces \cup ThiefPlaces]
        /\ \A w \in Thieves : pc'[w] = pc[w]
    BY <1>1, ThreadsAssumption DEF Types, Threads, OwnerPlaces
  <2>. QED BY <1>1, <1>12, <2>1 DEF Types, OwnerPlaces
<1>14. _array(p)' = new /\ \A q \in Levels : q # p => _array(q)' = _array(q)
  <2>1. \A q \in Levels : _array(q)' = Last(arrays'[q])
    BY DEF _array
  <2>2. n \in DOMAIN arrays[p]
    BY <1>3 DEF Sound
  <2>. QED BY <1>12, <2>1, <2>2 DEF _array, Last
<1>15. \A q \in Levels : End(q) = _bottom[q] /\ End(q)' = _bottom[q]
  BY <1>1, <1>13 DEF End, Types
<1>16. ASSUME NEW i \in _top[p] .. End(p) - 1 PROVE Slot(new, i) = Slot(old, i)
  <2>1. i \in Int /\ i < b_[Owner] /\ b_[Owner] - i < old.C
    <3>1. _top[p] \in Nat /\ End(p) = b_[Owner]
      BY <1>3, <1>6, <1>15 DEF Sound
    <3>. QED BY <1>5, <1>6, <3>1
  <2>2. i % old.C # k
    BY <1>5, <1>6, <2>1, PlacesDiffer
  <2>3. i % old.C \in 0 .. old.C - 1
    BY <1>5, <2>1, Division
  <2>. QED BY <1>5, <1>8, <2>2, <2>3 DEF Slot
<1>17. \A q \in Levels : Shrinks(q) /\ Spares(q)
  <2>1. ASSUME NEW q \in Levels, q # p PROVE Shrinks(q) /\ Spares(q)
    <3>1. /\ _top'[q] = _top[q] /\ End(q)' = End(q) /\ _array(q)' = _array(q)
          /\ arrays'[q] = arrays[q] /\ _top[q] <= End(q)
      BY <1>1, <1>12, <1>14, <1>15, <2>1 DEF Window
    <3>2. _top[q] \in Nat /\ End(q) \in Int /\ _array(q).C \in Nat
      BY <1>3 DEF Sound
    <3>. QED BY <3>1, <3>2 DEF Shrinks, Spares
  <2>2. /\ _top'[p] = _top[p] /\ End(p)' = End(p) /\ _array(p)' = new /\ _array(p) = old
        /\ _top[p] <= End(p) /\ _top[p] \in Nat /\ End(p) \in Int /\ old.C \in Nat
        /\ arrays[p][n] = old /\ arrays'[p][n] = new
    BY <1>1, <1>3, <1>4, <1>5, <1>12, <1>14, <1>15, SMTT(30) DEF Window, Sound
  <2>3. Shrinks(p)
    BY <1>8, <1>16, <2>2 DEF Shrinks
  <2>4. _top[p] < End(p) => \A g \in DOMAIN arrays[p] :
          Slot(arrays'[p][g], _top[p]) = Slot(arrays[p][g], _top[p])
    <3>1. _top[p] < End(p) => Slot(new, _top[p]) = Slot(old, _top[p])
      BY <1>16, <2>2
    <3>. QED BY <1>12, <2>2, <3>1
  <2>5. Spares(p)
    BY <1>12, <1>16, <2>2, <2>4 DEF Spares
  <2>. QED BY <2>1, <2>3, <2>5
<1>18. Pushing'
  <2>1. \A q \in Levels : \A i \in _top'[q] .. End(q)' - 1 : Slot(_array(q)', i) # item[Owner]
    BY <1>1, <1>15, <1>17 DEF Pushing, Shrinks
  <2>2. Slot(new, b_[Owner]) = item[Owner]
    BY <1>5, <1>7, <1>8 DEF Slot
  <2>3. pc'[Owner] = "publish"
    BY <1>1 DEF Types
  <2>4. item[Owner] \in pushed /\ p = PriorityOf[item[Owner]] /\ \A v \in Threads : item[Owner] \notin taken[v]
    BY <1>1, <1>2 DEF Pushing
  <2>. QED BY <1>1, <1>2, <1>6, <1>8, <1>14, <2>1, <2>2, <2>3, <2>4 DEF Pushing, Slot
<1>19. Popping'
  <2>1. pc'[Owner] = "publish" /\ refused' = FALSE
    BY <1>1 DEF IInv, Popping, Types
  <2>. QED BY <2>1 DEF Popping
<1>20. IInv'
  <2>1. \A w \in Thieves : pc'[w] = pc[w]
    BY <1>1, ThreadsAssumption DEF Types, Threads
  <2>. QED BY <1>1, <1>13, <1>17, <1>18, <1>19, <2>1, OwnerKeeps DEF Window
<1>21. Deque' = Deque
  BY <1>1, <1>13, <1>15, <1>17, DequeSame DEF Shrinks
<1>. QED BY <1>20, <1>21

\* The end of a push is its step of the deque.
LEMMA PublishAdds ==
  ASSUME IInv, Publish
  PROVE  /\ IInv' /\ item[Owner] \in Items /\ taken' = taken
         /\ \A q \in Levels : item[Owner] \notin ToSet(Content(q))
         /\ \A v \in Threads : item[Owner] \notin taken[v]
         /\ Deque' = [Deque EXCEPT ![PriorityOf[item[Owner]]] = Append(@, item[Owner])]
<1>1. /\ Types /\ Window /\ Pushing /\ pc[Owner] = "publish" /\ Owner \in Threads
      /\ Return(Owner) /\ UNCHANGED <<_top, arrays, pushed, taken, refused, before>>
  BY DEF IInv, Publish, Threads, history
<1>2. PICK p \in Levels : p = level[Owner]
  BY <1>1 DEF Types
<1>3. PICK x \in Items : x = item[Owner]
  BY <1>1 DEF Pushing, Types
<1>4. \A q \in Levels : Sound(q)
  BY <1>1, AllSound
<1>5. /\ b_[Owner] \in Int /\ b_[Owner] = _bottom[p] /\ x \in pushed /\ p = PriorityOf[x]
      /\ b_[Owner] - _top[p] < _array(p).C /\ Slot(_array(p), b_[Owner]) = x
      /\ \A q \in Levels : \A i \in _top[q] .. End(q) - 1 : Slot(_array(q), i) # x
      /\ \A v \in Threads : x \notin taken[v]
  BY <1>1, <1>2, <1>3 DEF Pushing, Types
<1>6. /\ _bottom' = [_bottom EXCEPT ![p] = b_[Owner] + 1]
      /\ _bottom' \in [Levels -> Int] /\ _bottom'[p] = b_[Owner] + 1
      /\ \A q \in Levels : q # p => _bottom'[q] = _bottom[q]
  BY <1>1, <1>2, <1>5 DEF Publish, Types
<1>7. Locals(Owner) /\ pc'[Owner] = "idle" /\ level'[Owner] = 0 /\ item'[Owner] = Null
  BY <1>1, ReturnLocals DEF Return, Types
<1>8. Types'
  <2>1. \A w \in Thieves : pc'[w] = pc[w]
    BY <1>7, ThreadsAssumption DEF Locals, Threads
  <2>. QED BY <1>1, <1>6, <1>7, <2>1 DEF Types, Locals, OwnerPlaces
<1>9. \A q \in Levels : /\ End(q) = _bottom[q] /\ End(q)' = _bottom'[q]
                        /\ _array(q)' = _array(q) /\ _top'[q] = _top[q]
  BY <1>1, <1>7 DEF End, _array
<1>10. \A q \in Levels : Spares(q) /\ (q # p => Shrinks(q))
  <2>1. \A q \in Levels : End(q) <= End(q)' /\ (q # p => End(q)' = End(q))
    BY <1>4, <1>5, <1>6, <1>9 DEF Sound
  <2>2. \A q \in Levels : /\ _top[q] \in Nat /\ End(q) \in Int /\ _array(q).C \in Nat
                          /\ _top[q] <= End(q) /\ End(q)' \in Int /\ arrays'[q] = arrays[q]
    BY <1>1, <1>4, <1>6, <1>9 DEF Window, Sound
  <2>. QED BY <1>9, <2>1, <2>2 DEF Spares, Shrinks
<1>11. Window'
  <2>. SUFFICES ASSUME NEW q \in Levels
                PROVE  /\ _top'[q] <= End(q)' /\ End(q)' - _top'[q] <= _array(q)'.C
                       /\ \A i \in _top'[q] .. End(q)' - 1 : Slot(_array(q)', i) \in pushed'
    BY <1>1 DEF Window, Slot
  <2>1. CASE q # p
    BY <1>1, <1>6, <1>9, <2>1 DEF Window
  <2>2. CASE q = p
    <3>1. /\ _top[p] \in Nat /\ _array(p).C \in Nat /\ _top[p] <= b_[Owner]
          /\ \A i \in _top[p] .. b_[Owner] - 1 : Slot(_array(p), i) \in pushed
      BY <1>1, <1>4, <1>5, <1>9 DEF Window, Sound
    <3>2. \A i \in _top[p] .. (b_[Owner] + 1) - 1 : i = b_[Owner] \/ i \in _top[p] .. b_[Owner] - 1
      BY <1>5, <3>1
    <3>. QED BY <1>1, <1>5, <1>6, <1>9, <2>2, <3>1, <3>2
  <2>. QED BY <2>1, <2>2
<1>12. Pushing'
  BY <1>7 DEF Pushing
<1>13. Popping'
  <2>1. refused' = FALSE
    BY <1>1 DEF IInv, Popping
  <2>. QED BY <1>7, <2>1 DEF Popping
<1>14. ASSUME NEW w \in Thieves PROVE Stealing(w)'
  <2>1. /\ Stealing(w) /\ pc'[w] = pc[w] /\ level'[w] = level[w] /\ t_'[w] = t_[w]
        /\ a_'[w] = a_[w] /\ item'[w] = item[w]
    BY <1>1, ThreadsAssumption DEF IInv, Return, Goto, Types, Threads
  <2>. QED BY <1>1, <1>8, <1>10, <2>1, StealingKept
<1>15. IInv'
  BY <1>8, <1>11, <1>12, <1>13, <1>14 DEF IInv
<1>16. ASSUME NEW q \in Levels PROVE x \notin ToSet(Content(q))
  <2>1. \A i \in 1 .. End(q) - _top[q] : Content(q)[i] # x
    <3>1. \A i \in 1 .. End(q) - _top[q] : _top[q] + i - 1 \in _top[q] .. End(q) - 1
      BY <1>4 DEF Sound
    <3>. QED BY <1>1, <1>5, <3>1, ContentIs
  <2>. QED BY <2>1 DEF ToSet, Content
<1>17. \A q \in Levels : Content(q)' = [i \in 1 .. _bottom'[q] - _top[q] |-> Slot(_array(q), _top[q] + i - 1)]
  <2>1. \A q \in Levels : Content(q)' = [i \in 1 .. End(q)' - _top'[q] |-> Slot(_array(q)', _top'[q] + i - 1)]
    BY DEF Content, Slot
  <2>. QED BY <1>9, <2>1
<1>18. \A q \in Levels : q # p => Content(q)' = Content(q)
  BY <1>6, <1>9, <1>17 DEF Content
<1>19. Content(p)' = Append(Content(p), x)
  <2>. DEFINE s == Content(p)
  <2>1. s \in Seq(Items) /\ Len(s) = b_[Owner] - _top[p]
        /\ \A i \in 1 .. Len(s) : s[i] = Slot(_array(p), _top[p] + i - 1)
    BY <1>1, <1>5, <1>9, ContentIs
  <2>2. Append(s, x) = [i \in 1 .. Len(s) + 1 |-> IF i <= Len(s) THEN s[i] ELSE x]
    BY <2>1, AppendIs
  <2>3. _top[p] \in Nat /\ Len(s) \in Nat /\ _bottom'[p] - _top[p] = Len(s) + 1
    BY <1>4, <1>5, <1>6, <2>1, LenProperties DEF Sound
  <2>4. ASSUME NEW i \in 1 .. Len(s) + 1
        PROVE  Slot(_array(p), _top[p] + i - 1) = IF i <= Len(s) THEN s[i] ELSE x
    <3>1. CASE i <= Len(s) BY <2>1, <2>3, <3>1
    <3>2. CASE ~(i <= Len(s))
      <4>1. _top[p] + i - 1 = b_[Owner]
        BY <1>5, <2>1, <2>3, <3>2
      <4>. QED BY <1>5, <3>2, <4>1
    <3>. QED BY <3>1, <3>2
  <2>5. Content(p)' = [i \in 1 .. Len(s) + 1 |-> Slot(_array(p), _top[p] + i - 1)]
    BY <1>17, <2>3
  <2>. HIDE DEF s
  <2>6. Content(p)' = Append(s, x)
    BY <2>2, <2>4, <2>5
  <2>. QED BY <2>6 DEF s
<1>20. Deque' = [Deque EXCEPT ![p] = Append(@, x)]
  <2>1. \A q \in Levels : Content(q)' = IF q = p THEN Append(Content(p), x) ELSE Content(q)
    BY <1>18, <1>19
  <2>. QED BY <2>1 DEF Deque
<1>. QED BY <1>1, <1>3, <1>5, <1>15, <1>16, <1>20

\* The first step of a pop lowers _bottom, which the callers cannot tell.
LEMMA PopBottomKeeps ==
  ASSUME IInv, PopBottom
  PROVE  IInv' /\ Deque' = Deque
<1>1. /\ Types /\ Window /\ Popping /\ pc[Owner] \in {"idle", "pop"} /\ Owner \in Threads
      /\ pc' = [pc EXCEPT ![Owner] = "popTop"] /\ refused' = FALSE
      /\ UNCHANGED <<_top, arrays, level, t_, a_, item, pushed, taken>>
  BY DEF IInv, PopBottom, Threads, Goto
<1>2. PICK p \in Levels : p = level[Owner]
  BY <1>1 DEF Types
<1>3. \A q \in Levels : Sound(q)
  BY <1>1, AllSound
<1>4. /\ _bottom' = [_bottom EXCEPT ![p] = _bottom[p] - 1] /\ b_' = [b_ EXCEPT ![Owner] = _bottom[p] - 1]
      /\ _bottom[p] \in Int
  BY <1>2, <1>3 DEF PopBottom, Sound
<1>5. /\ _bottom' \in [Levels -> Int] /\ b_' \in [Threads -> Int] /\ pc'[Owner] = "popTop"
      /\ pc' \in [Threads -> OwnerPlaces \cup ThiefPlaces] /\ \A w \in Thieves : pc'[w] = pc[w]
      /\ _bottom'[p] = _bottom[p] - 1 /\ b_'[Owner] = _bottom[p] - 1
      /\ \A q \in Levels : q # p => _bottom'[q] = _bottom[q]
  BY <1>1, <1>4, ThreadsAssumption DEF Types, Threads, OwnerPlaces
<1>6. Types'
  BY <1>1, <1>5 DEF Types, OwnerPlaces
<1>7. \A q \in Levels : End(q)' = End(q)
  <2>1. \A q \in Levels : End(q) = _bottom[q]
    BY <1>1 DEF End
  <2>2. \A q \in Levels : End(q)' = IF q = p THEN _bottom'[q] + 1 ELSE _bottom'[q]
    BY <1>1, <1>2, <1>5 DEF End
  <2>. QED BY <1>4, <1>5, <2>1, <2>2
<1>8. \A q \in Levels : Shrinks(q) /\ Spares(q) /\ _array(q)' = _array(q)
  <2>1. \A q \in Levels : _top[q] <= End(q) /\ _top[q] \in Nat /\ End(q) \in Int
    BY <1>1, <1>3 DEF Window, Sound
  <2>2. \A q \in Levels : /\ _top[q] <= _top'[q] /\ _top'[q] <= End(q)' /\ End(q)' <= End(q)
                          /\ _top'[q] = _top[q] /\ _top[q] < End(q) => _top[q] < End(q)'
    BY <1>1, <1>7, <2>1
  <2>. QED BY <1>1, <1>6, <2>2, SameArrays
<1>9. Pushing'
  BY <1>5 DEF Pushing
<1>10. Popping'
  <2>1. \A q \in Levels : q < p => End(q) = _top[q]
    <3>1. CASE pc[Owner] = "pop" BY <1>1, <1>2, <3>1 DEF Popping
    <3>2. CASE pc[Owner] = "idle" BY <1>1, <1>2, <3>2 DEF Popping, Levels
    <3>. QED BY <1>1, <3>1, <3>2
  <2>2. item[Owner] = Null
    BY <1>1 DEF Popping
  <2>. QED BY <1>1, <1>2, <1>5, <1>7, <2>1, <2>2 DEF Popping
<1>11. IInv'
  BY <1>1, <1>5, <1>6, <1>8, <1>9, <1>10, OwnerKeeps DEF Window
<1>12. Deque' = Deque
  BY <1>1, <1>6, <1>7, <1>8, DequeSame
<1>. QED BY <1>11, <1>12

\* A pop that only goes on: to the exchange or to what restores _bottom.
LEMMA PopTopKeeps ==
  ASSUME IInv, PopTop, _top[level[Owner]] >= b_[Owner]
  PROVE  IInv' /\ Deque' = Deque /\ taken' = taken
<1>1. /\ Types /\ Window /\ Popping /\ pc[Owner] = "popTop" /\ Owner \in Threads
      /\ UNCHANGED <<_top, _bottom, arrays, pushed, refused>>
  BY DEF IInv, PopTop, Threads, shared
<1>2. PICK p \in Levels : p = level[Owner]
  BY <1>1 DEF Types
<1>3. \A q \in Levels : Sound(q)
  BY <1>1, AllSound
<1>4. /\ b_[Owner] \in Int /\ b_[Owner] = _bottom[p] /\ item[Owner] = Null /\ refused = FALSE
      /\ \A q \in Levels : q < p => End(q) = _top[q]
  BY <1>1, <1>2 DEF Types, Popping
<1>5. /\ End(p) = b_[Owner] + 1 /\ _top[p] \in Nat /\ _top[p] >= b_[Owner] /\ _top[p] <= b_[Owner] + 1
  BY <1>1, <1>2, <1>3, <1>4 DEF End, Sound, Window
<1>6. \/ /\ _top[p] = b_[Owner]
         /\ item' = [item EXCEPT ![Owner] = Slot(_array(p), b_[Owner])]
         /\ t_' = [t_ EXCEPT ![Owner] = _top[p]]
         /\ pc' = [pc EXCEPT ![Owner] = "popExchange"] /\ UNCHANGED <<level, b_, a_, taken>>
      \/ /\ _top[p] > b_[Owner]
         /\ pc' = [pc EXCEPT ![Owner] = "restore"] /\ UNCHANGED <<level, t_, b_, a_, item, taken>>
  BY <1>2, <1>4, <1>5 DEF PopTop, Goto
<1>7. Slot(_array(p), b_[Owner]) \in Items \cup {Null}
  BY <1>3, <1>4 DEF Sound
<1>8. /\ Locals(Owner) /\ pc'[Owner] \in {"popExchange", "restore"} /\ UNCHANGED <<level, b_, a_, taken>>
      /\ \A w \in Thieves : pc'[w] = pc[w] /\ t_'[w] = t_[w] /\ item'[w] = item[w]
  <2>1. CASE pc' = [pc EXCEPT ![Owner] = "popExchange"]
    BY <1>1, <1>5, <1>6, <1>7, <2>1, ThreadsAssumption DEF Types, Locals, Threads, OwnerPlaces
  <2>2. CASE pc' = [pc EXCEPT ![Owner] = "restore"]
    BY <1>1, <1>5, <1>6, <1>7, <2>2, ThreadsAssumption DEF Types, Locals, Threads, OwnerPlaces
  <2>. QED BY <1>6, <2>1, <2>2
<1>9. Types'
  BY <1>1, <1>8 DEF Types, Locals, OwnerPlaces
<1>10. \A q \in Levels : End(q)' = End(q)
  BY <1>1, <1>8 DEF End
<1>11. \A q \in Levels : Shrinks(q) /\ Spares(q) /\ _array(q)' = _array(q)
  <2>1. \A q \in Levels : _top[q] <= End(q) /\ _top[q] \in Nat /\ End(q) \in Int
    BY <1>1, <1>3 DEF Window, Sound
  <2>2. \A q \in Levels : /\ _top[q] <= _top'[q] /\ _top'[q] <= End(q)' /\ End(q)' <= End(q)
                          /\ _top'[q] = _top[q] /\ _top[q] < End(q) => _top[q] < End(q)'
    BY <1>1, <1>10, <2>1
  <2>. QED BY <1>1, <1>9, <2>2, SameArrays
<1>12. Pushing'
  BY <1>8 DEF Pushing
<1>13. Popping'
  <2>1. pc'[Owner] = "popExchange" =>
          t_'[Owner] = b_[Owner] /\ item'[Owner] = Slot(_array(p)', b_[Owner])
    BY <1>1, <1>2, <1>6, <1>11 DEF Types
  <2>2. pc'[Owner] = "restore" => End(p)' = _top'[p]
    <3>1. pc'[Owner] = "restore" => _top[p] > b_[Owner]
      BY <1>1, <1>6 DEF Types
    <3>. QED BY <1>1, <1>4, <1>5, <1>10, <3>1
  <2>. QED BY <1>1, <1>2, <1>4, <1>8, <1>10, <2>1, <2>2 DEF Popping, Slot
<1>14. IInv'
  BY <1>1, <1>8, <1>9, <1>11, <1>12, <1>13, OwnerKeeps DEF Window
<1>15. Deque' = Deque
  BY <1>1, <1>9, <1>10, <1>11, DequeSame
<1>. QED BY <1>8, <1>14, <1>15

\* What a pop leaves behind is empty.
LEMMA NothingBetter ==
  ASSUME Types, Window, NEW p \in Levels, \A q \in Levels : q < p => End(q) = _top[q]
  PROVE  \A q \in Levels : q < p => Content(q) = <<>>
<1>. SUFFICES ASSUME NEW q \in Levels, q < p PROVE Content(q) = <<>>
  OBVIOUS
<1>1. _top[q] \in Nat /\ End(q) = _top[q]
  BY AllSound DEF Sound
<1>2. Content(q) \in Seq(Items) /\ Len(Content(q)) = 0
  BY <1>1, ContentIs
<1>. QED BY <1>2, EmptySeq

\* One task fewer at the bottom.
LEMMA ContentFront ==
  ASSUME Types, Window, NEW p \in Levels, _top[p] < End(p),
         _top'[p] = _top[p], End(p)' = End(p) - 1, _array(p)' = _array(p)
  PROVE  /\ Content(p) # <<>> /\ Last(Content(p)) = Slot(_array(p), End(p) - 1)
         /\ Content(p)' = Front(Content(p))
<1>. DEFINE s == Content(p)
<1>1. _top[p] \in Nat /\ End(p) \in Int /\ End(p) - _top[p] \in Nat \ {0}
  BY AllSound DEF Sound
<1>2. /\ s \in Seq(Items) /\ Len(s) = End(p) - _top[p]
      /\ \A i \in 1 .. Len(s) : s[i] = Slot(_array(p), _top[p] + i - 1)
  BY ContentIs
<1>. HIDE DEF s
<1>3. s # <<>> /\ Len(s) \in Nat \ {0} /\ _top[p] + Len(s) - 1 = End(p) - 1
  BY <1>1, <1>2, EmptySeq
<1>4. Last(s) = Slot(_array(p), End(p) - 1)
  BY <1>2, <1>3 DEF Last
<1>5. Front(s) = [i \in 1 .. Len(s) - 1 |-> s[i]]
  BY <1>2, <1>3, FrontIs
<1>6. Content(p)' = [i \in 1 .. Len(s) - 1 |-> Slot(_array(p), _top[p] + i - 1)]
  <2>1. Content(p)' = [i \in 1 .. End(p)' - _top'[p] |-> Slot(_array(p)', _top'[p] + i - 1)]
    BY DEF Content, Slot
  <2>. QED BY <1>1, <1>2, <2>1
<1>7. Content(p)' = Front(s)
  <2>1. \A i \in 1 .. Len(s) - 1 : s[i] = Slot(_array(p), _top[p] + i - 1)
    BY <1>2, <1>3
  <2>. QED BY <1>5, <1>6, <2>1
<1>. QED BY <1>3, <1>4, <1>7 DEF s

\* A pop that finds more than one task takes the newest.
LEMMA PopTopTakes ==
  ASSUME IInv, PopTop, NEW p \in Levels, p = level[Owner], _top[p] < b_[Owner]
  PROVE  /\ IInv' /\ Content(p) # <<>> /\ \A q \in Levels : q < p => Content(q) = <<>>
         /\ Takes(Owner, Last(Content(p)))
         /\ Deque' = [Deque EXCEPT ![p] = Front(@)]
<1>1. /\ Types /\ Window /\ Popping /\ pc[Owner] = "popTop" /\ Owner \in Threads
      /\ UNCHANGED <<_top, _bottom, arrays, pushed, refused>>
  BY DEF IInv, PopTop, Threads, shared
<1>2. \A q \in Levels : Sound(q)
  BY <1>1, AllSound
<1>3. /\ b_[Owner] \in Int /\ b_[Owner] = _bottom[p] /\ refused = FALSE
      /\ \A q \in Levels : q < p => End(q) = _top[q]
  BY <1>1 DEF Types, Popping
<1>4. Takes(Owner, Slot(_array(p), b_[Owner])) /\ Return(Owner)
  <2>1. _top[p] \in Nat
    BY <1>2 DEF Sound
  <2>. QED BY <1>3, <2>1 DEF PopTop
<1>5. /\ End(p) = b_[Owner] + 1 /\ \A q \in Levels : q # p => End(q) = _bottom[q]
  BY <1>1, <1>3 DEF End
<1>6. Locals(Owner) /\ pc'[Owner] = "idle" /\ level'[Owner] = 0 /\ item'[Owner] = Null
  BY <1>1, <1>4, ReturnLocals DEF Return, Types
<1>7. \A q \in Levels : End(q)' = _bottom[q]
  BY <1>1, <1>6 DEF End
<1>8. Slot(_array(p), b_[Owner]) \in pushed
  <2>1. b_[Owner] \in _top[p] .. End(p) - 1
    BY <1>2, <1>3, <1>5 DEF Sound
  <2>. QED BY <1>1, <2>1 DEF Window
<1>9. Types'
  <2>1. \A w \in Thieves : pc'[w] = pc[w]
    BY <1>6, ThreadsAssumption DEF Locals, Threads
  <2>2. taken' \in [Threads -> SUBSET Items]
    BY <1>1, <1>4, <1>8 DEF Types, Takes
  <2>. QED BY <1>1, <1>6, <2>1, <2>2 DEF Types, Locals, OwnerPlaces
<1>10. \A q \in Levels : Shrinks(q) /\ Spares(q) /\ _array(q)' = _array(q)
  <2>1. \A q \in Levels : _top[q] <= End(q) /\ _top[q] \in Nat /\ End(q) \in Int
    BY <1>1, <1>2 DEF Window, Sound
  <2>2. \A q \in Levels : /\ _top[q] <= _top'[q] /\ _top'[q] <= End(q)' /\ End(q)' <= End(q)
                          /\ _top'[q] = _top[q] /\ _top[q] < End(q) => _top[q] < End(q)'
    BY <1>1, <1>3, <1>5, <1>7, <2>1
  <2>. QED BY <1>1, <1>9, <2>2, SameArrays
<1>11. Pushing' /\ Popping'
  BY <1>1, <1>3, <1>6 DEF Pushing, Popping
<1>12. IInv'
  <2>1. \A w \in Thieves : /\ pc'[w] = pc[w] /\ level'[w] = level[w] /\ t_'[w] = t_[w]
                           /\ a_'[w] = a_[w] /\ item'[w] = item[w]
    BY <1>1, <1>4, ThreadsAssumption DEF Return, Goto, Types, Threads
  <2>2. \A v \in Threads : taken'[v] \subseteq pushed'
    BY <1>1, <1>4, <1>8 DEF Window, Takes, Types
  <2>. QED BY <1>1, <1>9, <1>10, <1>11, <2>1, <2>2, OwnerKeeps
<1>13. /\ Content(p) # <<>> /\ Last(Content(p)) = Slot(_array(p), b_[Owner])
       /\ Content(p)' = Front(Content(p))
  <2>1. _top[p] < End(p) /\ End(p)' = End(p) - 1 /\ End(p) - 1 = b_[Owner] /\ _top'[p] = _top[p]
    BY <1>1, <1>2, <1>3, <1>5, <1>7, SMTT(30) DEF Sound
  <2>. QED BY <1>1, <1>10, <2>1, ContentFront
<1>14. \A q \in Levels : q # p => Content(q)' = Content(q)
  <2>1. \A q \in Levels : Content(q)' = [i \in 1 .. End(q)' - _top'[q] |-> Slot(_array(q)', _top'[q] + i - 1)]
    BY DEF Content, Slot
  <2>. QED BY <1>1, <1>5, <1>7, <1>10, <2>1 DEF Content
<1>15. Deque' = [Deque EXCEPT ![p] = Front(@)]
  <2>1. \A q \in Levels : Content(q)' = IF q = p THEN Front(Content(p)) ELSE Content(q)
    BY <1>13, <1>14
  <2>. QED BY <2>1 DEF Deque
<1>16. \A q \in Levels : q < p => Content(q) = <<>>
  BY <1>1, <1>3, NothingBetter
<1>. QED BY <1>4, <1>12, <1>13, <1>15, <1>16

\* The exchange of a pop, lost to a thief.
LEMMA PopExchangeKeeps ==
  ASSUME IInv, PopExchange, _top[level[Owner]] # t_[Owner]
  PROVE  IInv' /\ Deque' = Deque /\ taken' = taken
<1>1. /\ Types /\ Window /\ Popping /\ pc[Owner] = "popExchange" /\ Owner \in Threads
      /\ pc' = [pc EXCEPT ![Owner] = "restore"] /\ item' = [item EXCEPT ![Owner] = Null]
      /\ UNCHANGED <<_top, _bottom, arrays, level, t_, b_, a_, pushed, taken, refused>>
  BY DEF IInv, PopExchange, Threads, Goto
<1>2. PICK p \in Levels : p = level[Owner]
  BY <1>1 DEF Types
<1>3. \A q \in Levels : Sound(q)
  BY <1>1, AllSound
<1>4. /\ b_[Owner] \in Int /\ b_[Owner] = _bottom[p] /\ t_[Owner] = b_[Owner] /\ refused = FALSE
      /\ \A q \in Levels : q < p => End(q) = _top[q]
  BY <1>1, <1>2 DEF Types, Popping
<1>5. Locals(Owner) /\ pc'[Owner] = "restore" /\ \A w \in Thieves : pc'[w] = pc[w] /\ item'[w] = item[w]
  BY <1>1, ThreadsAssumption DEF Types, Locals, Threads, OwnerPlaces
<1>6. Types'
  BY <1>1, <1>5 DEF Types, Locals, OwnerPlaces
<1>7. \A q \in Levels : End(q)' = End(q)
  BY <1>1, <1>5 DEF End
<1>8. End(p) = _top[p]
  <2>1. End(p) = b_[Owner] + 1 /\ _top[p] # b_[Owner] /\ _top[p] \in Nat /\ _top[p] <= End(p)
    BY <1>1, <1>2, <1>3, <1>4 DEF End, Window, Sound
  <2>2. t_[Owner] <= _top[p]
    BY <1>1, <1>2, <1>4 DEF Popping
  <2>. QED BY <1>4, <2>1, <2>2
<1>9. \A q \in Levels : Shrinks(q) /\ Spares(q) /\ _array(q)' = _array(q)
  <2>1. \A q \in Levels : _top[q] <= End(q) /\ _top[q] \in Nat /\ End(q) \in Int
    BY <1>1, <1>3 DEF Window, Sound
  <2>2. \A q \in Levels : /\ _top[q] <= _top'[q] /\ _top'[q] <= End(q)' /\ End(q)' <= End(q)
                          /\ _top'[q] = _top[q] /\ _top[q] < End(q) => _top[q] < End(q)'
    BY <1>1, <1>7, <2>1
  <2>. QED BY <1>1, <1>6, <2>2, SameArrays
<1>10. Pushing' /\ Popping'
  BY <1>1, <1>2, <1>4, <1>5, <1>7, <1>8 DEF Pushing, Popping
<1>11. IInv'
  <2>1. \A v \in Threads : taken'[v] \subseteq pushed'
    BY <1>1 DEF Window
  <2>. QED BY <1>1, <1>5, <1>6, <1>9, <1>10, <2>1, OwnerKeeps
<1>12. Deque' = Deque
  BY <1>1, <1>6, <1>7, <1>9, DequeSame
<1>. QED BY <1>1, <1>11, <1>12

\* The exchange of a pop takes the only task there is.
LEMMA PopExchangeTakes ==
  ASSUME IInv, PopExchange, NEW p \in Levels, p = level[Owner], _top[p] = t_[Owner]
  PROVE  /\ IInv' /\ Content(p) # <<>> /\ \A q \in Levels : q < p => Content(q) = <<>>
         /\ Takes(Owner, Last(Content(p)))
         /\ Deque' = [Deque EXCEPT ![p] = Front(@)]
<1>1. /\ Types /\ Window /\ Popping /\ pc[Owner] = "popExchange" /\ Owner \in Threads
      /\ pc' = [pc EXCEPT ![Owner] = "restore"] /\ item' = item
      /\ _top' = [_top EXCEPT ![p] = @ + 1] /\ Takes(Owner, item[Owner])
      /\ UNCHANGED <<_bottom, arrays, level, t_, b_, a_, pushed, refused>>
  BY DEF IInv, PopExchange, Threads, Goto
<1>2. \A q \in Levels : Sound(q)
  BY <1>1, AllSound
<1>3. /\ b_[Owner] \in Int /\ b_[Owner] = _bottom[p] /\ t_[Owner] = b_[Owner] /\ refused = FALSE
      /\ item[Owner] = Slot(_array(p), b_[Owner])
      /\ \A q \in Levels : q < p => End(q) = _top[q]
  BY <1>1 DEF Types, Popping
<1>4. End(p) = b_[Owner] + 1 /\ _top[p] = b_[Owner] /\ _top[p] \in Nat
  BY <1>1, <1>2, <1>3 DEF End, Sound
<1>5. /\ _top' \in [Levels -> Nat] /\ _top'[p] = _top[p] + 1
      /\ \A q \in Levels : q # p => _top'[q] = _top[q]
  BY <1>1, <1>4 DEF Types
<1>6. item[Owner] \in pushed
  <2>1. b_[Owner] \in _top[p] .. End(p) - 1
    BY <1>3, <1>4
  <2>. QED BY <1>1, <1>3, <2>1 DEF Window
<1>7. pc'[Owner] = "restore" /\ \A w \in Thieves : pc'[w] = pc[w]
  BY <1>1, ThreadsAssumption DEF Types, Threads
<1>8. Types'
  <2>1. taken' \in [Threads -> SUBSET Items] /\ pc' \in [Threads -> OwnerPlaces \cup ThiefPlaces]
    BY <1>1, <1>6 DEF Types, Takes, OwnerPlaces
  <2>. QED BY <1>1, <1>5, <1>7, <2>1 DEF Types, OwnerPlaces
<1>9. \A q \in Levels : End(q)' = End(q)
  BY <1>1, <1>7 DEF End
<1>10. \A q \in Levels : Shrinks(q) /\ Spares(q) /\ _array(q)' = _array(q)
  <2>1. \A q \in Levels : _top[q] <= End(q) /\ _top[q] \in Nat /\ End(q) \in Int
    BY <1>1, <1>2 DEF Window, Sound
  <2>2. \A q \in Levels : /\ _top[q] <= _top'[q] /\ _top'[q] <= End(q)' /\ End(q)' <= End(q)
                          /\ _top'[q] = _top[q] /\ _top[q] < End(q) => _top[q] < End(q)'
    BY <1>3, <1>4, <1>5, <1>9, <2>1
  <2>. QED BY <1>1, <1>8, <2>2, SameArrays
<1>11. Pushing' /\ Popping'
  <2>1. End(p)' = _top'[p] /\ \A q \in Levels : q < p => End(q)' = _top'[q]
    BY <1>3, <1>4, <1>5, <1>9
  <2>. QED BY <1>1, <1>3, <1>7, <2>1 DEF Pushing, Popping
<1>12. IInv'
  <2>1. \A v \in Threads : taken'[v] \subseteq pushed'
    BY <1>1, <1>6 DEF Window, Takes, Types
  <2>. QED BY <1>1, <1>7, <1>8, <1>10, <1>11, <2>1, OwnerKeeps
<1>. DEFINE s == Content(p)
<1>13. /\ s \in Seq(Items) /\ Len(s) = 1 /\ s[1] = item[Owner]
  <2>1. End(p) - _top[p] = 1 /\ _top[p] + 1 - 1 = b_[Owner] /\ 1 \in 1 .. End(p) - _top[p]
    BY <1>3, <1>4
  <2>2. /\ s \in Seq(Items) /\ Len(s) = End(p) - _top[p]
        /\ \A i \in 1 .. End(p) - _top[p] : s[i] = Slot(_array(p), _top[p] + i - 1)
    BY <1>1, ContentIs
  <2>3. s[1] = Slot(_array(p), _top[p] + 1 - 1)
    BY <2>1, <2>2
  <2>. HIDE DEF s
  <2>. QED BY <1>3, <2>1, <2>2, <2>3
<1>14. Content(p)' \in Seq(Items) /\ Content(p)' = <<>>
  <2>1. Content(p)' \in Seq(Items) /\ Len(Content(p)') = End(p)' - _top'[p]
    BY <1>12, ContentsAreNext DEF IInv
  <2>2. End(p)' - _top'[p] = 0
    BY <1>3, <1>4, <1>5, <1>9
  <2>. QED BY <2>1, <2>2, EmptySeq
<1>. HIDE DEF s
<1>15. s # <<>> /\ Last(s) = item[Owner] /\ Front(s) = <<>>
  <2>1. s # <<>> /\ Last(s) = item[Owner]
    BY <1>13 DEF Last
  <2>2. Front(s) = [i \in 1 .. 0 |-> s[i]]
    BY <1>13, <2>1, FrontIs
  <2>3. Front(s) \in Seq(Items) /\ Len(Front(s)) = 0
    <3>1. Front(s) \in [1 .. 0 -> Items]
      BY <2>2
    <3>2. Front(s) \in Seq(Items)
      BY <3>1, IsASeq
    <3>. QED BY <3>1, <3>2, LenProperties
  <2>. QED BY <2>1, <2>3, EmptySeq
<1>16. \A q \in Levels : q # p => Content(q)' = Content(q)
  <2>1. \A q \in Levels : Content(q)' = [i \in 1 .. End(q)' - _top'[q] |-> Slot(_array(q)', _top'[q] + i - 1)]
    BY DEF Content, Slot
  <2>. QED BY <1>5, <1>9, <1>10, <2>1 DEF Content
<1>17. Deque' = [Deque EXCEPT ![p] = Front(@)]
  <2>1. \A q \in Levels : Content(q)' = IF q = p THEN Front(Content(p)) ELSE Content(q)
    BY <1>14, <1>15, <1>16 DEF s
  <2>. QED BY <2>1 DEF Deque
<1>18. \A q \in Levels : q < p => Content(q) = <<>>
  BY <1>1, <1>3, NothingBetter
<1>. QED BY <1>1, <1>12, <1>15, <1>17, <1>18 DEF s

\* The last step of a pop puts _bottom back.
LEMMA RestoreKeeps ==
  ASSUME IInv, Restore
  PROVE  IInv' /\ Deque' = Deque /\ taken' = taken
<1>1. /\ Types /\ Window /\ Popping /\ pc[Owner] = "restore" /\ Owner \in Threads
      /\ UNCHANGED <<_top, arrays, pushed, taken, before>>
      /\ \/ Return(Owner) /\ refused' = refused
         \/ NextLevel(Owner, "pop") /\ refused' = (level[Owner] + 1 \notin Levels)
  BY DEF IInv, Restore, Threads
<1>2. PICK p \in Levels : p = level[Owner]
  BY <1>1 DEF Types
<1>3. \A q \in Levels : Sound(q)
  BY <1>1, AllSound
<1>4. /\ b_[Owner] \in Int /\ b_[Owner] = _bottom[p] /\ refused = FALSE
      /\ End(p) = _top[p] /\ \A q \in Levels : q < p => End(q) = _top[q]
  BY <1>1, <1>2 DEF Types, Popping
<1>5. /\ _bottom' = [_bottom EXCEPT ![p] = _bottom[p] + 1] /\ _bottom' \in [Levels -> Int]
      /\ _bottom'[p] = _bottom[p] + 1 /\ \A q \in Levels : q # p => _bottom'[q] = _bottom[q]
  BY <1>1, <1>2, <1>3, <1>4 DEF Restore, Types, Sound
<1>6. /\ Locals(Owner) /\ pc'[Owner] \in {"pop", "idle"} /\ item'[Owner] = Null
      /\ pc'[Owner] = "idle" => level'[Owner] = 0
      /\ pc'[Owner] = "pop" => p + 1 \in Levels /\ level'[Owner] = p + 1 /\ refused' = FALSE
      /\ refused' => pc'[Owner] = "idle" /\ p + 1 \notin Levels
  <2>1. CASE Return(Owner)
    <3>1. Locals(Owner) /\ pc'[Owner] = "idle" /\ level'[Owner] = 0 /\ item'[Owner] = Null
      BY <1>1, <2>1, ReturnLocals DEF Return, Types
    <3>. QED BY <1>1, <1>2, <1>4, <3>1
  <2>2. CASE NextLevel(Owner, "pop") /\ ~Return(Owner)
    <3>1. Locals(Owner)
      BY <1>1, <2>2, NextLevelLocals DEF OwnerPlaces
    <3>2. /\ pc'[Owner] = "pop" /\ level'[Owner] = p + 1 /\ item'[Owner] = Null /\ p + 1 \in Levels
      BY <1>1, <1>2, <2>2 DEF NextLevel, Goto, Types
    <3>. QED BY <1>1, <1>2, <2>2, <3>1, <3>2
  <2>. QED BY <1>1, <2>1, <2>2
<1>7. Types'
  <2>1. \A w \in Thieves : pc'[w] = pc[w]
    BY <1>6, ThreadsAssumption DEF Locals, Threads
  <2>2. refused' \in BOOLEAN
    BY <1>1, <1>4
  <2>. QED BY <1>1, <1>5, <1>6, <2>1, <2>2 DEF Types, Locals, OwnerPlaces
<1>8. \A q \in Levels : End(q)' = End(q)
  <2>1. \A q \in Levels : End(q) = IF q = p THEN _bottom[q] + 1 ELSE _bottom[q]
    BY <1>1, <1>2 DEF End
  <2>2. \A q \in Levels : End(q)' = _bottom'[q]
    BY <1>6 DEF End
  <2>. QED BY <1>5, <2>1, <2>2
<1>9. \A q \in Levels : Shrinks(q) /\ Spares(q) /\ _array(q)' = _array(q)
  <2>1. \A q \in Levels : _top[q] <= End(q) /\ _top[q] \in Nat /\ End(q) \in Int
    BY <1>1, <1>3 DEF Window, Sound
  <2>2. \A q \in Levels : /\ _top[q] <= _top'[q] /\ _top'[q] <= End(q)' /\ End(q)' <= End(q)
                          /\ _top'[q] = _top[q] /\ _top[q] < End(q) => _top[q] < End(q)'
    BY <1>1, <1>8, <2>1
  <2>. QED BY <1>1, <1>7, <2>2, SameArrays
<1>10. Pushing'
  BY <1>6 DEF Pushing
<1>11. Popping'
  <2>1. \A q \in Levels : q <= p => End(q)' = _top'[q]
    <3>1. \A q \in Levels : q <= p => q < p \/ q = p
      BY DEF Levels
    <3>. QED BY <1>1, <1>4, <1>8, <3>1
  <2>2. \A q \in Levels : q < p + 1 => q <= p
    BY DEF Levels
  <2>3. p + 1 \notin Levels => \A q \in Levels : q <= p
    BY LevelsAssumption DEF Levels
  <2>. QED BY <1>6, <2>1, <2>2, <2>3 DEF Popping
<1>12. IInv'
  <2>1. \A w \in Thieves : /\ pc'[w] = pc[w] /\ level'[w] = level[w] /\ t_'[w] = t_[w]
                           /\ a_'[w] = a_[w] /\ item'[w] = item[w]
    BY <1>1, ThreadsAssumption DEF NextLevel, Return, Goto, Types, Threads
  <2>2. \A v \in Threads : taken'[v] \subseteq pushed'
    BY <1>1 DEF Window
  <2>. QED BY <1>1, <1>7, <1>9, <1>10, <1>11, <2>1, <2>2, OwnerKeeps
<1>13. Deque' = Deque
  BY <1>1, <1>7, <1>8, <1>9, DequeSame
<1>. QED BY <1>1, <1>12, <1>13

-----------------------------------------------------------------------------
(* The theorems.                                                            *)

LEMMA InitIInv == Init => IInv /\ Abstract!WorkInit
<1>. SUFFICES ASSUME Init PROVE IInv /\ Abstract!WorkInit
  OBVIOUS
<1>1. EmptyArray(Capacity) \in Array /\ EmptyArray(Capacity).C = Capacity
  <2>1. [i \in 0 .. Capacity - 1 |-> Null] \in [0 .. Capacity - 1 -> Items \cup {Null}]
    OBVIOUS
  <2>. QED BY <2>1, CapacityAssumption, ArrayMade DEF EmptyArray
<1>2. /\ arrays = [p \in Levels |-> <<EmptyArray(Capacity)>>]
      /\ <<EmptyArray(Capacity)>> \in Seq(Array) \ {<<>>}
      /\ \A p \in Levels : _array(p) = EmptyArray(Capacity)
  BY <1>1, SMT DEF Init, _array, Last
<1>3. 0 \in Levels
  BY LevelsAssumption DEF Levels
<1>4. Types
  <2>1. arrays \in [Levels -> Seq(Array) \ {<<>>}]
    BY <1>2
  <2>2. pc \in [Threads -> {"idle"}] /\ level \in [Threads -> {0}] /\ \A w \in Threads : pc[w] = "idle"
    BY DEF Init
  <2>3. /\ t_ \in [Threads -> Nat] /\ b_ \in [Threads -> Int] /\ a_ \in [Threads -> Nat]
        /\ item \in [Threads -> Items \cup {Null}] /\ _top \in [Levels -> Nat]
        /\ _bottom \in [Levels -> Int]
    BY DEF Init
  <2>4. pushed \subseteq Items /\ taken \in [Threads -> SUBSET Items] /\ refused \in BOOLEAN
    BY DEF Init
  <2>. QED BY <1>3, <2>1, <2>2, <2>3, <2>4 DEF Types, Threads, OwnerPlaces, ThiefPlaces
<1>5. \A p \in Levels : _top[p] = 0 /\ End(p) = 0
  BY DEF Init, End, Threads
<1>6. Window
  BY <1>1, <1>2, <1>5, CapacityAssumption DEF Init, Window
<1>7. Pushing /\ Popping /\ \A w \in Thieves : Stealing(w)
  BY DEF Init, Pushing, Popping, Stealing, Threads
<1>8. \A p \in Levels : Content(p) = <<>>
  <2>1. \A p \in Levels : Content(p) \in Seq(Items) /\ Len(Content(p)) = 0
    BY <1>4, <1>5, <1>6, ContentsAre
  <2>. QED BY <2>1, EmptySeq
<1>9. Abstract!WorkInit
  BY <1>8 DEF Init, Deque, Threads, Levels, Abstract!WorkInit, Abstract!Levels
<1>. QED BY <1>4, <1>6, <1>7, <1>9 DEF IInv

\* Every step of a thread is one of WorkQueue's, or one it does not see.
LEMMA NextIInv ==
  IInv /\ [Next]_vars => IInv' /\ [Abstract!WorkNext]_(Abstract!workVars)
<1>. SUFFICES ASSUME IInv, [Next]_vars PROVE IInv' /\ [Abstract!WorkNext]_(Abstract!workVars)
  OBVIOUS
<1>. DEFINE Unseen == Deque' = Deque /\ taken' = taken
<1>1. Unseen => [Abstract!WorkNext]_(Abstract!workVars)
  BY DEF Abstract!workVars
<1>2. Deque \in [Levels -> Seq(Items)] /\ \A p \in Levels : Deque[p] = Content(p)
  BY ContentsAre DEF IInv, Deque
<1>3. DOMAIN taken = Threads /\ Levels = Abstract!Levels
  BY DEF IInv, Types, Levels, Abstract!Levels
<1>4. \A w, x : Takes(w, x) => Abstract!Takes(w, x)
  BY DEF Takes, Abstract!Takes
<1>. HIDE DEF Unseen
<1>5. ASSUME NEW x \in Items, Push(x) PROVE IInv' /\ Unseen
  BY <1>5, PushKeeps DEF Push, Unseen
<1>6. CASE Grow
  BY <1>1, <1>6, GrowKeeps DEF Grow, history, Unseen
<1>7. CASE Store
  BY <1>1, <1>7, StoreKeeps DEF Store, history, Unseen
<1>8. CASE Publish
  <2>1. PICK x \in Items : x = item[Owner]
    BY <1>8, PublishAdds
  <2>2. /\ IInv' /\ taken' = taken /\ Deque' = [Deque EXCEPT ![PriorityOf[x]] = Append(@, x)]
        /\ \A q \in Levels : x \notin ToSet(Content(q))
        /\ \A v \in Threads : x \notin taken[v]
    BY <1>8, <2>1, PublishAdds
  <2>3. Abstract!Add(x)
    BY <1>2, <1>3, <2>2 DEF Abstract!Add, ToSet, Abstract!ToSet
  <2>. QED BY <2>2, <2>3 DEF Abstract!WorkNext
<1>9. CASE PopBottom
  BY <1>1, <1>9, PopBottomKeeps DEF PopBottom, Unseen
<1>10. ASSUME NEW p \in Levels, IInv',
              Content(p) # <<>>, \A q \in Levels : q < p => Content(q) = <<>>,
              Takes(Owner, Last(Content(p))), Deque' = [Deque EXCEPT ![p] = Front(@)]
       PROVE  IInv' /\ Abstract!WorkNext
  <2>1. Abstract!TakeNewest(p)
    BY <1>2, <1>3, <1>4, <1>10 DEF Abstract!TakeNewest, Last, Abstract!Last, Front, Abstract!Front
  <2>. QED BY <1>3, <1>10, <2>1 DEF Abstract!WorkNext
<1>11. PICK p \in Levels : p = level[Owner]
  BY DEF IInv, Types, Threads
<1>12. CASE PopTop
  <2>1. CASE _top[p] < b_[Owner]
    BY <1>10, <1>11, <1>12, <2>1, PopTopTakes
  <2>2. CASE ~(_top[p] < b_[Owner])
    <3>1. _top[p] \in Nat /\ b_[Owner] \in Int
      BY DEF IInv, Types, Threads
    <3>. QED BY <1>1, <1>11, <1>12, <2>2, <3>1, PopTopKeeps DEF Unseen
  <2>. QED BY <2>1, <2>2
<1>13. CASE PopExchange
  <2>1. CASE _top[p] = t_[Owner]
    BY <1>10, <1>11, <1>13, <2>1, PopExchangeTakes
  <2>2. CASE _top[p] # t_[Owner]
    BY <1>1, <1>11, <1>13, <2>2, PopExchangeKeeps DEF Unseen
  <2>. QED BY <2>1, <2>2
<1>14. CASE Restore
  BY <1>1, <1>14, RestoreKeeps DEF Unseen
<1>15. ASSUME NEW w \in Thieves, Thief(w) PROVE IInv' /\ [Abstract!WorkNext]_(Abstract!workVars)
  <2>1. CASE UNCHANGED <<_top, taken>>
    BY <1>1, <1>15, <2>1, LookKeeps DEF Unseen
  <2>2. CASE ~UNCHANGED <<_top, taken>>
    <3>1. StealExchange(w) /\ ~UNCHANGED <<_top, taken>>
      BY <1>15, <2>2 DEF Thief, StealTop, StealBottom, StealArray, StealItem, EmptyBottom,
                         EmptyTop, WasEmpty, shared, history
    <3>2. PICK q \in Levels : q = level[w]
      BY DEF IInv, Types, Threads
    <3>3. /\ _top[q] = t_[w] /\ _top' = [_top EXCEPT ![q] = @ + 1]
          /\ Takes(w, item[w]) /\ Return(w)
      BY <3>1, <3>2 DEF StealExchange
    <3>4. /\ IInv' /\ Content(q) # <<>> /\ item[w] = Head(Content(q))
          /\ Deque' = [Deque EXCEPT ![q] = Tail(@)]
      BY <3>1, <3>2, <3>3, ExchangeTakes
    <3>5. Abstract!TakeOldest(w, q)
      BY <1>2, <1>4, <3>3, <3>4 DEF Abstract!TakeOldest
    <3>. QED BY <1>3, <3>4, <3>5 DEF Abstract!WorkNext
  <2>. QED BY <2>1, <2>2
<1>16. CASE UNCHANGED vars
  <2>1. UNCHANGED <<_top, _bottom, arrays, pc, level, t_, b_, a_, item, pushed, taken, refused>>
    BY <1>16 DEF vars, shared, locals, history
  <2>2. Types' /\ Window' /\ Pushing' /\ Popping' /\ \A w \in Thieves : Stealing(w)'
    BY <2>1, ZenonT(30) DEF IInv, Types, Window, Pushing, Popping, Stealing, End, _array, Slot
  <2>3. Unseen
    BY <2>1 DEF Unseen, Deque, Content, End, _array, Slot
  <2>. QED BY <1>1, <2>2, <2>3 DEF IInv
<1>. QED BY <1>1, <1>5, <1>6, <1>7, <1>8, <1>9, <1>12, <1>13, <1>14, <1>15, <1>16 DEF Next, Own

(* In every state the window of each priority lies in its array, a push has *)
(* room, a pop holds the task behind _bottom and a thief whose exchange     *)
(* would succeed the oldest: what push, pop and steal of tsq.hpp (317-409)  *)
(* keep up between their loads and stores.                                  *)
THEOREM Inductive == Spec => []IInv
BY InitIInv, NextIInv, PTL DEF Spec

(* push, pop and steal (tsq.hpp 317-409) take effect in one step each: for  *)
(* any number of thieves, tasks and priorities and any first capacity, no   *)
(* task is lost, taken twice, or taken out of its turn.                     *)
THEOREM QueueIsWorkQueue == Spec => ImplementsWorkQueue
BY InitIInv, NextIInv, Inductive, PTL DEF Spec, ImplementsWorkQueue, Abstract!WorkSpec

(* pop() (tsq.hpp 354-396) returns nullptr only from a queue that is empty  *)
(* at every priority, for all thieves do to the ones it has left behind.    *)
THEOREM NullMeansEmpty == Spec => []NullOnlyWhenEmpty
<1>1. IInv => NullOnlyWhenEmpty
  <2>. SUFFICES ASSUME IInv, refused PROVE Contents = {}
    BY DEF NullOnlyWhenEmpty
  <2>1. \A q \in Levels : End(q) = _top[q] /\ _top[q] \in Nat
    BY DEF IInv, Popping, Types
  <2>2. \A q \in Levels : Content(q) = <<>>
    <3>1. \A q \in Levels : Content(q) \in Seq(Items) /\ Len(Content(q)) = 0
      BY <2>1, ContentsAre DEF IInv
    <3>. QED BY <3>1, EmptySeq
  <2>. QED BY <2>2 DEF Contents, ToSet
<1>. QED BY <1>1, Inductive, PTL

-----------------------------------------------------------------------------
(* What empty() has seen. A task that was there when it began is not in the *)
(* levels it has passed, unless the owner has laid its hand on it; and at   *)
(* the level it looks at, all of them lie below the _bottom it loaded.      *)

\* The owner's pop has lowered _bottom to i and not yet seen whether i is its own.
Hand(q, i) == pc[Owner] \in {"popTop", "popExchange"} /\ level[Owner] = q /\ i = _bottom[q]

Passed(w, q) == \A i \in _top[q] .. End(q) - 1 : Slot(_array(q), i) \in before[w] => Hand(q, i)

Looking(w) ==
  /\ before[w] \subseteq pushed
  /\ pc[Owner] \in {"grow", "store", "publish"} => item[Owner] \notin before[w]
  /\ pc[w] = "idle" => level[w] = 0
  /\ pc[w] \in {"empty", "emptyTop"} => \A q \in Levels : q < level[w] => Passed(w, q)
  /\ pc[w] = "wasEmpty" => \A q \in Levels : Passed(w, q)
  /\ pc[w] = "emptyTop" =>
       \A i \in _top[level[w]] .. End(level[w]) - 1 :
         Slot(_array(level[w]), i) \in before[w] => i < b_[w] \/ Hand(level[w], i)

EInv == before \in [Threads -> SUBSET Items] /\ \A w \in Thieves : Looking(w)

LEMMA SlotsOfContent ==
  Types /\ Window =>
    \A p \in Levels : \A k \in 1 .. End(p) - _top[p] : Content(p)[k] = Slot(_array(p), _top[p] + k - 1)
BY ContentIs

LEMMA SlotsOfContentNext ==
  Types' /\ Window' =>
    (\A p \in Levels : \A k \in 1 .. End(p) - _top[p] : Content(p)[k] = Slot(_array(p), _top[p] + k - 1))'
BY SlotsOfContent, PTL

\* Where the tasks stay, they keep their places.
LEMMA PlacesKept ==
  ASSUME Types, Window, Types', Window', Deque' = Deque,
         NEW q \in Levels, _top'[q] = _top[q], NEW i \in _top'[q] .. End(q)' - 1
  PROVE  i \in _top[q] .. End(q) - 1 /\ Slot(_array(q)', i) = Slot(_array(q), i)
<1>1. /\ _top[q] \in Nat /\ _top'[q] \in Nat /\ End(q) \in Int /\ End(q)' \in Int
      /\ i \in Int
  BY AllSound, AllSoundNext DEF Sound
<1>2. Content(q)' = Content(q)
  BY DEF Deque
<1>3. \A k \in 1 .. End(q) - _top[q] : Content(q)[k] = Slot(_array(q), _top[q] + k - 1)
  BY ContentIs
<1>4. (\A k \in 1 .. End(q) - _top[q] : Content(q)[k] = Slot(_array(q), _top[q] + k - 1))'
  BY SlotsOfContentNext
<1>5. Len(Content(q)) = End(q) - _top[q] /\ Len(Content(q)') = End(q)' - _top'[q]
  BY ContentsAre, ContentsAreNext
<1>6. End(q)' = End(q)
  BY <1>1, <1>2, <1>5
<1>7. PICK k \in Int : k = i - _top[q] + 1
  BY <1>1
<1>8. k \in 1 .. End(q) - _top[q] /\ _top[q] + k - 1 = i
  BY <1>1, <1>6, <1>7
<1>9. Content(q)[k] = Slot(_array(q), i) /\ Content(q)'[k] = Slot(_array(q)', i)
  <2>1. Content(q)'[k] = Slot(_array(q)', _top'[q] + k - 1)
    BY <1>4, <1>6, <1>8 DEF Slot
  <2>. QED BY <1>3, <1>8, <2>1
<1>. QED BY <1>1, <1>2, <1>6, <1>9

\* A task in the queue after a step was there before it, and a hand that was on
\* it is still; or it is the one whose push this step ends.
Stays(q, i) ==
  /\ i \in _top[q] .. End(q) - 1 /\ Slot(_array(q)', i) = Slot(_array(q), i)
  /\ Hand(q, i) => Hand(q, i)'
Comes(q, i) == pc[Owner] = "publish" /\ Slot(_array(q)', i) = item[Owner]

LEMMA StaysOrComes ==
  ASSUME IInv, IInv', [Next]_vars, NEW q \in Levels, NEW i \in _top'[q] .. End(q)' - 1
  PROVE  Stays(q, i) \/ Comes(q, i)
<1>1. /\ Types /\ Window /\ Popping /\ Types' /\ Window' /\ Popping'
      /\ Owner \in Threads /\ level[Owner] \in Levels /\ b_[Owner] \in Int
  BY DEF IInv, Types, Threads
<1>2. Sound(q) /\ Sound(q)'
  BY <1>1, AllSound, AllSoundNext
<1>3. /\ _top[q] \in Nat /\ _top'[q] \in Nat /\ End(q) \in Int /\ End(q)' \in Int
      /\ _bottom[q] \in Int /\ _bottom'[q] \in Int /\ i \in Int
  BY <1>2 DEF Sound
\* Steps that leave the queue as it is.
<1>4. ASSUME Deque' = Deque, _top' = _top, Hand(q, i) => Hand(q, i)' PROVE Stays(q, i)
  BY <1>1, <1>4, PlacesKept DEF Stays
\* Steps that leave the arrays as they are.
<1>5. ASSUME arrays' = arrays, _top[q] <= _top'[q], End(q)' <= End(q), Hand(q, i) => Hand(q, i)'
      PROVE  Stays(q, i)
  BY <1>3, <1>5 DEF Stays, _array
<1>6. ASSUME NEW x \in Items, Push(x) PROVE Stays(q, i)
  BY <1>4, <1>6, PushKeeps DEF Push, shared, Hand
<1>7. CASE Grow
  BY <1>4, <1>7, GrowKeeps DEF Grow, Hand
<1>8. CASE Store
  BY <1>4, <1>8, StoreKeeps DEF Store, Hand
<1>9. CASE Publish
  <2>1. /\ pc[Owner] = "publish" /\ arrays' = arrays /\ _top' = _top /\ ~Hand(q, i)
        /\ _bottom' = [_bottom EXCEPT ![level[Owner]] = b_[Owner] + 1] /\ pc'[Owner] = "idle"
    BY <1>1, <1>9 DEF Publish, Return, Goto, Hand, Types
  <2>2. End(q) = _bottom[q] /\ End(q)' = _bottom'[q]
    BY <2>1 DEF End
  <2>3. CASE q # level[Owner]
    BY <1>1, <1>3, <1>5, <2>1, <2>2, <2>3, SMTT(30) DEF Types
  <2>4. CASE q = level[Owner]
    <3>1. b_[Owner] = _bottom[q] /\ Slot(_array(q), b_[Owner]) = item[Owner]
      BY <2>1, <2>4 DEF IInv, Pushing
    <3>2. End(q)' = _bottom[q] + 1
      BY <1>1, <2>1, <2>2, <2>4, <3>1 DEF Types
    <3>3. _array(q)' = _array(q)
      BY <2>1 DEF _array
    <3>4. CASE i = _bottom[q]
      BY <2>1, <3>1, <3>3, <3>4 DEF Comes
    <3>5. CASE i # _bottom[q]
      <4>1. i \in _top[q] .. End(q) - 1
        BY <1>3, <2>1, <2>2, <3>2, <3>5
      <4>. QED BY <2>1, <3>3, <4>1 DEF Stays
    <3>. QED BY <3>4, <3>5
  <2>. QED BY <2>3, <2>4
<1>10. CASE PopBottom
  BY <1>4, <1>10, PopBottomKeeps DEF PopBottom, Hand
<1>11. CASE PopTop
  <2>1. /\ pc[Owner] = "popTop" /\ arrays' = arrays /\ _top' = _top /\ _bottom' = _bottom
        /\ b_[Owner] = _bottom[level[Owner]] /\ End(level[Owner]) = _bottom[level[Owner]] + 1
    BY <1>1, <1>11 DEF PopTop, shared, Popping, End
  <2>2. CASE q # level[Owner]
    <3>1. End(q) = _bottom[q] /\ ~Hand(q, i)
      BY <2>2 DEF End, Hand
    <3>2. pc'[Owner] = "idle" \/ level' = level
      BY <1>1, <1>11 DEF PopTop, Return, Goto, Types
    <3>3. End(q)' = _bottom[q]
      BY <2>1, <2>2, <3>2 DEF End
    <3>. QED BY <1>3, <1>5, <2>1, <3>1, <3>3
  <2>3. CASE q = level[Owner]
    <3>1. CASE _top[q] < b_[Owner]
      <4>1. pc'[Owner] = "idle"
        BY <1>1, <1>3, <1>11, <2>3, <3>1 DEF PopTop, Return, Goto, Types
      <4>2. End(q)' = _bottom[q] /\ i # _bottom[q]
        BY <1>3, <2>1, <4>1 DEF End
      <4>. QED BY <1>3, <1>5, <2>1, <2>3, <4>2 DEF Hand
    <3>2. CASE _top[q] = b_[Owner]
      <4>0. Goto(Owner, "popExchange") /\ level' = level
        BY <1>1, <1>3, <1>11, <2>3, <3>2 DEF PopTop
      <4>1. pc'[Owner] = "popExchange" /\ level' = level
        BY <1>1, <4>0 DEF Goto, Types
      <4>2. End(q)' = _bottom[q] + 1
        BY <2>1, <2>3, <4>1 DEF End
      <4>. QED BY <1>3, <1>5, <2>1, <2>3, <4>1, <4>2 DEF Hand
    <3>3. CASE _top[q] > b_[Owner]
      <4>0. Goto(Owner, "restore") /\ level' = level
        BY <1>1, <1>3, <1>11, <2>3, <3>3 DEF PopTop
      <4>1. pc'[Owner] = "restore" /\ level' = level
        BY <1>1, <4>0 DEF Goto, Types
      <4>2. End(q)' = _bottom[q] + 1
        BY <2>1, <2>3, <4>1 DEF End
      <4>. QED BY <1>3, <2>1, <2>3, <3>3, <4>2
    <3>. QED BY <1>1, <1>3, <3>1, <3>2, <3>3
  <2>. QED BY <2>2, <2>3
<1>12. CASE PopExchange
  <2>1. /\ pc[Owner] = "popExchange" /\ arrays' = arrays /\ _bottom' = _bottom /\ level' = level
        /\ pc'[Owner] = "restore" /\ End(level[Owner]) = _bottom[level[Owner]] + 1
    BY <1>1, <1>12 DEF PopExchange, Goto, Types, End
  <2>2. End(q)' = End(q)
    BY <2>1 DEF End
  <2>3. CASE q # level[Owner]
    <3>1. _top'[q] = _top[q] /\ ~Hand(q, i)
      BY <1>1, <1>12, <2>3 DEF PopExchange, Types, Hand
    <3>. QED BY <1>3, <1>5, <2>1, <2>2, <3>1
  <2>4. CASE q = level[Owner]
    <3>1. End(q)' = _top'[q]
      BY <1>1, <2>1, <2>4 DEF Popping
    <3>. QED BY <1>3, <3>1
  <2>. QED BY <2>3, <2>4
<1>13. CASE Restore
  BY <1>4, <1>13, RestoreKeeps DEF Restore, Hand
<1>14. ASSUME NEW w \in Thieves, Thief(w) PROVE Stays(q, i)
  <2>1. Apart(w) /\ w # Owner
    BY <1>1, <1>14, ThiefApart, ThreadsAssumption
  <2>2. End(q)' = End(q) /\ arrays' = arrays /\ (Hand(q, i) <=> Hand(q, i)')
    BY <1>1, <2>1, EndsApart DEF Apart, Hand
  <2>3. _top[q] <= _top'[q]
    <3>1. CASE UNCHANGED _top
      BY <1>3, <3>1
    <3>2. CASE StealExchange(w) /\ ~UNCHANGED _top
      <4>1. _top' = [_top EXCEPT ![level[w]] = @ + 1]
        BY <3>2 DEF StealExchange
      <4>2. _top'[q] = _top[q] \/ _top'[q] = _top[q] + 1
        BY <1>1, <4>1 DEF Types
      <4>. QED BY <1>3, <4>2
    <3>. QED BY <1>14, <3>1, <3>2 DEF Thief, StealTop, StealBottom, StealArray, StealItem, EmptyBottom,
                                EmptyTop, WasEmpty, shared
  <2>. QED BY <1>3, <1>5, <2>2, <2>3
<1>15. CASE UNCHANGED vars
  <2>1. UNCHANGED <<_top, _bottom, arrays, pc, level>>
    BY <1>15 DEF vars, shared, locals
  <2>. QED BY <1>3, <1>5, <2>1 DEF Hand, End
<1>. QED BY <1>6, <1>7, <1>8, <1>9, <1>10, <1>11, <1>12, <1>13, <1>14, <1>15 DEF Next, Own

\* What a thief has seen stays as it was while it does not move.
LEMMA LookingKept ==
  ASSUME IInv, IInv', [Next]_vars, EInv, NEW w \in Thieves,
         pc'[w] = pc[w], level'[w] = level[w], b_'[w] = b_[w], before'[w] = before[w],
         pushed \subseteq pushed',
         pc'[Owner] \in {"grow", "store", "publish"} => item'[Owner] \notin before[w]
  PROVE  Looking(w)'
<1>1. Looking(w) /\ w \in Threads /\ level[w] \in Levels
  BY DEF EInv, IInv, Types, Threads
<1>2. ASSUME NEW q \in Levels, NEW i \in _top'[q] .. End(q)' - 1, Slot(_array(q)', i) \in before[w]
      PROVE  /\ i \in _top[q] .. End(q) - 1 /\ Slot(_array(q), i) \in before[w]
             /\ Hand(q, i) => Hand(q, i)'
  BY <1>1, <1>2, StaysOrComes DEF Stays, Comes, Looking
<1>3. \A q \in Levels : Passed(w, q) => Passed(w, q)'
  BY <1>2 DEF Passed, Slot
<1>4. pc[w] = "emptyTop" =>
        \A i \in _top'[level[w]] .. End(level[w])' - 1 :
          Slot(_array(level[w])', i) \in before[w] => i < b_[w] \/ Hand(level[w], i)'
  BY <1>1, <1>2 DEF Looking
<1>5. pc'[w] = "emptyTop" =>
        (\A i \in _top[level[w]] .. End(level[w]) - 1 :
           Slot(_array(level[w]), i) \in before[w] => i < b_[w] \/ Hand(level[w], i))'
  BY <1>4 DEF End, _array, Slot, Hand
<1>. QED BY <1>1, <1>3, <1>5 DEF Looking

\* A step of thief w itself, which moves nothing unless it takes a task.
LEMMA LookingNext ==
  ASSUME IInv, IInv', EInv, NEW w \in Thieves, Thief(w)
  PROVE  Looking(w)' /\ before' \in [Threads -> SUBSET Items]
                     /\ \A v \in Threads \ {w} : before'[v] = before[v]
<1>1. /\ Types /\ Window /\ Pushing /\ Popping /\ Looking(w) /\ w \in Threads /\ level[w] \in Levels
      /\ before \in [Threads -> SUBSET Items]
  BY DEF EInv, IInv, Types, Threads
<1>2. /\ Apart(w) /\ w # Owner /\ pc'[Owner] = pc[Owner] /\ level'[Owner] = level[Owner]
      /\ item'[Owner] = item[Owner] /\ pushed' = pushed /\ _bottom' = _bottom
  BY <1>1, ThiefApart, ThreadsAssumption DEF Apart, Threads
<1>3. \A q \in Levels : /\ End(q)' = End(q) /\ _array(q)' = _array(q)
                        /\ \A i : Hand(q, i)' <=> Hand(q, i)
  BY <1>1, <1>2, EndsApart DEF Hand
<1>4. \A q \in Levels : /\ _top[q] \in Nat /\ End(q) \in Int /\ _bottom[q] \in Int
                        /\ End(q) = _bottom[q] \/ End(q) = _bottom[q] + 1
  BY <1>1, AllSound DEF Sound, End
\* Steps of steal() keep before, and do not lead to empty().
<1>5. CASE /\ before' = before
           /\ pc'[w] \in {"stealBottom", "stealArray", "stealItem", "stealExchange", "steal"} \/ Return(w)
  <2>1. pc'[w] = "idle" => level'[w] = 0
    BY <1>1, <1>5 DEF Return, Goto, Types
  <2>2. pc'[w] \notin {"empty", "emptyTop", "wasEmpty"}
    BY <1>1, <1>5 DEF Return, Goto, Types
  <2>. QED BY <1>1, <1>2, <1>5, <2>1, <2>2 DEF Looking
<1>6. CASE StealTop(w) \/ StealArray(w) \/ StealItem(w)
  BY <1>1, <1>5, <1>6 DEF StealTop, StealArray, StealItem, Goto, Types, history
<1>7. CASE StealBottom(w) \/ StealExchange(w)
  <2>1. NextLevel(w, "steal") => Return(w) \/ pc'[w] = "steal"
    BY <1>1 DEF NextLevel, Goto, Types
  <2>2. before' = before /\ (NextLevel(w, "steal") \/ Return(w) \/ Goto(w, "stealArray"))
    BY <1>7 DEF StealBottom, StealExchange, history
  <2>. QED BY <1>1, <1>5, <2>1, <2>2 DEF Goto, Types
<1>8. CASE EmptyBottom(w)
  <2>. DEFINE p == level[w]
  <2>1. /\ pc[w] \in {"idle", "empty"} /\ pc'[w] = "emptyTop" /\ level' = level /\ _top' = _top
        /\ b_'[w] = _bottom[p]
        /\ before' = IF pc[w] = "idle" THEN [before EXCEPT ![w] = Contents] ELSE before
    BY <1>1, <1>8 DEF EmptyBottom, Goto, Types, shared
  \* Beyond what it loads there is only what the owner has its hand on.
  <2>2. ASSUME NEW i \in _top[p] .. End(p) - 1 PROVE i < _bottom[p] \/ Hand(p, i)
    <3>1. SUFFICES ASSUME ~(i < _bottom[p]) PROVE Hand(p, i)
      OBVIOUS
    <3>2. i = _bottom[p] /\ End(p) = _bottom[p] + 1 /\ _top[p] <= _bottom[p]
      BY <1>1, <1>4, <3>1
    <3>3. pc[Owner] \in {"popTop", "popExchange", "restore"} /\ level[Owner] = p
      BY <1>1, <1>4, <3>2 DEF End
    <3>4. pc[Owner] # "restore"
      BY <1>1, <1>4, <3>2, <3>3 DEF Popping
    <3>. QED BY <3>2, <3>3, <3>4 DEF Hand
  <2>3. Contents \subseteq Items /\ Contents \subseteq pushed
        /\ (pc[Owner] \in {"grow", "store", "publish"} => item[Owner] \notin Contents)
    <3>1. ASSUME NEW x \in Contents
          PROVE  \E q \in Levels : \E i \in _top[q] .. End(q) - 1 : x = Slot(_array(q), i)
      <4>1. PICK q \in Levels : x \in ToSet(Content(q))
        BY <3>1 DEF Contents
      <4>2. /\ DOMAIN Content(q) = 1 .. End(q) - _top[q]
            /\ \A k \in 1 .. End(q) - _top[q] : Content(q)[k] = Slot(_array(q), _top[q] + k - 1)
        BY <1>1, SlotsOfContent DEF Content
      <4>3. PICK k \in 1 .. End(q) - _top[q] : x = Slot(_array(q), _top[q] + k - 1)
        BY <4>1, <4>2 DEF ToSet
      <4>4. _top[q] + k - 1 \in _top[q] .. End(q) - 1
        BY <1>4
      <4>. QED BY <4>3, <4>4
    <3>2. pushed \subseteq Items
      BY <1>1 DEF Types
    <3>. QED BY <1>1, <3>1, <3>2 DEF Window, Pushing
  <2>4. before'[w] \subseteq pushed /\ before' \in [Threads -> SUBSET Items]
        /\ \A v \in Threads \ {w} : before'[v] = before[v]
    BY <1>1, <2>1, <2>3 DEF Looking
  <2>5. pc'[Owner] \in {"grow", "store", "publish"} => item'[Owner] \notin before'[w]
    BY <1>1, <1>2, <2>1, <2>3 DEF Looking
  <2>6. ASSUME NEW q \in Levels, q < p PROVE Passed(w, q)'
    <3>1. pc[w] = "empty"
      <4>1. p # 0
        BY <1>1, <2>6 DEF Levels
      <4>. QED BY <1>1, <2>1, <4>1 DEF Looking
    <3>2. Passed(w, q) /\ before'[w] = before[w]
      BY <1>1, <2>1, <2>6, <3>1 DEF Looking
    <3>. QED BY <1>3, <2>1, <3>2 DEF Passed, Slot
  <2>7. \A i \in _top'[p] .. End(p)' - 1 : i < b_'[w] \/ Hand(p, i)'
    BY <1>1, <1>3, <2>1, <2>2
  <2>8. (\A i \in _top[level[w]] .. End(level[w]) - 1 : i < b_[w] \/ Hand(level[w], i))'
    BY <2>1, <2>7 DEF End, Hand
  <2>. QED BY <1>2, <2>1, <2>4, <2>5, <2>6, <2>8 DEF Looking
<1>9. CASE EmptyTop(w)
  <2>. DEFINE p == level[w]
  <2>1. pc[w] = "emptyTop" /\ _top' = _top /\ b_[w] \in Int
    BY <1>1, <1>9 DEF EmptyTop, shared, Types
  <2>2. CASE b_[w] > _top[p]
    <3>1. Return(w) /\ before' = [before EXCEPT ![w] = {}]
      BY <1>9, <2>2 DEF EmptyTop
    <3>2. pc'[w] = "idle" /\ level'[w] = 0 /\ before'[w] = {}
      BY <1>1, <3>1 DEF Return, Goto, Types
    <3>. QED BY <1>1, <3>1, <3>2 DEF Looking
  <2>3. CASE ~(b_[w] > _top[p])
    <3>1. before' = before
      BY <1>9, <2>3 DEF EmptyTop
    <3>2. ASSUME NEW q \in Levels, q < p \/ q = p PROVE Passed(w, q)'
      <4>1. Passed(w, q)
        <5>1. CASE q < p
          BY <1>1, <2>1, <5>1 DEF Looking
        <5>2. CASE q = p
          <6>1. \A i \in _top[p] .. End(p) - 1 : ~(i < b_[w])
            BY <1>1, <1>4, <2>1, <2>3
          <6>. QED BY <1>1, <2>1, <5>2, <6>1 DEF Looking, Passed
        <5>. QED BY <3>2, <5>1, <5>2
      <4>. QED BY <1>3, <2>1, <3>1, <4>1 DEF Passed, Slot
    <3>3. CASE p + 1 \in Levels
      <4>1. NextLevel(w, "empty")
        BY <1>9, <2>3, <3>3 DEF EmptyTop
      <4>2. pc'[w] = "empty" /\ level'[w] = p + 1
        BY <1>1, <3>3, <4>1 DEF NextLevel, Goto, Types
      <4>3. \A q \in Levels : q < p + 1 => q < p \/ q = p
        BY <1>1 DEF Levels
      <4>. QED BY <1>1, <1>2, <3>1, <3>2, <4>2, <4>3 DEF Looking
    <3>4. CASE p + 1 \notin Levels
      <4>1. pc'[w] = "wasEmpty"
        BY <1>1, <1>9, <2>3, <3>4 DEF EmptyTop, Goto, Types
      <4>2. \A q \in Levels : q < p \/ q = p
        BY <1>1, <3>4, LevelsAssumption DEF Levels
      <4>. QED BY <1>1, <1>2, <3>1, <3>2, <4>1, <4>2 DEF Looking
    <3>. QED BY <3>3, <3>4
  <2>. QED BY <2>2, <2>3
<1>10. CASE WasEmpty(w)
  <2>1. Return(w) /\ before' = [before EXCEPT ![w] = {}]
    BY <1>10 DEF WasEmpty
  <2>2. pc'[w] = "idle" /\ level'[w] = 0 /\ before'[w] = {}
    BY <1>1, <2>1 DEF Return, Goto, Types
  <2>. QED BY <1>1, <2>1, <2>2 DEF Looking
<1>. QED BY <1>6, <1>7, <1>8, <1>9, <1>10 DEF Thief

LEMMA NextEInv == IInv /\ IInv' /\ EInv /\ [Next]_vars => EInv'
<1>. SUFFICES ASSUME IInv, IInv', EInv, [Next]_vars PROVE EInv'
  OBVIOUS
<1>1. Types /\ Owner \in Threads /\ \A w \in Thieves : w \in Threads /\ w # Owner
  BY ThreadsAssumption DEF IInv, Threads
<1>2. CASE Own
  <2>1. before' = before /\ pushed \subseteq pushed'
    BY <1>2 DEF Own, Push, Grow, Store, Publish, PopBottom, PopTop, PopExchange, Restore, history
  <2>2. /\ pc' = [pc EXCEPT ![Owner] = pc'[Owner]] /\ level' = [level EXCEPT ![Owner] = level'[Owner]]
        /\ b_' = [b_ EXCEPT ![Owner] = b_'[Owner]]
    BY <1>1, <1>2 DEF Own, Push, Grow, Store, Publish, PopBottom, PopTop, PopExchange, Restore,
                      Types, Goto, Return, NextLevel
  <2>3. \A w \in Thieves : pc'[w] = pc[w] /\ level'[w] = level[w] /\ b_'[w] = b_[w]
    BY <1>1, <2>2 DEF Types
  <2>4. ASSUME NEW w \in Thieves, pc'[Owner] \in {"grow", "store", "publish"}
        PROVE  item'[Owner] \notin before[w]
    <3>1. Looking(w)
      BY DEF EInv
    <3>2. ASSUME NEW x \in Items, Push(x) PROVE item'[Owner] \notin before[w]
      <4>1. item'[Owner] = x /\ x \notin pushed
        BY <1>1, <3>2 DEF Push, Types
      <4>. QED BY <3>1, <4>1 DEF Looking
    <3>3. CASE Grow \/ Store
      <4>1. item' = item /\ pc[Owner] \in {"grow", "store", "publish"}
        BY <3>3 DEF Grow, Store
      <4>. QED BY <3>1, <4>1 DEF Looking
    <3>4. CASE Publish \/ PopBottom \/ PopTop \/ PopExchange \/ Restore
      <4>1. pc'[Owner] \in {"idle", "popTop", "popExchange", "restore", "pop"}
        BY <1>1, <3>4 DEF Publish, PopBottom, PopTop, PopExchange, Restore, Types, Goto, Return,
                          NextLevel
      <4>. QED BY <2>4, <4>1
    <3>. QED BY <1>2, <3>2, <3>3, <3>4 DEF Own
  <2>5. \A w \in Thieves : Looking(w)'
    BY <2>1, <2>3, <2>4, LookingKept
  <2>. QED BY <2>1, <2>5 DEF EInv
<1>3. ASSUME NEW w \in Thieves, Thief(w) PROVE EInv'
  <2>1. Looking(w)' /\ before' \in [Threads -> SUBSET Items]
        /\ \A v \in Threads \ {w} : before'[v] = before[v]
    BY <1>3, LookingNext
  <2>2. Apart(w)
    BY <1>1, <1>3, ThiefApart
  <2>3. ASSUME NEW v \in Thieves, v # w PROVE Looking(v)'
    <3>1. /\ v \in Threads \ {w} /\ Owner \in Threads \ {w} /\ pc'[Owner] = pc[Owner]
          /\ item'[Owner] = item[Owner] /\ pushed' = pushed
          /\ pc'[v] = pc[v] /\ level'[v] = level[v] /\ b_'[v] = b_[v]
      BY <1>1, <2>2, <2>3 DEF Apart
    <3>2. before'[v] = before[v] /\ Looking(v)
      BY <2>1, <3>1 DEF EInv
    <3>. QED BY <3>1, <3>2, LookingKept DEF Looking
  <2>. QED BY <2>1, <2>3 DEF EInv
<1>4. CASE UNCHANGED vars
  <2>1. UNCHANGED <<_top, _bottom, arrays, pc, level, b_, item, pushed, before>>
    BY <1>4 DEF vars, shared, locals, history
  <2>. QED BY <2>1 DEF EInv, Looking, Passed, Hand, End, _array, Slot
<1>. QED BY <1>2, <1>3, <1>4 DEF Next

(* empty() (tsq.hpp 282-300) never says TRUE of a queue that still has a    *)
(* task that was there when it began, unless the owner has its hand on it:  *)
(* whatever the owner and other thieves push, pop and steal in between.     *)
THEOREM EmptyIsRight == Spec => []EmptyOverlooksNone
<1>1. Init => EInv
  <2>1. ASSUME Init, NEW w \in Thieves PROVE Looking(w)
    <3>1. pc[w] = "idle" /\ level[w] = 0 /\ before[w] = {} /\ pc[Owner] = "idle"
      BY <2>1 DEF Init, Threads
    <3>. QED BY <3>1 DEF Looking
  <2>. QED BY <2>1 DEF Init, EInv
<1>2. IInv /\ EInv => EmptyOverlooksNone
  <2>. SUFFICES ASSUME IInv, EInv, NEW w \in Thieves, pc[w] = "wasEmpty",
                       NEW x \in before[w] \cap Contents
                PROVE  x \in InHand
    BY DEF EmptyOverlooksNone
  <2>1. Types /\ Window
    BY DEF IInv
  <2>2. PICK q \in Levels : x \in ToSet(Content(q))
    BY DEF Contents
  <2>3. /\ DOMAIN Content(q) = 1 .. End(q) - _top[q] /\ _top[q] \in Nat /\ End(q) \in Int
        /\ \A k \in 1 .. End(q) - _top[q] : Content(q)[k] = Slot(_array(q), _top[q] + k - 1)
    BY <2>1, AllSound, SlotsOfContent DEF Content, Sound
  <2>4. PICK k \in 1 .. End(q) - _top[q] : x = Slot(_array(q), _top[q] + k - 1)
    BY <2>2, <2>3 DEF ToSet
  <2>5. _top[q] + k - 1 \in _top[q] .. End(q) - 1
    BY <2>3
  <2>6. Hand(q, _top[q] + k - 1)
    BY <2>4, <2>5 DEF EInv, Looking, Passed
  <2>. QED BY <2>4, <2>6 DEF Hand, InHand
<1>. QED BY <1>1, <1>2, NextEInv, Inductive, PTL DEF Spec
=============================================================================
