---------------------------- MODULE ObjectProofs ----------------------------
(***************************************************************************)
(* Proofs about Generator, for any coroutines, callers and objects: what    *)
(* holds for a caller that asks before it gets, stops at an exception and   *)
(* makes no copies.  Then about Request, for any texts and values.          *)
(***************************************************************************)
EXTENDS Fibonacci, Request, Integers, WellFoundedInduction, TLAPS

Types ==
  /\ body \in Bodies /\ pos \in 0 .. Len(body.values)
  /\ frame \in {"suspended", "final", "destroyed"}
  /\ full_ \in [Objects -> BOOLEAN]
  /\ said \in [Objects -> {"nothing", "TRUE", "FALSE"}]
  /\ delivered \in Seq(body.range)

\* One object holds the frame, which goes with it.
Holder ==
  /\ alive \subseteq {First} /\ ~broken
  /\ First \in alive => frame # "destroyed"

\* Until an exception, a coroutine that has ended is known to have: full_.
Ended ==
  /\ exception_ <=> failed
  /\ failed => frame # "suspended"
  /\ First \in alive /\ ~failed /\ frame = "final" => full_[First]

\* The cache is one value ahead of the caller, and TRUE promises one.
Ahead ==
  /\ said[First] = "TRUE" /\ First \in alive => full_[First] /\ frame = "suspended"
  /\ pos > 0 => value_ = body.values[pos]
  /\ full_[First] /\ frame = "suspended" => Len(delivered) + 1 = pos
  /\ First \in alive /\ ~(full_[First] /\ frame = "suspended") => Len(delivered) = pos

IInv == Types /\ Holder /\ Ended /\ Ahead

GInv == Careful => IInv

LEMMA BodyFacts ==
  ASSUME NEW b \in Bodies
  PROVE  b.values \in Seq(b.range) /\ b.throws \in BOOLEAN
BY UsesAssumption DEF Bodies

LEMMA InitIInv == Init => IInv
<1>. SUFFICES ASSUME Init PROVE IInv
  OBVIOUS
<1>. USE FirstAssumption DEF Init
<1>1. body \in Bodies /\ body.values \in Seq(body.range)
  <2>1. body \in Bodies
    BY DEF Bodies
  <2>. QED BY <2>1, BodyFacts
<1>2. Types
  BY <1>1 DEF Types
<1>3. Holder /\ Ended
  BY DEF Holder, Ended
<1>4. Ahead
  BY <1>1 DEF Ahead
<1>. QED BY <1>2, <1>3, <1>4 DEF IInv

\* What fill() may do to the promise.
LEMMA FillFacts ==
  ASSUME IInv, NEW o \in alive, ~failed, FillCached(o) \/ FillResumed(o)
  PROVE  /\ o = First /\ First \in Objects /\ body' = body /\ body \in Bodies
         /\ body.values \in Seq(body.range)
         /\ full_[First] => UNCHANGED promise
         /\ ~full_[First] => /\ frame = "suspended" /\ ~exception_'
                             /\ \/ /\ pos' = pos + 1 /\ pos < Len(body.values)
                                   /\ value_' = body.values[pos + 1] /\ frame' = frame
                                \/ pos' = pos /\ frame' = "final" /\ value_' = value_
<1>1. o = First /\ body \in Bodies /\ body.values \in Seq(body.range) /\ First \in Objects
  BY BodyFacts, FirstAssumption DEF IInv, Types, Holder
<1>2. CASE FillCached(o)
  BY <1>1, <1>2 DEF FillCached, promise
<1>3. CASE FillResumed(o)
  BY <1>1, <1>3 DEF FillResumed, Resume
<1>. QED BY <1>2, <1>3

LEMMA BoolIInv ==
  ASSUME Careful, IInv, NEW o \in Objects, Bool(o)
  PROVE  IInv'
<1>0. o \in alive /\ ~failed /\ (FillCached(o) \/ FillResumed(o))
  BY DEF Bool, MayCall, Careful
<1>. DEFINE Cached == UNCHANGED promise
            Resumed == /\ frame = "suspended" /\ ~exception_'
                       /\ \/ /\ pos' = pos + 1 /\ pos < Len(body.values)
                             /\ value_' = body.values[pos + 1] /\ frame' = frame
                          \/ pos' = pos /\ frame' = "final" /\ value_' = value_
<1>1. /\ o = First /\ First \in Objects /\ body' = body /\ body \in Bodies
      /\ body.values \in Seq(body.range)
      /\ full_[First] => Cached
      /\ ~full_[First] => Resumed
  BY <1>0, FillFacts
<1>2. /\ full_' = [full_ EXCEPT ![First] = TRUE]
      /\ said' = [said EXCEPT ![First] = IF frame' = "final" THEN "FALSE" ELSE "TRUE"]
      /\ UNCHANGED <<alive, delivered, failed, broken>>
  BY <1>1 DEF Bool
<1>3. Types'
  BY <1>1, <1>2 DEF IInv, Types, promise
<1>4. Holder'
  BY <1>0, <1>1, <1>2 DEF IInv, Holder, promise
<1>5. Ended'
  BY <1>0, <1>1, <1>2 DEF IInv, Types, Holder, Ended, promise
<1>6. Ahead'
  BY <1>0, <1>1, <1>2 DEF IInv, Types, Holder, Ended, Ahead, promise
<1>. QED BY <1>3, <1>4, <1>5, <1>6 DEF IInv

\* The caller was told TRUE, so operator() takes the cached value.
LEMMA GetFacts ==
  ASSUME Careful, IInv, NEW o \in Objects, Get(o)
  PROVE  /\ o = First /\ First \in alive /\ ~failed
         /\ full_[First] /\ frame = "suspended" /\ UNCHANGED promise
         /\ pos > 0 /\ Len(delivered) + 1 = pos
         /\ delivered' = Append(delivered, body.values[Len(delivered) + 1])
<1>1. o \in alive /\ ~failed /\ said[o] = "TRUE" /\ (FillCached(o) \/ FillResumed(o))
  BY DEF Get, MayCall, Careful
<1>2. o = First /\ full_[First] /\ frame = "suspended"
  BY <1>1 DEF IInv, Holder, Ahead
<1>3. UNCHANGED promise
  BY <1>1, <1>2 DEF FillCached, FillResumed
<1>4. Len(delivered) \in Nat /\ Len(delivered) + 1 = pos /\ pos > 0
  BY <1>2 DEF IInv, Types, Ahead
<1>5. delivered' = Append(delivered, value_)
  BY <1>3 DEF Get, promise
<1>. QED BY <1>1, <1>2, <1>3, <1>4, <1>5 DEF IInv, Ahead

LEMMA GetIInv ==
  ASSUME Careful, IInv, NEW o \in Objects, Get(o)
  PROVE  IInv'
<1>1. /\ o = First /\ First \in alive /\ ~failed
      /\ full_[First] /\ frame = "suspended" /\ UNCHANGED promise
      /\ pos > 0 /\ Len(delivered) + 1 = pos
      /\ delivered' = Append(delivered, body.values[Len(delivered) + 1])
  BY GetFacts
<1>2. /\ full_' = [full_ EXCEPT ![First] = FALSE]
      /\ said' = [said EXCEPT ![First] = "nothing"]
      /\ UNCHANGED <<alive, failed, broken>>
  BY <1>1 DEF Get
<1>3. body.values \in Seq(body.range) /\ delivered \in Seq(body.range) /\ pos \in 1 .. Len(body.values)
  BY <1>1, BodyFacts DEF IInv, Types
<1>4. body.values[pos] \in body.range
  BY <1>3
<1>9. delivered' = Append(delivered, body.values[pos])
  BY <1>1
<1>5. delivered' \in Seq(body.range) /\ Len(delivered') = pos
  <2>1. \A S : \A s \in Seq(S), e \in S :
          Append(s, e) \in Seq(S) /\ Len(Append(s, e)) = Len(s) + 1
    OBVIOUS
  <2>2. /\ Append(delivered, body.values[pos]) \in Seq(body.range)
        /\ Len(Append(delivered, body.values[pos])) = Len(delivered) + 1
    BY <1>3, <1>4, <2>1, Zenon
  <2>. QED BY <1>1, <1>9, <2>2
<1>6. Types'
  BY <1>1, <1>2, <1>5 DEF IInv, Types, promise
<1>7. Holder' /\ Ended'
  BY <1>1, <1>2, <1>6 DEF IInv, Types, Holder, Ended, promise
<1>8. Ahead'
  BY <1>1, <1>2, <1>5, FirstAssumption DEF IInv, Types, Ahead, promise
<1>. QED BY <1>6, <1>7, <1>8 DEF IInv

\* An exception comes when every value has been delivered.
LEMMA ThrowsFacts ==
  ASSUME Careful, IInv, NEW o \in Objects, Throws(o)
  PROVE  /\ o = First /\ First \in alive /\ ~failed /\ body.throws
         /\ ~full_[First] /\ pos = Len(body.values) /\ Len(delivered) = pos
         /\ frame' = "final" /\ exception_' /\ UNCHANGED <<body, pos, value_>>
<1>1. o = First /\ First \in alive /\ ~failed /\ ~full_[First] /\ Resume /\ exception_'
  BY DEF Throws, MayCall, Careful, IInv, Holder
<1>2. frame = "suspended" /\ ~exception_
  BY <1>1 DEF Resume, IInv, Ended
<1>3. /\ pos = Len(body.values) /\ frame' = "final" /\ body.throws
      /\ UNCHANGED <<body, pos, value_>>
  BY <1>1, <1>2 DEF Resume
<1>. QED BY <1>1, <1>3 DEF IInv, Ahead

LEMMA ThrowsIInv ==
  ASSUME Careful, IInv, NEW o \in Objects, Throws(o)
  PROVE  IInv'
<1>1. /\ o = First /\ First \in alive /\ ~failed /\ body.throws
      /\ ~full_[First] /\ pos = Len(body.values) /\ Len(delivered) = pos
      /\ frame' = "final" /\ exception_' /\ UNCHANGED <<body, pos, value_>>
  BY ThrowsFacts
<1>2. failed' /\ UNCHANGED <<full_, alive, said, delivered, broken>>
  BY DEF Throws
<1>3. said[First] # "TRUE"
  BY <1>1 DEF IInv, Ahead
<1>4. Types'
  BY <1>1, <1>2 DEF IInv, Types
<1>5. Holder' /\ Ended' /\ Ahead'
  BY <1>1, <1>2, <1>3 DEF IInv, Types, Holder, Ended, Ahead
<1>. QED BY <1>4, <1>5 DEF IInv

LEMMA NextIInv ==
  ASSUME Careful, IInv, [Next]_vars
  PROVE  IInv'
<1>1. ASSUME NEW o \in Objects, Throws(o) PROVE IInv'
  BY <1>1, ThrowsIInv
<1>2. ASSUME NEW o \in Objects, Breaks(o) PROVE IInv'
  <2>1. o = First /\ First \in alive /\ ~failed
    BY <1>2 DEF Breaks, MayCall, Careful, IInv, Holder
  <2>2. ~full_[First] /\ frame = "final"
    BY <1>2, <2>1 DEF Breaks, IInv, Types, Holder
  <2>. QED BY <2>1, <2>2 DEF IInv, Ended
<1>3. ASSUME NEW o \in Objects, Bool(o) PROVE IInv'
  BY <1>3, BoolIInv
<1>4. ASSUME NEW o \in Objects, Get(o) PROVE IInv'
  BY <1>4, GetIInv
<1>5. ASSUME NEW o \in Objects, Destroy(o) PROVE IInv'
  BY <1>5 DEF Destroy, IInv, Types, Holder, Ended, Ahead
<1>6. ASSUME NEW o \in Objects, NEW p \in Objects, Copy(o, p) PROVE IInv'
  BY <1>6 DEF Copy, Careful
<1>7. CASE UNCHANGED vars
  BY <1>7 DEF vars, IInv, Types, Holder, Ended, Ahead
<1>. HIDE DEF IInv
<1>. QED BY <1>1, <1>2, <1>3, <1>4, <1>5, <1>6, <1>7 DEF Next

\* The caller keeps its habits.
LEMMA HabitsStay == [Next]_vars => habits' = habits
<1>. SUFFICES ASSUME [Next]_vars PROVE habits' = habits
  OBVIOUS
<1>1. ASSUME NEW o \in Objects, Throws(o) \/ Breaks(o) \/ Bool(o) \/ Get(o) \/ Destroy(o)
      PROVE  habits' = habits
  BY <1>1 DEF Throws, Breaks, Bool, Get, Destroy, FillCached, FillResumed, Resume, promise
<1>2. ASSUME NEW o \in Objects, NEW p \in Objects, Copy(o, p) PROVE habits' = habits
  BY <1>2 DEF Copy, promise
<1>. QED BY <1>1, <1>2 DEF Next, vars

LEMMA Invariance == Spec => []GInv
<1>1. Init => GInv
  BY InitIInv DEF GInv
<1>2. GInv /\ [Next]_vars => GInv'
  BY NextIInv, HabitsStay DEF GInv, Careful
<1>. QED BY <1>1, <1>2, PTL DEF Spec

\* A caller that asks before it gets never resumes or destroys a coroutine
\* that has ended, whatever the coroutine (Generator.hpp 43-72).
THEOREM GuardedIsSafe == Spec => []NeverBroken
<1>1. GInv => NeverBroken
  BY DEF GInv, IInv, Holder, NeverBroken
<1>. QED BY Invariance, <1>1, PTL

\* To such a caller the generator is the stream of its coroutine's values.
THEOREM GuardedIsStream == Spec => ImplementsStream
<1>1. Init => Stream!Init
  BY DEF Init, Stream!Init, Bodies
<1>2. ASSUME GInv, [Next]_vars PROVE [Stream!Next]_Stream!streamVars
  <2>0. habits' = habits /\ (Careful' <=> Careful)
    BY <1>2, HabitsStay DEF Careful
  <2>1. CASE ~Careful
    <3>1. body' = body
      <4>1. ASSUME NEW o \in Objects, Throws(o) \/ Breaks(o) \/ Bool(o) \/ Get(o) \/ Destroy(o)
            PROVE  body' = body
        BY <4>1 DEF Throws, Breaks, Bool, Get, Destroy, FillCached, FillResumed, Resume, promise
      <4>2. ASSUME NEW o \in Objects, NEW p \in Objects, Copy(o, p) PROVE body' = body
        BY <4>2 DEF Copy, promise
      <4>. QED BY <1>2, <4>1, <4>2 DEF Next, vars
    <3>. QED BY <2>0, <2>1, <3>1 DEF Stream!streamVars
  <2>2. CASE Careful
    <3>. USE <2>0, <2>2
    <3>0. IInv
      BY <1>2 DEF GInv
    <3>1. ASSUME NEW o \in Objects, Throws(o) PROVE Stream!Fail
      BY <3>0, <3>1, ThrowsFacts DEF Throws, Stream!Fail
    <3>2. ASSUME NEW o \in Objects, Get(o) PROVE Stream!Deliver
      <4>1. /\ ~failed /\ UNCHANGED promise /\ Len(delivered) + 1 = pos
            /\ delivered' = Append(delivered, body.values[Len(delivered) + 1])
        BY <3>0, <3>2, GetFacts
      <4>2. pos \in 0 .. Len(body.values) /\ Len(delivered) \in Nat /\ Len(body.values) \in Nat
        BY <3>0, BodyFacts DEF IInv, Types
      <4>3. UNCHANGED <<body, failed>>
        BY <3>2, <4>1 DEF Get, promise
      <4>. QED BY <4>1, <4>2, <4>3 DEF Stream!Deliver
    <3>3. ASSUME NEW o \in Objects, Bool(o) PROVE UNCHANGED Stream!streamVars
      BY <3>3 DEF Bool, FillCached, FillResumed, Resume, promise, Stream!streamVars
    <3>4. ASSUME NEW o \in Objects, Breaks(o) \/ Destroy(o) PROVE UNCHANGED Stream!streamVars
      BY <3>4 DEF Breaks, Destroy, promise, Stream!streamVars
    <3>5. ASSUME NEW o \in Objects, NEW p \in Objects, Copy(o, p) PROVE UNCHANGED Stream!streamVars
      BY <3>5 DEF Copy, promise, Stream!streamVars
    <3>6. CASE UNCHANGED vars
      BY <3>6 DEF vars, Stream!streamVars
    <3>. QED BY <1>2, <3>1, <3>2, <3>3, <3>4, <3>5, <3>6 DEF Next, Stream!Next
  <2>. QED BY <2>1, <2>2
<1>. QED BY Invariance, <1>1, <1>2, PTL DEF Spec, ImplementsStream, Stream!Spec

-----------------------------------------------------------------------------
(* Sets of natural numbers and recursion over them.                         *)
\* Natural numbers are well-founded: a set of them has a least one,
LEMMA LeastOne ==
  ASSUME NEW T, T \subseteq Nat, T # {}
  PROVE  \E x \in T : \A y \in T : x <= y
<1>1. \E R : IsWellFoundedOn(R, Nat) /\ R = {ss \in Nat \X Nat : ss[1] < ss[2]}
  BY NatLessThanWellFounded DEF OpToRel
<1>2. PICK R : IsWellFoundedOn(R, Nat) /\ R = {ss \in Nat \X Nat : ss[1] < ss[2]}
  BY <1>1
<1>3. \E x \in T : \A y \in T : ~(<<y, x>> \in R)
  BY <1>2, WFMin
<1>4. ASSUME NEW x \in T, NEW y \in T, ~(<<y, x>> \in R) PROVE x <= y
  BY <1>2, <1>4
<1>. QED BY <1>3, <1>4

\* and a set closed under the successor has them all.
LEMMA Induction ==
  ASSUME NEW T, T \subseteq Nat, 0 \in T, \A n \in T : n + 1 \in T
  PROVE  \A n \in Nat : n \in T
<1>. SUFFICES ASSUME NEW m \in Nat, m \notin T PROVE FALSE
  OBVIOUS
<1>1. PICK x \in Nat \ T : \A y \in Nat \ T : x <= y
  BY LeastOne
<1>2. x # 0 /\ x - 1 \in Nat
  BY <1>1
<1>3. x - 1 \in T
  BY <1>1, <1>2
<1>. QED BY <1>1, <1>2, <1>3

\* A recursion over the natural numbers has a solution.
LEMMA Iterates ==
  ASSUME NEW S, NEW b \in S, NEW G \in [S -> S]
  PROVE  \E h \in [Nat -> S] : \A k \in Nat : h[k] = IF k < 2 THEN b ELSE G[h[k - 1]]
<1>. DEFINE Obeys(g, n) == \A k \in 0 .. n : g[k] = IF k < 2 THEN b ELSE G[g[k - 1]]
            T == {n \in Nat : \E g \in [0 .. n -> S] : Obeys(g, n)}
<1>1. \A n \in Nat : n \in T
  <2>1. 0 \in T
    <3>1. [k \in 0 .. 0 |-> b] \in [0 .. 0 -> S] /\ Obeys([k \in 0 .. 0 |-> b], 0)
      OBVIOUS
    <3>. QED BY <3>1
  <2>2. ASSUME NEW n \in T PROVE n + 1 \in T
    <3>1. PICK g \in [0 .. n -> S] : Obeys(g, n)
      OBVIOUS
    <3>. DEFINE e == IF n + 1 < 2 THEN b ELSE G[g[n]]
                h == [k \in 0 .. n + 1 |-> IF k = n + 1 THEN e ELSE g[k]]
    <3>2. n \in Nat /\ e \in S
      OBVIOUS
    <3>3. h \in [0 .. n + 1 -> S]
      BY <3>2
    <3>4. ASSUME NEW k \in 0 .. n + 1 PROVE h[k] = IF k < 2 THEN b ELSE G[h[k - 1]]
      <4>1. CASE k = n + 1
        BY <3>2, <4>1
      <4>2. CASE k # n + 1
        <5>1. k \in 0 .. n /\ h[k] = g[k] /\ (k >= 2 => h[k - 1] = g[k - 1])
          BY <3>2, <4>2
        <5>. QED BY <3>1, <5>1
      <4>. QED BY <4>1, <4>2
    <3>5. Obeys(h, n + 1) /\ n + 1 \in Nat
      BY <3>2, <3>4
    <3>. HIDE DEF h, Obeys
    <3>. QED BY <3>3, <3>5
  <2>. HIDE DEF T
  <2>3. T \subseteq Nat
    BY DEF T
  <2>. QED BY <2>1, <2>2, <2>3, Induction
<1>. DEFINE upTo(n) == CHOOSE g \in [0 .. n -> S] : Obeys(g, n)
            h == [n \in Nat |-> upTo(n)[n]]
<1>2. \A n \in Nat : upTo(n) \in [0 .. n -> S] /\ Obeys(upTo(n), n)
  BY <1>1, Zenon
<1>. HIDE DEF upTo
<1>3. ASSUME NEW m \in Nat, NEW n \in Nat, n <= m PROVE \A k \in Nat : k <= n => upTo(n)[k] = upTo(m)[k]
  <2>. DEFINE U == {k \in Nat : k <= n => upTo(n)[k] = upTo(m)[k]}
  <2>1. 0 \in U
    BY <1>2, <1>3
  <2>2. ASSUME NEW k \in U PROVE k + 1 \in U
    BY <1>2, <1>3
  <2>. HIDE DEF U
  <2>3. U \subseteq Nat
    BY DEF U
  <2>4. \A k \in Nat : k \in U
    BY <2>1, <2>2, <2>3, Induction
  <2>. QED BY <2>4 DEF U
<1>4. h \in [Nat -> S]
  BY <1>2
<1>5. ASSUME NEW k \in Nat PROVE h[k] = IF k < 2 THEN b ELSE G[h[k - 1]]
  <2>1. h[k] = IF k < 2 THEN b ELSE G[upTo(k)[k - 1]]
    BY <1>2
  <2>2. k >= 2 => upTo(k)[k - 1] = upTo(k - 1)[k - 1]
    BY <1>3
  <2>. QED BY <2>1, <2>2
<1>. QED BY <1>4, <1>5

-----------------------------------------------------------------------------
(* Numbers as limbs: four of 16 bits, the uint64_t of Generator.hpp 97-98,  *)
(* and a fifth for what overflows.                                          *)
Limbs == {x \in [1 .. 5 -> Nat] : \A i \in 1 .. 4 : x[i] < Limb}
Value(x) == x[1] + Limb * (x[2] + Limb * (x[3] + Limb * (x[4] + Limb * x[5])))

LEMMA LimbIs == Limb \in Nat /\ Limb > 0
BY SMT DEF Limb

LEMMA LimbSquared == Limb * Limb = 4294967296
BY SMT DEF Limb

\* A column of the sum leaves a limb and carries the rest.
LEMMA Column ==
  ASSUME NEW s \in Nat
  PROVE  /\ s \div Limb \in Nat /\ s % Limb \in Nat /\ s % Limb < Limb
         /\ s = Limb * (s \div Limb) + (s % Limb)
<1>1. \A c, i \in Nat : c > 0 => i \div c \in Nat /\ i % c \in 0 .. c - 1
  BY SMT
<1>2. \A c, i \in Nat : c > 0 => i = c * (i \div c) + (i % c)
  BY Z3
<1>3. s \div Limb \in Nat /\ s % Limb \in 0 .. Limb - 1
  BY <1>1, LimbIs
<1>4. s = Limb * (s \div Limb) + (s % Limb)
  BY <1>2, LimbIs
<1>. QED BY <1>3, <1>4, LimbIs

LEMMA Distribute == \A p, q, r \in Nat : Limb * (p + q + r) = Limb * p + Limb * q + Limb * r
<1>1. \A l, p, q, r \in Nat : l * (p + q + r) = l * p + l * q + l * r
  BY SMT
<1>. QED BY <1>1, LimbIs

LEMMA Columns ==
  ASSUME NEW s \in Nat
  PROVE  \E c, r \in Nat : c = s \div Limb /\ r = s % Limb /\ r < Limb /\ s = Limb * c + r
BY Column

\* The sum of limbs is the limbs of the sum (101).
LEMMA WideAdds ==
  ASSUME NEW x \in Limbs, NEW y \in Limbs
  PROVE  Wide(x, y) \in Limbs /\ Value(Wide(x, y)) = Value(x) + Value(y)
<1>x. PICK a1, a2, a3, a4, a5 \in Nat : x[1] = a1 /\ x[2] = a2 /\ x[3] = a3 /\ x[4] = a4 /\ x[5] = a5
  <2>1. x[1] \in Nat /\ x[2] \in Nat /\ x[3] \in Nat /\ x[4] \in Nat /\ x[5] \in Nat
    BY DEF Limbs
  <2>. QED BY <2>1
<1>y. PICK b1, b2, b3, b4, b5 \in Nat : y[1] = b1 /\ y[2] = b2 /\ y[3] = b3 /\ y[4] = b4 /\ y[5] = b5
  <2>1. y[1] \in Nat /\ y[2] \in Nat /\ y[3] \in Nat /\ y[4] \in Nat /\ y[5] \in Nat
    BY DEF Limbs
  <2>. QED BY <2>1
<1>1. PICK c1, r1 \in Nat : /\ c1 = (a1 + b1) \div Limb /\ r1 = (a1 + b1) % Limb /\ r1 < Limb
                           /\ a1 + b1 = Limb * c1 + r1
  <2>1. a1 + b1 \in Nat
    OBVIOUS
  <2>. QED BY <2>1, Columns
<1>2. PICK c2, r2 \in Nat : /\ c2 = (a2 + b2 + c1) \div Limb /\ r2 = (a2 + b2 + c1) % Limb /\ r2 < Limb
                           /\ a2 + b2 + c1 = Limb * c2 + r2
  <2>1. a2 + b2 + c1 \in Nat
    OBVIOUS
  <2>. QED BY <2>1, Columns
<1>3. PICK c3, r3 \in Nat : /\ c3 = (a3 + b3 + c2) \div Limb /\ r3 = (a3 + b3 + c2) % Limb /\ r3 < Limb
                           /\ a3 + b3 + c2 = Limb * c3 + r3
  <2>1. a3 + b3 + c2 \in Nat
    OBVIOUS
  <2>. QED BY <2>1, Columns
<1>4. PICK c4, r4 \in Nat : /\ c4 = (a4 + b4 + c3) \div Limb /\ r4 = (a4 + b4 + c3) % Limb /\ r4 < Limb
                           /\ a4 + b4 + c3 = Limb * c4 + r4
  <2>1. a4 + b4 + c3 \in Nat
    OBVIOUS
  <2>. QED BY <2>1, Columns
<1>. DEFINE w == <<r1, r2, r3, r4, c4 + a5 + b5>>
<1>w. Wide(x, y) = w
  BY <1>x, <1>y, <1>1, <1>2, <1>3, <1>4 DEF Wide, Exact
<1>5. w \in Limbs
  <2>1. PICK c \in Nat : c = c4 + a5 + b5
    OBVIOUS
  <2>2. PICK v : v = <<r1, r2, r3, r4, c>>
    OBVIOUS
  <2>3. v \in [1 .. 5 -> Nat]
    BY <2>2
  <2>4. v[1] < Limb /\ v[2] < Limb /\ v[3] < Limb /\ v[4] < Limb
    BY <1>1, <1>2, <1>3, <1>4, <2>2
  <2>5. v \in Limbs
    BY <2>3, <2>4 DEF Limbs
  <2>. QED BY <2>1, <2>2, <2>5
<1>6. Value(w) = Value(x) + Value(y)
  <2>0. \A a, b \in Nat : a + Limb * b \in Nat
    BY LimbIs
  <2>1. PICK p4, q4 \in Nat : p4 = a4 + Limb * a5 /\ q4 = b4 + Limb * b5
    BY <2>0
  <2>2. PICK p3, q3 \in Nat : p3 = a3 + Limb * p4 /\ q3 = b3 + Limb * q4
    BY <2>0
  <2>3. PICK p2, q2 \in Nat : p2 = a2 + Limb * p3 /\ q2 = b2 + Limb * q3
    BY <2>0
  <2>4. PICK p1, q1 \in Nat : p1 = a1 + Limb * p2 /\ q1 = b1 + Limb * q2
    BY <2>0
  <2>5. r4 + Limb * (c4 + a5 + b5) = p4 + q4 + c3
    <3>1. Limb * (c4 + a5 + b5) = Limb * c4 + Limb * a5 + Limb * b5
      BY Distribute
    <3>. QED BY <1>4, <2>1, <3>1, LimbIs
  <2>6. r3 + Limb * (p4 + q4 + c3) = p3 + q3 + c2
    <3>1. Limb * (p4 + q4 + c3) = Limb * p4 + Limb * q4 + Limb * c3
      BY Distribute
    <3>. QED BY <1>3, <2>2, <3>1, LimbIs
  <2>7. r2 + Limb * (p3 + q3 + c2) = p2 + q2 + c1
    <3>1. Limb * (p3 + q3 + c2) = Limb * p3 + Limb * q3 + Limb * c2
      BY Distribute
    <3>. QED BY <1>2, <2>3, <3>1, LimbIs
  <2>8. r1 + Limb * (p2 + q2 + c1) = p1 + q1
    <3>1. Limb * (p2 + q2 + c1) = Limb * p2 + Limb * q2 + Limb * c1
      BY Distribute
    <3>. QED BY <1>1, <2>4, <3>1, LimbIs
  <2>9. Value(w) = p1 + q1
    BY <2>5, <2>6, <2>7, <2>8 DEF Value
  <2>10. Value(x) = p1 /\ Value(y) = q1
    BY <1>x, <1>y, <2>1, <2>2, <2>3, <2>4 DEF Value
  <2>. QED BY <2>9, <2>10
<1>. QED BY <1>w, <1>5, <1>6

LEMMA ValueNat == ASSUME NEW x \in Limbs PROVE Value(x) \in Nat
<1>0. x[1] \in Nat /\ x[2] \in Nat /\ x[3] \in Nat /\ x[4] \in Nat /\ x[5] \in Nat
  BY DEF Limbs
<1>1. \A a, b \in Nat : a + Limb * b \in Nat
  BY LimbIs
<1>. QED BY <1>0, <1>1 DEF Value

\* The most significant digit decides.
LEMMA Digit ==
  ASSUME NEW a \in Nat, NEW b \in Nat, NEW m \in Nat
  PROVE  /\ a < Limb /\ b < m => a + Limb * b < Limb * m
         /\ b >= m => a + Limb * b >= Limb * m
<1>1. \A l, p, q \in Nat : p <= q => l * p <= l * q /\ l * (p + 1) = l * p + l
  BY SMT
<1>2. ASSUME a < Limb, b < m PROVE a + Limb * b < Limb * m
  <2>1. Limb * (b + 1) <= Limb * m /\ Limb * (b + 1) = Limb * b + Limb
    BY <1>1, <1>2, LimbIs
  <2>2. Limb * b \in Nat /\ Limb * m \in Nat
    BY LimbIs
  <2>. QED BY <1>2, <2>1, <2>2, LimbIs
<1>3. ASSUME b >= m PROVE a + Limb * b >= Limb * m
  <2>1. Limb * m <= Limb * b
    BY <1>1, <1>3, LimbIs
  <2>2. Limb * b \in Nat /\ Limb * m \in Nat
    BY LimbIs
  <2>. QED BY <2>1, <2>2
<1>. QED BY <1>2, <1>3

\* 2^64
Bits64 == Limb * (Limb * (Limb * Limb))

\* A number fits in four limbs if it is below 2^64.
LEMMA FifthLimb ==
  ASSUME NEW x \in Limbs
  PROVE  x[5] = 0 <=> Value(x) < Bits64
<1>. DEFINE X4 == x[4] + Limb * x[5]
            X3 == x[3] + Limb * X4
            X2 == x[2] + Limb * X3
            B2 == Limb * Limb
            B3 == Limb * B2
<1>0. /\ x[1] \in Nat /\ x[2] \in Nat /\ x[3] \in Nat /\ x[4] \in Nat /\ x[5] \in Nat
      /\ x[1] < Limb /\ x[2] < Limb /\ x[3] < Limb /\ x[4] < Limb
  BY DEF Limbs
<1>1. X4 \in Nat /\ X3 \in Nat /\ X2 \in Nat /\ B2 \in Nat /\ B3 \in Nat
  <2>1. \A a, b \in Nat : a + Limb * b \in Nat /\ Limb * b \in Nat
    BY LimbIs
  <2>2. X4 \in Nat
    BY <1>0, <2>1
  <2>3. X3 \in Nat
    BY <1>0, <2>1, <2>2
  <2>. QED BY <1>0, <2>1, <2>3, LimbIs
<1>2. Value(x) = x[1] + Limb * X2 /\ Bits64 = Limb * B3
  BY DEF Value, Bits64
<1>3. CASE x[5] = 0
  <2>1. X4 < Limb
    BY <1>0, <1>3, LimbIs
  <2>. HIDE DEF X4
  <2>2. X3 < B2
    BY <1>0, <1>1, <2>1, LimbIs, Digit
  <2>. HIDE DEF X3, B2
  <2>3. X2 < B3
    BY <1>0, <1>1, <2>2, Digit
  <2>. HIDE DEF X2, B3
  <2>4. x[1] + Limb * X2 < Limb * B3
    BY <1>0, <1>1, <2>3, Digit
  <2>. QED BY <1>2, <1>3, <2>4
<1>4. CASE x[5] >= 1
  <2>1. X4 >= Limb
    <3>1. Limb * 1 = Limb
      BY LimbIs
    <3>. QED BY <1>0, <1>4, <3>1, Digit
  <2>. HIDE DEF X4
  <2>2. X3 >= B2
    BY <1>0, <1>1, <2>1, LimbIs, Digit
  <2>. HIDE DEF X3, B2
  <2>3. X2 >= B3
    BY <1>0, <1>1, <2>2, Digit
  <2>. HIDE DEF X2, B3
  <2>4. x[1] + Limb * X2 >= Limb * B3
    BY <1>0, <1>1, <2>3, Digit
  <2>5. x[1] + Limb * X2 \in Nat /\ Limb * B3 \in Nat
    BY <1>0, <1>1, LimbIs
  <2>. QED BY <1>2, <1>4, <2>4, <2>5
<1>. QED BY <1>0, <1>3, <1>4

-----------------------------------------------------------------------------
(* The Fibonacci numbers, and which of them fit in 64 bits.                 *)
Start == << <<0, 0, 0, 0, 0>>, <<1, 0, 0, 0, 0>> >>
\* Pair is what its equation says: a solution is exhibited.
LEMMA PairIs ==
  /\ Pair \in [Nat -> Limbs \X Limbs]
  /\ \A k \in Nat : Pair[k] = IF k < 2 THEN Start ELSE <<Pair[k - 1][2], Wide(Pair[k - 1][1], Pair[k - 1][2])>>
<1>. DEFINE S == Limbs \X Limbs
            G == [p \in S |-> <<p[2], Wide(p[1], p[2])>>]
<1>1. Start \in S
  <2>1. <<0, 0, 0, 0, 0>> \in Limbs /\ <<1, 0, 0, 0, 0>> \in Limbs
    BY SMT DEF Limbs, Limb
  <2>. QED BY <2>1 DEF Start
<1>2. G \in [S -> S]
  BY WideAdds
<1>. HIDE DEF S, G
<1>3. PICK h \in [Nat -> S] : \A k \in Nat : h[k] = IF k < 2 THEN Start ELSE G[h[k - 1]]
  BY <1>1, <1>2, Iterates
<1>. DEFINE Steps(g) == [k \in Nat |-> IF k < 2 THEN Start ELSE <<g[k - 1][2], Wide(g[k - 1][1], g[k - 1][2])>>]
<1>4. h = Steps(h)
  <2>1. ASSUME NEW k \in Nat, k >= 2 PROVE h[k] = <<h[k - 1][2], Wide(h[k - 1][1], h[k - 1][2])>>
    <3>1. h[k] = G[h[k - 1]] /\ h[k - 1] \in S
      BY <1>3, <2>1
    <3>2. \A p \in S : G[p] = <<p[2], Wide(p[1], p[2])>>
      BY DEF G
    <3>. QED BY <3>1, <3>2
  <2>2. \A k \in Nat : h[k] = IF k < 2 THEN Start ELSE <<h[k - 1][2], Wide(h[k - 1][1], h[k - 1][2])>>
    <3>. SUFFICES ASSUME NEW k \in Nat
                  PROVE  h[k] = IF k < 2 THEN Start ELSE <<h[k - 1][2], Wide(h[k - 1][1], h[k - 1][2])>>
      OBVIOUS
    <3>1. CASE k < 2
      BY <1>3, <3>1
    <3>2. CASE k >= 2
      <4>1. h[k] = <<h[k - 1][2], Wide(h[k - 1][1], h[k - 1][2])>> /\ ~(k < 2)
        BY <2>1, <3>2
      <4>. QED BY <4>1, Zenon
    <3>. QED BY <3>1, <3>2
  <2>. QED BY <2>2
<1>5. Pair = Steps(Pair)
  BY <1>4, Zenon DEF Pair, Start
<1>6. \A k \in Nat : Pair[k] = IF k < 2 THEN Start ELSE <<Pair[k - 1][2], Wide(Pair[k - 1][1], Pair[k - 1][2])>>
  BY <1>5
<1>7. \A k \in Nat : Pair[k] = h[k]
  <2>. DEFINE T == {k \in Nat : Pair[k] = h[k]}
  <2>1. 0 \in T
    <3>1. 0 \in Nat /\ 0 < 2
      OBVIOUS
    <3>2. h[0] = Start
      BY <1>3, <3>1
    <3>3. Pair[0] = Start
      BY <1>6, <3>1
    <3>. QED BY <3>2, <3>3
  <2>2. ASSUME NEW k \in T PROVE k + 1 \in T
    <3>1. k \in Nat /\ Pair[k] = h[k] /\ (k + 1) - 1 = k
      OBVIOUS
    <3>2. h[k + 1] = Steps(h)[k + 1] /\ Pair[k + 1] = Steps(Pair)[k + 1]
      BY <1>4, <1>5
    <3>. QED BY <3>1, <3>2
  <2>. HIDE DEF T
  <2>3. \A k \in Nat : k \in T
    <3>1. T \subseteq Nat
      BY DEF T
    <3>. QED BY <2>1, <2>2, <3>1, Induction
  <2>. QED BY <2>3 DEF T
<1>8. Pair \in [Nat -> S]
  BY <1>3, <1>5, <1>7
<1>. QED BY <1>6, <1>8 DEF S

\* Ten elements on, by the two at hand.
LEMMA Ten ==
  ASSUME NEW f \in [Nat -> Nat], \A j \in Nat : j >= 3 => f[j] = f[j - 2] + f[j - 1], NEW k \in Nat, k >= 1
  PROVE  f[k + 10] = 34 * f[k] + 55 * f[k + 1] /\ f[k + 11] = 55 * f[k] + 89 * f[k + 1]
<1>1. ASSUME NEW j \in Nat, j >= 1 PROVE f[j + 2] = f[j] + f[j + 1]
  <2>1. j + 2 \in Nat /\ j + 2 >= 3 /\ (j + 2) - 2 = j /\ (j + 2) - 1 = j + 1
    BY <1>1
  <2>. QED BY <2>1
<1>2. /\ f[k] \in Nat /\ f[k + 1] \in Nat
      /\ f[k + 2] = f[k] + f[k + 1] /\ f[k + 3] = f[k + 1] + f[k + 2]
      /\ f[k + 4] = f[k + 2] + f[k + 3] /\ f[k + 5] = f[k + 3] + f[k + 4]
      /\ f[k + 6] = f[k + 4] + f[k + 5] /\ f[k + 7] = f[k + 5] + f[k + 6]
      /\ f[k + 8] = f[k + 6] + f[k + 7] /\ f[k + 9] = f[k + 7] + f[k + 8]
      /\ f[k + 10] = f[k + 8] + f[k + 9] /\ f[k + 11] = f[k + 9] + f[k + 10]
  <2>1. ASSUME NEW m \in 2 .. 11 PROVE f[k + m] = f[k + (m - 2)] + f[k + (m - 1)]
    <3>1. /\ k + (m - 2) \in Nat /\ k + (m - 2) >= 1
          /\ (k + (m - 2)) + 2 = k + m /\ (k + (m - 2)) + 1 = k + (m - 1)
      BY SMT
    <3>. QED BY <1>1, <3>1
  <2>2. f[k] \in Nat /\ f[k + 1] \in Nat
    BY SMT
  <2>. QED BY <2>1, <2>2, SMT
<1>3. PICK a, b \in Nat : a = f[k] /\ b = f[k + 1]
  BY <1>2
<1>4. f[k + 2] = a + b /\ f[k + 3] = a + 2 * b
  BY <1>2, <1>3
<1>5. f[k + 4] = 2 * a + 3 * b /\ f[k + 5] = 3 * a + 5 * b
  BY <1>2, <1>4
<1>6. f[k + 6] = 5 * a + 8 * b /\ f[k + 7] = 8 * a + 13 * b
  BY <1>2, <1>5
<1>7. f[k + 8] = 13 * a + 21 * b /\ f[k + 9] = 21 * a + 34 * b
  BY <1>2, <1>6
<1>8. f[k + 10] = 34 * a + 55 * b /\ f[k + 11] = 55 * a + 89 * b
  BY <1>2, <1>7
<1>. QED BY <1>3, <1>8

\* The 94th and 95th element by the 63rd and 64th, which are known in terms of
\* Q = 2^32: literals stay below 2^62, as the solver needs them.
LEMMA Sizes ==
  ASSUME NEW A \in Nat, NEW B \in Nat, NEW Q \in Nat, Q >= 4294967296, Q <= 4294967296
  PROVE  /\ A <= 944 * Q /\ B <= 1527 * Q => 832040 * A + 1346269 * B < Q * Q
         /\ A >= 943 * Q /\ B >= 1526 * Q => 1346269 * A + 2178309 * B >= Q * Q
<1>1. \A p, q, r \in Nat : p <= q => p * r <= q * r
  BY SMT
<1>2. 2841198524 * Q <= Q * Q
  BY <1>1, SMT
<1>3. ASSUME A <= 944 * Q, B <= 1527 * Q PROVE 832040 * A + 1346269 * B < Q * Q
  <2>1. 832040 * A + 1346269 * B <= 2841198523 * Q
    BY <1>3, SMT
  <2>. QED BY <1>2, <2>1, SMT
<1>4. ASSUME A >= 943 * Q, B >= 1526 * Q PROVE 1346269 * A + 2178309 * B >= Q * Q
  <2>1. 1346269 * A + 2178309 * B >= 4593631201 * Q
    BY <1>4, SMT
  <2>. QED BY <1>1, <2>1, SMT
<1>. QED BY <1>3, <1>4

\* Counted from 1, the 94th is the last below 2^64 (80).
LEMMA Grows ==
  ASSUME NEW f \in [Nat -> Nat], f[1] = 0, f[2] = 1, \A j \in Nat : j >= 3 => f[j] = f[j - 2] + f[j - 1]
  PROVE  \A k \in Nat : k >= 1 => (k <= 94 <=> f[k] < Bits64)
<1>1. ASSUME NEW k \in Nat, k >= 1 PROVE \A d \in Nat : f[k] <= f[k + d]
  <2>. DEFINE T == {d \in Nat : f[k] <= f[k + d]}
  <2>1. 0 \in T
    OBVIOUS
  <2>2. ASSUME NEW d \in T PROVE d + 1 \in T
    <3>1. k + d \in Nat /\ k + d >= 1 /\ k + (d + 1) = (k + d) + 1 /\ f[k] <= f[k + d] /\ d + 1 \in Nat
      BY <1>1
    <3>2. f[k + d] <= f[(k + d) + 1]
      <4>1. ASSUME NEW j \in Nat, j >= 1 PROVE f[j] <= f[j + 1]
        <5>1. CASE j = 1
          BY <5>1
        <5>2. CASE j >= 2
          <6>1. j + 1 \in Nat /\ j + 1 >= 3 /\ (j + 1) - 2 = j - 1 /\ (j + 1) - 1 = j /\ j - 1 \in Nat
            BY <5>2
          <6>2. f[j + 1] = f[j - 1] + f[j]
            BY <6>1
          <6>3. f[j - 1] \in Nat /\ f[j] \in Nat
            BY <6>1
          <6>. QED BY <6>2, <6>3
        <5>. QED BY <4>1, <5>1, <5>2
      <4>. QED BY <3>1, <4>1
    <3>3. f[k] \in Nat /\ f[k + d] \in Nat /\ f[(k + d) + 1] \in Nat
      BY <3>1
    <3>4. f[k] <= f[k + (d + 1)]
      BY <3>1, <3>2, <3>3
    <3>. QED BY <3>1, <3>4
  <2>. HIDE DEF T
  <2>3. T \subseteq Nat
    BY DEF T
  <2>4. \A d \in Nat : d \in T
    BY <2>1, <2>2, <2>3, Induction
  <2>. QED BY <2>4 DEF T
<1>t. ASSUME NEW k \in Nat, k >= 1, NEW j \in Nat, j = k + 10
      PROVE  f[j] = 34 * f[k] + 55 * f[k + 1] /\ f[j + 1] = 55 * f[k] + 89 * f[k + 1]
  <2>1. f[k + 10] = 34 * f[k] + 55 * f[k + 1] /\ f[k + 11] = 55 * f[k] + 89 * f[k + 1]
    BY <1>t, Ten
  <2>2. j + 1 = k + 11
    BY <1>t
  <2>. QED BY <1>t, <2>1, <2>2
<1>u. ASSUME NEW k \in Nat, k >= 1, NEW j \in Nat, k <= j PROVE f[k] <= f[j]
  <2>1. j - k \in Nat /\ k + (j - k) = j
    BY <1>u
  <2>2. f[k] <= f[k + (j - k)]
    BY <1>1, <1>u, <2>1
  <2>. QED BY <2>1, <2>2
<1>2. f[11] = 55 /\ f[12] = 89
  <2>1. f[11] = 34 * f[1] + 55 * f[2] /\ f[12] = 55 * f[1] + 89 * f[2]
    BY <1>t, SMT
  <2>. QED BY <2>1, SMT
<1>3. f[21] = 6765 /\ f[22] = 10946
  <2>1. f[21] = 34 * f[11] + 55 * f[12] /\ f[22] = 55 * f[11] + 89 * f[12]
    BY <1>t, SMT
  <2>. QED BY <1>2, <2>1, SMT
<1>4. f[31] = 832040 /\ f[32] = 1346269
  <2>1. f[31] = 34 * f[21] + 55 * f[22] /\ f[32] = 55 * f[21] + 89 * f[22]
    BY <1>t, SMT
  <2>. QED BY <1>3, <2>1, SMT
<1>5. f[41] = 102334155 /\ f[42] = 165580141
  <2>1. f[41] = 34 * f[31] + 55 * f[32] /\ f[42] = 55 * f[31] + 89 * f[32]
    BY <1>t, SMT
  <2>. QED BY <1>4, <2>1, SMT
<1>6. f[51] = 12586269025 /\ f[52] = 20365011074
  <2>1. f[51] = 34 * f[41] + 55 * f[42] /\ f[52] = 55 * f[41] + 89 * f[42]
    BY <1>t, SMT
  <2>. QED BY <1>5, <2>1, SMT
<1>7. f[61] = 1548008755920 /\ f[62] = 2504730781961
  <2>1. f[61] = 34 * f[51] + 55 * f[52] /\ f[62] = 55 * f[51] + 89 * f[52]
    BY <1>t, SMT
  <2>. QED BY <1>6, <2>1, SMT
<1>8. f[63] = 4052739537881 /\ f[64] = 6557470319842
  <2>1. f[63] = f[61] + f[62] /\ f[64] = f[62] + f[63]
    BY SMT
  <2>. QED BY <1>7, <2>1, SMT
<1>9. PICK A, B \in Nat : A = f[63] /\ B = f[64]
  OBVIOUS
<1>10. f[94] = 832040 * A + 1346269 * B /\ f[95] = 1346269 * A + 2178309 * B
  <2>1. f[73] = 34 * f[63] + 55 * f[64] /\ f[74] = 55 * f[63] + 89 * f[64]
    BY <1>t, SMT
  <2>2. f[73] = 34 * A + 55 * B /\ f[74] = 55 * A + 89 * B
    BY <1>9, <2>1, SMT
  <2>3. f[83] = 34 * f[73] + 55 * f[74] /\ f[84] = 55 * f[73] + 89 * f[74]
    BY <1>t, SMT
  <2>4. f[83] = 4181 * A + 6765 * B /\ f[84] = 6765 * A + 10946 * B
    BY <2>2, <2>3, SMT
  <2>5. f[93] = 34 * f[83] + 55 * f[84] /\ f[94] = 55 * f[83] + 89 * f[84]
    BY <1>t, SMT
  <2>6. f[93] = 514229 * A + 832040 * B /\ f[94] = 832040 * A + 1346269 * B
    BY <2>4, <2>5, SMT
  <2>7. f[95] = f[93] + f[94]
    BY SMT
  <2>. QED BY <2>6, <2>7, SMT
<1>11. PICK Q \in Nat : Q = Limb * Limb /\ Q >= 4294967296 /\ Q <= 4294967296 /\ Bits64 = Q * Q
  <2>1. \A l \in Nat : l * l \in Nat /\ l * (l * (l * l)) = (l * l) * (l * l)
    BY SMT
  <2>2. Limb * Limb \in Nat /\ Bits64 = (Limb * Limb) * (Limb * Limb)
    BY <2>1, LimbIs DEF Bits64
  <2>3. Limb * Limb >= 4294967296 /\ Limb * Limb <= 4294967296
    BY LimbSquared, SMT
  <2>. QED BY <2>2, <2>3
<1>12. A <= 944 * Q /\ B <= 1527 * Q /\ A >= 943 * Q /\ B >= 1526 * Q
  BY <1>8, <1>9, <1>11, SMT
<1>13. f[94] < Bits64 /\ f[95] >= Bits64
  BY <1>10, <1>11, <1>12, Sizes, SMT
<1>14. Bits64 \in Nat
  BY <1>11, SMT
<1>. SUFFICES ASSUME NEW k \in Nat, k >= 1 PROVE k <= 94 <=> f[k] < Bits64
  OBVIOUS
<1>15. CASE k <= 94
  <2>1. f[k] <= f[94] /\ f[k] \in Nat /\ f[94] \in Nat
    BY <1>u, <1>15, SMT
  <2>. QED BY <1>13, <1>14, <1>15, <2>1, SMT
<1>16. CASE k >= 95
  <2>1. f[95] <= f[k] /\ f[k] \in Nat /\ f[95] \in Nat
    BY <1>u, <1>16, SMT
  <2>. QED BY <1>13, <1>14, <1>16, <2>1, SMT
<1>. QED BY <1>15, <1>16, SMT

\* What uint64_t keeps.
Low(x) == <<x[1], x[2], x[3], x[4]>>

LEMMA LowAdds == \A x, y : Low(Wide(x, y)) = Plus(Low(x), Low(y))
<1>. SUFFICES ASSUME NEW x, NEW y PROVE Low(Wide(x, y)) = Plus(Low(x), Low(y))
  OBVIOUS
<1>. DEFINE l == Low(x)
            m == Low(y)
<1>1. /\ l[1] = x[1] /\ l[2] = x[2] /\ l[3] = x[3] /\ l[4] = x[4]
      /\ m[1] = y[1] /\ m[2] = y[2] /\ m[3] = y[3] /\ m[4] = y[4]
  BY DEF Low
<1>. HIDE DEF l, m
<1>2. Exact(l, m) = Exact(x, y)
  BY <1>1, Zenon DEF Exact
<1>3. PICK w : w = Exact(x, y)
  OBVIOUS
<1>4. Plus(l, m) = <<w[1], w[2], w[3], w[4]>>
  BY <1>2, <1>3, Zenon DEF Plus
<1>5. Wide(x, y) = <<w[1], w[2], w[3], w[4], w[5] + x[5] + y[5]>>
  BY <1>3, Zenon DEF Wide
<1>6. Low(Wide(x, y)) = <<w[1], w[2], w[3], w[4]>>
  BY <1>5 DEF Low
<1>. QED BY <1>4, <1>6 DEF l, m

\* The locals of the loop are a pair of elements, in 64 bits (97-106).
LEMMA LoopIs == \A i \in Nat : i >= 2 => Loop[i].s = Low(Pair[i][2])
<1>. DEFINE Locals(p) == [a |-> Low(p[1]), b |-> Low(p[2]), s |-> Low(p[2])]
            Before == [a |-> Zero, b |-> One, s |-> Zero]
            h == [i \in Nat |-> IF i < 2 THEN Before ELSE Locals(Pair[i])]
            Iterations(g) == [i \in Nat |-> IF i < 2 THEN Before ELSE LET l == g[i - 1] IN Iterate(l)]
<1>1. Low(Start[1]) = Before.a /\ Low(Start[2]) = Before.b
  BY Zenon DEF Low, Start, Zero, One
<1>2. ASSUME NEW i \in Nat, i >= 2 PROVE h[i] = Iterate(h[i - 1])
  <2>1. PICK p : p = Pair[i - 1]
    OBVIOUS
  <2>2. h[i - 1].a = Low(p[1]) /\ h[i - 1].b = Low(p[2])
    <3>1. CASE i = 2
      <4>1. i - 1 \in Nat /\ i - 1 < 2
        BY <3>1
      <4>2. p = Start
        BY <2>1, <4>1, PairIs
      <4>3. h[i - 1] = Before
        BY <4>1
      <4>. QED BY <1>1, <4>2, <4>3
    <3>2. CASE i > 2
      <4>1. i - 1 \in Nat /\ ~(i - 1 < 2)
        BY <3>2
      <4>2. h[i - 1] = Locals(p)
        BY <2>1, <4>1
      <4>. QED BY <4>2
    <3>. QED BY <1>2, <3>1, <3>2
  <2>3. Pair[i] = <<p[2], Wide(p[1], p[2])>>
    BY <1>2, <2>1, PairIs
  <2>4. h[i] = [a |-> Low(p[2]), b |-> Low(Wide(p[1], p[2])), s |-> Low(Wide(p[1], p[2]))]
    <3>1. ~(i < 2)
      BY <1>2
    <3>2. h[i] = Locals(Pair[i])
      BY <3>1
    <3>. QED BY <2>3, <3>2
  <2>5. Low(Wide(p[1], p[2])) = Plus(Low(p[1]), Low(p[2]))
    BY LowAdds
  <2>. HIDE DEF h
  <2>6. Iterate(h[i - 1]) = [a |-> h[i - 1].b, b |-> Plus(h[i - 1].a, h[i - 1].b), s |-> Plus(h[i - 1].a, h[i - 1].b)]
    BY Zenon DEF Iterate
  <2>. QED BY <2>2, <2>4, <2>5, <2>6
<1>3. h = Iterations(h)
  <2>1. \A i \in Nat : h[i] = IF i < 2 THEN Before ELSE Iterate(h[i - 1])
    <3>. SUFFICES ASSUME NEW i \in Nat PROVE h[i] = IF i < 2 THEN Before ELSE Iterate(h[i - 1])
      OBVIOUS
    <3>1. CASE i < 2
      <4>1. h[i] = Before
        BY <3>1
      <4>. QED BY <3>1, <4>1
    <3>2. CASE ~(i < 2)
      <4>1. h[i] = Iterate(h[i - 1])
        BY <1>2, <3>2
      <4>. QED BY <3>2, <4>1
    <3>. QED BY <3>1, <3>2
  <2>2. h = [i \in Nat |-> h[i]]
    OBVIOUS
  <2>. HIDE DEF h
  <2>. QED BY <2>1, <2>2
<1>. HIDE DEF h
<1>4. Loop = Iterations(Loop)
  BY <1>3, Zenon DEF Loop
<1>5. \A i \in Nat : Loop[i] = h[i]
  <2>. DEFINE T == {i \in Nat : Loop[i] = h[i]}
  <2>1. 0 \in T
    <3>1. 0 \in Nat /\ 0 < 2
      OBVIOUS
    <3>2. Loop[0] = Before /\ h[0] = Before
      <4>1. Iterations(Loop)[0] = Before /\ Iterations(h)[0] = Before
        BY <3>1
      <4>. QED BY <1>3, <1>4, <4>1
    <3>. QED BY <3>2
  <2>2. ASSUME NEW i \in T PROVE i + 1 \in T
    <3>1. i \in Nat /\ Loop[i] = h[i] /\ (i + 1) - 1 = i /\ i + 1 \in Nat
      OBVIOUS
    <3>2. Loop[i + 1] = Iterations(Loop)[i + 1] /\ h[i + 1] = Iterations(h)[i + 1]
      BY <1>3, <1>4
    <3>3. Iterations(Loop)[i + 1] = Iterations(h)[i + 1]
      BY <3>1
    <3>. QED BY <3>1, <3>2, <3>3
  <2>3. T \subseteq Nat
    OBVIOUS
  <2>. HIDE DEF T
  <2>4. \A i \in Nat : i \in T
    BY <2>1, <2>2, <2>3, Induction
  <2>. QED BY <2>4 DEF T
<1>6. ASSUME NEW i \in Nat, i >= 2 PROVE h[i].s = Low(Pair[i][2])
  <2>1. ~(i < 2)
    BY <1>6
  <2>2. h[i] = Locals(Pair[i])
    BY <2>1 DEF h
  <2>. QED BY <2>2
<1>. QED BY <1>5, <1>6

LEMMA Elements ==
  ASSUME NEW k \in Nat, k >= 1
  PROVE  Element(k) \in Limbs /\ (k <= 94 <=> Element(k)[5] = 0)
<1>. DEFINE f == [j \in Nat |-> Value(Pair[j][1])]
<1>1. \A j \in Nat : Pair[j][1] \in Limbs /\ Pair[j][2] \in Limbs
  BY PairIs
<1>2. f \in [Nat -> Nat]
  BY <1>1, ValueNat
<1>3. ASSUME NEW j \in Nat, j >= 3 PROVE f[j] = f[j - 2] + f[j - 1]
  <2>1. j - 1 \in Nat /\ j - 2 \in Nat /\ ~(j - 1 < 2) /\ ~(j < 2) /\ (j - 1) - 1 = j - 2
    BY <1>3
  <2>2. Pair[j][1] = Pair[j - 1][2]
    BY <2>1, PairIs
  <2>3. Pair[j - 1] = <<Pair[j - 2][2], Wide(Pair[j - 2][1], Pair[j - 2][2])>>
    BY <2>1, PairIs
  <2>4. Pair[j - 1][1] = Pair[j - 2][2] /\ Pair[j - 1][2] = Wide(Pair[j - 2][1], Pair[j - 2][2])
    BY <2>3
  <2>5. Value(Wide(Pair[j - 2][1], Pair[j - 2][2])) = Value(Pair[j - 2][1]) + Value(Pair[j - 2][2])
    BY <1>1, <2>1, WideAdds
  <2>. QED BY <2>1, <2>2, <2>4, <2>5
<1>4. f[1] = 0 /\ f[2] = 1
  <2>1. Pair[1] = Start
    BY PairIs
  <2>2. Pair[2] = <<Pair[1][2], Wide(Pair[1][1], Pair[1][2])>>
    <3>1. 2 \in Nat /\ ~(2 < 2) /\ 2 - 1 = 1
      BY SMT
    <3>. QED BY <3>1, PairIs
  <2>3. Pair[1][1] = <<0, 0, 0, 0, 0>> /\ Pair[2][1] = <<1, 0, 0, 0, 0>>
    BY <2>1, <2>2 DEF Start
  <2>4. Value(<<0, 0, 0, 0, 0>>) = 0 /\ Value(<<1, 0, 0, 0, 0>>) = 1
    BY LimbIs DEF Value
  <2>. QED BY <2>3, <2>4
<1>5. k <= 94 <=> f[k] < Bits64
  <2>. HIDE DEF f
  <2>. QED BY <1>2, <1>3, <1>4, Grows
<1>6. f[k] = Value(Pair[k][1])
  OBVIOUS
<1>. HIDE DEF f
<1>. QED BY <1>1, <1>5, <1>6, FifthLimb DEF Element

LEMMA Fits == ASSUME NEW x \in Limbs, x[5] = 0 PROVE x = Append(Low(x), 0)
<1>1. x \in [1 .. 5 -> Nat] /\ x[5] = 0
  BY DEF Limbs
<1>2. x[1] \in Nat /\ x[2] \in Nat /\ x[3] \in Nat /\ x[4] \in Nat
  BY <1>1
<1>3. Low(x) \in Seq(Nat)
  BY <1>2 DEF Low
<1>4. Len(Low(x)) = 4 /\ Low(x)[1] = x[1] /\ Low(x)[2] = x[2] /\ Low(x)[3] = x[3] /\ Low(x)[4] = x[4]
  BY DEF Low
<1>5. \A l \in Seq(Nat) :
        /\ Append(l, 0) \in Seq(Nat) /\ Len(Append(l, 0)) = Len(l) + 1
        /\ \A i \in 1 .. Len(l) : Append(l, 0)[i] = l[i]
        /\ Append(l, 0)[Len(l) + 1] = 0
  OBVIOUS
<1>6. PICK l, e : l = Low(x) /\ e = Append(l, 0)
  OBVIOUS
<1>7. /\ e \in Seq(Nat) /\ Len(e) = Len(l) + 1
      /\ \A i \in 1 .. Len(l) : e[i] = l[i]
      /\ e[Len(l) + 1] = 0
  BY <1>3, <1>5, <1>6, Zenon
<1>8. Len(l) = 4 /\ l[1] = x[1] /\ l[2] = x[2] /\ l[3] = x[3] /\ l[4] = x[4]
  BY <1>4, <1>6, Zenon
<1>9. Len(e) = 5
  BY <1>7, <1>8
<1>10. e[1] = x[1] /\ e[2] = x[2] /\ e[3] = x[3] /\ e[4] = x[4]
  BY <1>7, <1>8
<1>11. e[5] = x[5]
  BY <1>1, <1>7, <1>8
<1>12. e \in [1 .. 5 -> Nat]
  <2>1. \A l1 \in Seq(Nat) : l1 \in [1 .. Len(l1) -> Nat]
    OBVIOUS
  <2>2. e \in [1 .. Len(e) -> Nat]
    BY <1>7, <2>1, Zenon
  <2>. QED BY <1>9, <2>2, Zenon
<1>13. e = x
  <2>1. ASSUME NEW i \in 1 .. 5 PROVE e[i] = x[i]
    BY <1>10, <1>11
  <2>. QED BY <1>1, <1>12, <2>1
<1>. QED BY <1>6, <1>13

\* The coroutine yields the first n elements, none truncated (76-106),
LEMMA YieldsElements ==
  ASSUME NEW n \in Nat, ~TooBig(n)
  PROVE  Len(Yields(n)) = n /\ \A k \in 1 .. n : Element(k) = Append(Yields(n)[k], 0)
<1>0. n <= 94
  BY DEF TooBig
<1>1. CASE n = 0
  BY <1>1 DEF Yields
<1>2. CASE n > 0
  <2>. DEFINE yield(k) == CASE k = 1 -> Zero [] k = 2 -> One [] OTHER -> Loop[k - 1].s
  <2>1. Yields(n) = [k \in 1 .. n |-> yield(k)]
    <3>1. ~(n = 0 \/ TooBig(n))
      BY <1>2
    <3>. QED BY <3>1 DEF Yields
  <2>2. ASSUME NEW k \in 1 .. n PROVE yield(k) = Low(Element(k))
    <3>0. Pair[1] = Start /\ Start[1] = <<0, 0, 0, 0, 0>> /\ Start[2] = <<1, 0, 0, 0, 0>>
      BY PairIs DEF Start
    <3>1. CASE k = 1
      <4>1. yield(k) = Zero /\ Element(k) = <<0, 0, 0, 0, 0>>
        BY <3>0, <3>1 DEF Element
      <4>. QED BY <4>1 DEF Low, Zero
    <3>2. CASE k = 2
      <4>1. 2 \in Nat /\ ~(2 < 2) /\ 2 - 1 = 1
        BY SMT
      <4>2. Pair[2][1] = Pair[1][2]
        BY <4>1, PairIs
      <4>3. yield(k) = One /\ Element(k) = <<1, 0, 0, 0, 0>>
        BY <3>0, <3>2, <4>2 DEF Element
      <4>. QED BY <4>3 DEF Low, One
    <3>3. CASE k > 2
      <4>1. k \in Nat /\ ~(k < 2) /\ k - 1 \in Nat /\ k - 1 >= 2
        BY <3>3
      <4>2. Pair[k][1] = Pair[k - 1][2]
        BY <4>1, PairIs
      <4>3. Loop[k - 1].s = Low(Pair[k - 1][2])
        BY <4>1, LoopIs
      <4>4. yield(k) = Loop[k - 1].s
        BY <3>3
      <4>. QED BY <4>2, <4>3, <4>4 DEF Element
    <3>. QED BY <3>1, <3>2, <3>3
  <2>. HIDE DEF yield
  <2>3. Len(Yields(n)) = n
    BY <2>1
  <2>4. ASSUME NEW k \in 1 .. n PROVE Element(k) = Append(Yields(n)[k], 0)
    <3>1. Element(k) \in Limbs /\ Element(k)[5] = 0
      BY <1>0, Elements
    <3>2. Yields(n)[k] = Low(Element(k))
      BY <2>1, <2>2
    <3>. QED BY <3>1, <3>2, Fits
  <2>. QED BY <2>3, <2>4
<1>. QED BY <1>1, <1>2

\* and the n it refuses would have overflowed (80-83).
LEMMA TooBigElements == ASSUME NEW n \in Nat, TooBig(n) PROVE Element(n)[5] > 0
<1>1. n >= 1 /\ ~(n <= 94)
  BY DEF TooBig
<1>2. Element(n) \in Limbs /\ Element(n)[5] # 0
  BY <1>1, Elements
<1>. QED BY <1>2 DEF Limbs

-----------------------------------------------------------------------------
(* What the caller of fibonacci_sequence sees.                              *)

\* What it has is a prefix of the coroutine's values,
Kept ==
  /\ Len(delivered) <= Len(body.values)
  /\ \A k \in 1 .. Len(delivered) : delivered[k] = body.values[k]

\* the coroutine ends after its last one,
Finished == frame = "final" => pos = Len(body.values) /\ exception_ = body.throws

\* and the caller is told so when it has them all.
Told ==
  /\ \A o \in Objects : said[o] = "FALSE" =>
       o = First /\ ~body.throws /\ Len(delivered) = Len(body.values)
  /\ failed => body.throws

CInv == Careful => Kept /\ Finished /\ Told

LEMMA InitCInv == Init => CInv
<1>. SUFFICES ASSUME Init PROVE CInv
  OBVIOUS
<1>1. body.values \in Seq(body.range) /\ pos = 0
  BY InitIInv, BodyFacts DEF Init, IInv, Types
<1>. QED BY <1>1 DEF Init, CInv, Kept, Finished, Told

LEMMA BoolCInv ==
  ASSUME Careful, IInv, Kept, Finished, Told, NEW o \in Objects, Bool(o)
  PROVE  Kept' /\ Finished' /\ Told'
<1>0. o \in alive /\ ~failed /\ (FillCached(o) \/ FillResumed(o))
  BY DEF Bool, MayCall, Careful
<1>1. /\ o = First /\ First \in Objects /\ First \in alive /\ body' = body
      /\ full_[First] => UNCHANGED promise
      /\ ~full_[First] => frame = "suspended" /\ Resume /\ ~exception_'
  BY <1>0, FillFacts DEF FillResumed, FillCached
<1>2. /\ said' = [said EXCEPT ![First] = IF frame' = "final" THEN "FALSE" ELSE "TRUE"]
      /\ UNCHANGED <<delivered, failed>>
  BY <1>1 DEF Bool
<1>3. Kept'
  BY <1>1, <1>2 DEF Kept
<1>4. frame' = "final" =>
        pos = Len(body.values) /\ pos' = pos /\ exception_' = body.throws /\ ~exception_'
        /\ Len(delivered) = pos
  <2>1. CASE full_[First]
    BY <1>0, <1>1, <2>1 DEF promise, Finished, IInv, Ended, Ahead
  <2>2. CASE ~full_[First]
    BY <1>1, <2>2 DEF Resume, IInv, Ahead
  <2>. QED BY <2>1, <2>2
<1>5. Finished'
  BY <1>1, <1>4 DEF Finished
<1>6. Told'
  <2>1. ASSUME NEW p \in Objects, said'[p] = "FALSE"
        PROVE  p = First /\ ~body.throws /\ Len(delivered) = Len(body.values)
    <3>1. CASE p = First
      <4>1. frame' = "final"
        BY <1>1, <1>2, <2>1, <3>1 DEF IInv, Types
      <4>. QED BY <1>4, <3>1, <4>1
    <3>2. CASE p # First
      BY <1>2, <2>1, <3>2 DEF IInv, Types, Told
    <3>. QED BY <3>1, <3>2
  <2>. QED BY <1>1, <1>2, <2>1 DEF Told
<1>. QED BY <1>3, <1>5, <1>6

LEMMA GetCInv ==
  ASSUME Careful, IInv, Kept, Finished, Told, NEW o \in Objects, Get(o)
  PROVE  Kept' /\ Finished' /\ Told'
<1>1. /\ o = First /\ ~failed /\ frame = "suspended" /\ UNCHANGED promise
      /\ Len(delivered) + 1 = pos
      /\ delivered' = Append(delivered, body.values[Len(delivered) + 1])
  BY GetFacts
<1>2. said' = [said EXCEPT ![First] = "nothing"] /\ UNCHANGED failed
  BY <1>1 DEF Get
<1>3. body.values \in Seq(body.range) /\ delivered \in Seq(body.range) /\ pos \in 0 .. Len(body.values)
  BY BodyFacts DEF IInv, Types
<1>4. PICK e : e = body.values[pos] /\ e \in body.range
  BY <1>1, <1>3
<1>5. delivered' = Append(delivered, e)
  BY <1>1, <1>4
<1>6. /\ Len(delivered') = pos /\ delivered'[pos] = body.values[pos]
      /\ \A k \in 1 .. Len(delivered) : delivered'[k] = delivered[k]
  <2>1. \A S : \A s \in Seq(S), x \in S :
          /\ Len(Append(s, x)) = Len(s) + 1 /\ Append(s, x)[Len(s) + 1] = x
          /\ \A k \in 1 .. Len(s) : Append(s, x)[k] = s[k]
    OBVIOUS
  <2>. DEFINE Appended(s, x) ==
         /\ Len(Append(s, x)) = Len(s) + 1 /\ Append(s, x)[Len(s) + 1] = x
         /\ \A k \in 1 .. Len(s) : Append(s, x)[k] = s[k]
  <2>2. Appended(delivered, e)
    <3>1. \A S : \A s \in Seq(S), x \in S : Appended(s, x)
      BY <2>1, Zenon
    <3>. HIDE DEF Appended
    <3>2. \A s \in Seq(body.range), x \in body.range : Appended(s, x)
      BY <3>1, Zenon
    <3>. QED BY <1>3, <1>4, <3>2, Zenon
  <2>3. PICK d : d = Append(delivered, e)
    OBVIOUS
  <2>4. /\ Len(d) = Len(delivered) + 1 /\ d[Len(delivered) + 1] = e
        /\ \A k \in 1 .. Len(delivered) : d[k] = delivered[k]
    BY <2>2, <2>3, Zenon
  <2>5. delivered' = d
    BY <1>5, <2>3, Zenon
  <2>. QED BY <1>1, <1>4, <2>4, <2>5
<1>7. Kept'
  <2>1. Len(delivered) \in Nat /\ body' = body /\ Len(body.values) \in Nat
    BY <1>1, <1>3 DEF promise
  <2>2. ASSUME NEW k \in 1 .. pos PROVE delivered'[k] = body.values[k]
    <3>1. CASE k = pos
      BY <1>6, <3>1
    <3>2. CASE k # pos
      <4>1. k \in 1 .. Len(delivered)
        BY <1>1, <1>3, <2>1, <3>2
      <4>. QED BY <1>6, <4>1 DEF Kept
    <3>. QED BY <3>1, <3>2
  <2>. QED BY <1>3, <1>6, <2>1, <2>2 DEF Kept
<1>8. Finished' /\ Told'
  <2>1. ASSUME NEW p \in Objects PROVE said'[p] # "FALSE"
    <3>1. said[First] = "TRUE"
      BY <1>1 DEF Get, Careful
    <3>2. CASE p = First
      BY <1>2, <3>2 DEF IInv, Types
    <3>3. CASE p # First
      BY <1>2, <3>3 DEF Told, IInv, Types
    <3>. QED BY <3>2, <3>3
  <2>. QED BY <1>1, <1>2, <2>1 DEF promise, Finished, Told
<1>. QED BY <1>7, <1>8

LEMMA NextCInv ==
  ASSUME Careful, IInv, Kept, Finished, Told, [Next]_vars
  PROVE  Kept' /\ Finished' /\ Told'
<1>1. ASSUME NEW o \in Objects, Throws(o) PROVE Kept' /\ Finished' /\ Told'
  <2>1. /\ ~failed /\ body.throws /\ Resume /\ exception_' /\ UNCHANGED <<said, delivered, body>>
        /\ frame' = "final" /\ pos = Len(body.values) /\ pos' = pos
    BY <1>1, ThrowsFacts DEF Throws
  <2>2. exception_' = body.throws
    BY <2>1 DEF Resume
  <2>. QED BY <2>1, <2>2 DEF Kept, Finished, Told
<1>2. ASSUME NEW o \in Objects, Breaks(o) PROVE Kept' /\ Finished' /\ Told'
  BY <1>2 DEF Breaks, promise, Kept, Finished, Told
<1>3. ASSUME NEW o \in Objects, Bool(o) PROVE Kept' /\ Finished' /\ Told'
  BY <1>3, BoolCInv
<1>4. ASSUME NEW o \in Objects, Get(o) PROVE Kept' /\ Finished' /\ Told'
  BY <1>4, GetCInv
<1>5. ASSUME NEW o \in Objects, Destroy(o) PROVE Kept' /\ Finished' /\ Told'
  BY <1>5 DEF Destroy, Kept, Finished, Told
<1>6. ASSUME NEW o \in Objects, NEW p \in Objects, Copy(o, p) PROVE Kept' /\ Finished' /\ Told'
  BY <1>6 DEF Copy, Careful
<1>7. CASE UNCHANGED vars
  BY <1>7 DEF vars, Kept, Finished, Told
<1>. HIDE DEF Kept, Finished, Told
<1>. QED BY <1>1, <1>2, <1>3, <1>4, <1>5, <1>6, <1>7 DEF Next

\* A careful caller of fibonacci_sequence(n), for any n, gets the first n
\* Fibonacci numbers, in order and not truncated, before it is told that there
\* are no more; n is refused only if its last element is not below 2^64
\* (Generator.hpp 75-106).
THEOREM YieldsItsNumbers == Spec => []YieldsFibonacci
<1>1. Init => CInv
  BY InitCInv
<1>2. GInv /\ CInv /\ [Next]_vars => CInv'
  BY NextCInv, HabitsStay DEF GInv, CInv, Careful
<1>3. GInv /\ CInv => YieldsFibonacci
  <2>. SUFFICES ASSUME GInv, CInv, RunsFibonacci
                PROVE  /\ \A k \in DOMAIN delivered : Element(k) = Append(delivered[k], 0)
                       /\ \A o \in Objects : said[o] = "FALSE" => Len(delivered) = body.n
                       /\ failed => Element(body.n)[5] > 0
    BY DEF YieldsFibonacci
  <2>1. IInv /\ Kept /\ Told
    BY DEF RunsFibonacci, GInv, CInv
  <2>2. PICK n \in Nat : body.n = n /\ body.values = Yields(n) /\ (body.throws <=> n # 0 /\ TooBig(n))
    <3>1. body.n \in Nat /\ body = fibonacci_sequence(body.n)
      BY DEF RunsFibonacci
    <3>2. PICK n \in Nat : n = body.n
      BY <3>1
    <3>3. body = fibonacci_sequence(n)
      BY <3>1, <3>2
    <3>4. body.values = Yields(n) /\ body.throws = (n # 0 /\ TooBig(n))
      BY <3>3 DEF fibonacci_sequence
    <3>. QED BY <3>2, <3>4
  <2>3. delivered \in Seq(body.range) /\ DOMAIN delivered = 1 .. Len(delivered) /\ Len(delivered) \in Nat
    BY <2>1 DEF IInv, Types
  <2>4. CASE TooBig(n)
    <3>1. n > 0 /\ Yields(n) = <<>> /\ body.throws
      BY <2>2, <2>4 DEF TooBig, Yields
    <3>2. Len(delivered) = 0 /\ \A o \in Objects : said[o] # "FALSE"
      BY <2>1, <2>2, <2>3, <3>1 DEF Kept, Told
    <3>. QED BY <2>2, <2>3, <2>4, <3>2, TooBigElements
  <2>5. CASE ~TooBig(n)
    <3>1. Len(Yields(n)) = n /\ \A k \in 1 .. n : Element(k) = Append(Yields(n)[k], 0)
      BY <2>5, YieldsElements
    <3>2. ~failed /\ Len(delivered) <= n
      BY <2>1, <2>2, <2>5, <3>1 DEF Kept, Told
    <3>3. ASSUME NEW k \in 1 .. Len(delivered) PROVE Element(k) = Append(delivered[k], 0)
      <4>1. k \in 1 .. n /\ delivered[k] = Yields(n)[k]
        BY <2>1, <2>2, <2>3, <3>2 DEF Kept
      <4>. QED BY <3>1, <4>1
    <3>4. \A o \in Objects : said[o] = "FALSE" => Len(delivered) = n
      BY <2>1, <2>2, <3>1 DEF Told
    <3>. QED BY <2>2, <2>3, <3>2, <3>3, <3>4
  <2>. QED BY <2>4, <2>5
<1>. QED BY Invariance, <1>1, <1>2, <1>3, PTL DEF Spec

-----------------------------------------------------------------------------
(* Request.                                                                 *)

\* A path that can be looked at was given since a text last got past its URL.
PathIsGiven == path_ \in {"relative", "absolute"} => given

LEMMA NextPathIsGiven == PathIsGiven /\ [RequestNext]_requestVars => PathIsGiven'
<1>. SUFFICES ASSUME PathIsGiven, [RequestNext]_requestVars PROVE PathIsGiven'
  OBVIOUS
<1>1. CASE setPath \/ Set \/ UseHeaders
  BY <1>1 DEF setPath, Set, UseHeaders, PathIsGiven
<1>2. CASE CallersStringGoes
  BY <1>2 DEF CallersStringGoes, PathIsGiven
<1>3. ASSUME NEW t \in Texts, parse(t) PROVE PathIsGiven'
  <2>1. CASE ParseRejected(t) \/ ParseUndefined(t)
    BY <2>1 DEF ParseRejected, ParseUndefined, Ends, Rejections, fields, PathIsGiven
  <2>2. CASE ParseNoHost(t) \/ ParseNoBlankLine(t) \/ ParseBadHeader(t) \/ ParseSucceeds(t)
    BY <2>2 DEF ParseNoHost, ParseNoBlankLine, ParseBadHeader, ParseSucceeds, UrlAssigned, PathIsGiven
  <2>. QED BY <1>3, <2>1, <2>2 DEF parse
<1>4. CASE UNCHANGED requestVars
  BY <1>4 DEF requestVars, fields, PathIsGiven
<1>. QED BY <1>1, <1>2, <1>3, <1>4 DEF RequestNext

\* No URL serves two texts: each text that gets past it, also one that is then
\* rejected for its headers, needs a path given since the last that did, for
\* any texts and any calls in between (Request.hpp 192-218).
THEOREM NoUrlServesTwoTexts ==
  RequestInit /\ [][RequestNext]_requestVars => UrlServesOneText
<1>1. RequestInit => PathIsGiven
  BY DEF RequestInit, PathIsGiven
<1>2. ASSUME PathIsGiven, NEW t \in Texts, parse(t), outcome' \notin Rejections \cup {"undefined"}
      PROVE  given
  <2>1. ~ParseRejected(t) /\ ~ParseUndefined(t)
    BY <1>2 DEF ParseRejected, ParseUndefined, Ends, Rejections
  <2>2. PastUrl(t)
    BY <1>2, <2>1 DEF parse, ParseNoHost, ParseNoBlankLine, ParseBadHeader, ParseSucceeds
  <2>. QED BY <1>2, <2>2 DEF PastUrl, UrlOk, PathIsGiven
<1>3. PathIsGiven /\ [RequestNext]_requestVars =>
        [\A t \in Texts :
           (parse(t) /\ outcome' \notin Rejections \cup {"undefined"}) => given]_requestVars
  BY <1>2
<1>. QED BY <1>1, <1>3, NextPathIsGiven, PTL DEF UrlServesOneText

\* A parse() that throws leaves the body as it was, wherever it throws
\* (Request.hpp 209-257).
THEOREM ThrowsKeepBody ==
  RequestInit /\ [][RequestNext]_requestVars => BodyOnlyOnSuccess
<1>1. ASSUME NEW t \in Texts, parse(t), outcome' # "parsed" PROVE UNCHANGED body_
  <2>1. ~ParseSucceeds(t)
    BY <1>1 DEF ParseSucceeds, Ends
  <2>2. CASE ParseRejected(t) \/ ParseUndefined(t)
    BY <2>2 DEF ParseRejected, ParseUndefined, fields
  <2>3. CASE ParseNoHost(t) \/ ParseNoBlankLine(t) \/ ParseBadHeader(t)
    BY <2>3 DEF ParseNoHost, ParseNoBlankLine, ParseBadHeader
  <2>. QED BY <1>1, <2>1, <2>2, <2>3 DEF parse
<1>2. [RequestNext]_requestVars =>
        [\A t \in Texts : (parse(t) /\ outcome' # "parsed") => UNCHANGED body_]_requestVars
  BY <1>1
<1>. QED BY <1>2, PTL DEF BodyOnlyOnSuccess
=============================================================================
