------------------------------ MODULE Fibonacci ------------------------------
(***************************************************************************)
(* fibonacci_sequence of Socket/Generator.hpp as a body for Generator: what *)
(* it yields and how it ends, with uint64_t as four limbs of 16 bits, the   *)
(* lowest first.                                                            *)
(***************************************************************************)
EXTENDS Generator, SequencesExt

Limb == 65536
Zero == <<0, 0, 0, 0>>
One == <<1, 0, 0, 0>>

\* x + y, and in a fifth limb what 64 bits lose.
Exact(x, y) ==
  LET s1 == x[1] + y[1]
      s2 == x[2] + y[2] + s1 \div Limb
      s3 == x[3] + y[3] + s2 \div Limb
      s4 == x[4] + y[4] + s3 \div Limb
  IN  <<s1 % Limb, s2 % Limb, s3 % Limb, s4 % Limb, s4 \div Limb>>
Plus(x, y) == LET s == Exact(x, y) IN <<s[1], s[2], s[3], s[4]>>

\* Faulty variant: one element too many.
TooBig_Late(n) == n > 94 + 1
TooBig(n) == n > 94

\* One iteration: s = a + b, co_yield s, a = b, b = s.
Iterate(l) == LET s == Plus(l.a, l.b) IN [a |-> l.b, b |-> s, s |-> s]

\* The locals after the iterations up to i.
Loop[i \in Nat] ==
  IF i < 2 THEN [a |-> Zero, b |-> One, s |-> Zero]
  ELSE LET l == Loop[i - 1] IN Iterate(l)

Yields(n) ==
  IF n = 0 \/ TooBig(n) THEN <<>>
  ELSE [k \in 1 .. n |-> CASE k = 1 -> Zero [] k = 2 -> One [] OTHER -> Loop[k - 1].s]

fibonacci_sequence(n) ==
  LET values == Yields(n)
  IN  [n |-> n, values |-> values, throws |-> n # 0 /\ TooBig(n), range |-> ToSet(values)]

-----------------------------------------------------------------------------
\* Reference: element k and the one after it by their definition, with a fifth
\* limb.
Wide(x, y) == LET s == Exact(x, y) IN <<s[1], s[2], s[3], s[4], s[5] + x[5] + y[5]>>
Pair[k \in Nat] ==
  IF k < 2 THEN << <<0, 0, 0, 0, 0>>, <<1, 0, 0, 0, 0>> >>
  ELSE LET p == Pair[k - 1] IN <<p[2], Wide(p[1], p[2])>>
Element(k) == Pair[k][1]

\* The coroutine is fibonacci_sequence(n), for some n, and its caller careful.
RunsFibonacci ==
  /\ Careful
  /\ "n" \in DOMAIN body /\ body.n \in Nat /\ body = fibonacci_sequence(body.n)

\* Such a caller gets the first n Fibonacci numbers, in order and not truncated
\* to 64 bits, before it is told that there are no more, and n is refused only
\* if its last element would overflow (Generator.hpp 75-106).
YieldsFibonacci ==
  RunsFibonacci =>
    /\ \A k \in DOMAIN delivered : Element(k) = Append(delivered[k], 0)
    /\ \A o \in Objects : said[o] = "FALSE" => Len(delivered) = body.n
    /\ failed => Element(body.n)[5] > 0
=============================================================================
