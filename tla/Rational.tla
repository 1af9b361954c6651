------------------------------ MODULE Rational ------------------------------
(***************************************************************************)
(* Exact arithmetic where the code computes with floats: a number is a     *)
(* numerator over a positive denominator, in lowest terms, so that equal   *)
(* numbers are equal values.                                               *)
(***************************************************************************)
EXTENDS Integers

GCD[p \in Nat \X Nat] == IF p[2] = 0 THEN p[1] ELSE GCD[<< p[2], p[1] % p[2] >>]

Abs(i) == IF i < 0 THEN -i ELSE i
Ratio(num, den) ==
    LET g == GCD[<< Abs(num), Abs(den) >>]
    IN  IF den > 0 THEN << num \div g, den \div g >> ELSE << (-num) \div g, (-den) \div g >>

Whole(i) == << i, 1 >>
Zero == Whole(0)
One == Whole(1)

p ++ q == Ratio(p[1] * q[2] + q[1] * p[2], p[2] * q[2])
p -- q == Ratio(p[1] * q[2] - q[1] * p[2], p[2] * q[2])
p ** q == Ratio(p[1] * q[1], p[2] * q[2])
p // q == Ratio(p[1] * q[2], p[2] * q[1])
p \preceq q == p[1] * q[2] <= q[1] * p[2]

Square(p) == p ** p
Sign(p) == IF p[1] > 0 THEN 1 ELSE IF p[1] < 0 THEN -1 ELSE 0
=============================================================================
