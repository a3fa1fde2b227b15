----------------------------- MODULE Fractions -----------------------------
(***************************************************************************)
(* Exact fractions for what the program keeps in floats: a volume-weighted *)
(* price is a quotient of integers.  They are not reduced, so two are      *)
(* compared with Equals, never with =.                                     *)
(***************************************************************************)
EXTENDS Integers

Fraction == [n : Int, d : Nat \ {0}]

Whole(i) == [n |-> i, d |-> 1]
Negative(a) == [n |-> -a.n, d |-> a.d]

\* A sum keeps the larger denominator when the smaller divides it.
Plus(a, b) ==
  IF b.d % a.d = 0 THEN [n |-> a.n * (b.d \div a.d) + b.n, d |-> b.d]
  ELSE IF a.d % b.d = 0 THEN [n |-> a.n + b.n * (a.d \div b.d), d |-> a.d]
  ELSE [n |-> a.n * b.d + b.n * a.d, d |-> a.d * b.d]
Minus(a, b) == Plus(a, Negative(b))
Scale(k, a) == [n |-> k * a.n, d |-> a.d]
Over(a, k) == [n |-> a.n, d |-> a.d * k]

Equals(a, b) == a.n * b.d = b.n * a.d
AtMost(a, b) == a.n * b.d <= b.n * a.d

=============================================================================
