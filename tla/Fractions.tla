------------------------------ MODULE Fractions ------------------------------
(***************************************************************************)
(* The arithmetic of the doubles of numerical_basics.c, made exact: a      *)
(* double is a fraction in lowest terms with a positive denominator.       *)
(***************************************************************************)
EXTENDS Integers

\* The greatest common divisor, by Euclid's algorithm.
gcd(a, b) ==
  LET divisor[p \in Nat \X (0 .. b)] ==
        IF p[2] = 0 THEN p[1] ELSE divisor[<<p[2], p[1] % p[2]>>]
  IN divisor[<<a, b>>]

Abs(n) == IF n < 0 THEN -n ELSE n
Reduced(n, d) ==
  LET g == gcd(Abs(n), Abs(d))
      s == IF d < 0 THEN -1 ELSE 1
  IN [n |-> s * (n \div g), d |-> s * (d \div g)]

Whole(n) == [n |-> n, d |-> 1]
Plus(x, y) == Reduced(x.n * y.d + y.n * x.d, x.d * y.d)
Minus(x, y) == Reduced(x.n * y.d - y.n * x.d, x.d * y.d)
Times(x, y) == Reduced(x.n * y.n, x.d * y.d)
Over(x, y) == Reduced(x.n * y.d, x.d * y.n)
Greater(x, y) == x.n * y.d > y.n * x.d
fabs(x) == [x EXCEPT !.n = Abs(x.n)]

\* What the loops `for (k = lo; k <= hi; ++k) sum += t[k]` and
\* `... product *= t[k]` end with.
SumOf(lo, hi, t) ==
  LET sum[k \in lo - 1 .. hi] == IF k < lo THEN Whole(0) ELSE Plus(sum[k - 1], t[k])
  IN sum[hi]
ProductOf(lo, hi, t) ==
  LET product[k \in lo - 1 .. hi] ==
        IF k < lo THEN Whole(1) ELSE Times(product[k - 1], t[k])
  IN product[hi]
=============================================================================
