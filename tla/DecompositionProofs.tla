------------------------- MODULE DecompositionProofs -------------------------
(***************************************************************************)
(* That the LU decomposition with scaled partial pivoting solves for an    *)
(* inverse, for square matrices of integers of any size, and gives up on   *)
(* those that have none only: induction over the natural numbers, the      *)
(* fractions as a field, sums, vectors and matrices of fractions, the two  *)
(* phases of numerical_basics.c 276-378, and the algebra of inverses.      *)
(***************************************************************************)
EXTENDS LUDecomposition, WellFoundedInduction, TLAPS

-----------------------------------------------------------------------------
(* Induction.                                                               *)

\* A set of natural numbers that is not empty has a least element.
LEMMA LeastNumber ==
  ASSUME NEW T, T \subseteq Nat, T # {}
  PROVE  \E m \in T : \A k \in T : m <= k
<1> DEFINE R == OpToRel(<, Nat)
<1>1. IsWellFoundedOn(R, Nat)
  BY NatLessThanWellFounded, Zenon
<1>2. PICK m \in T : \A k \in T : <<k, m>> \notin R
  <2> HIDE DEF R
  <2> QED BY <1>1, WFMin
<1>3. \A k \in T : ~ (k < m)
  BY <1>2 DEF OpToRel
<1>4. m \in Nat /\ \A k \in T : k \in Nat
  OBVIOUS
<1>5. \A k \in T : m <= k
  BY <1>3, <1>4
<1> QED
  BY <1>5

\* What holds for 0, and for k + 1 if it does for k, holds up to n.
LEMMA UpTo ==
  ASSUME NEW n \in Nat, NEW S,
         0 \in S, \A k \in 0 .. n - 1 : k \in S => k + 1 \in S
  PROVE  \A k \in 0 .. n : k \in S
<1> DEFINE T == (0 .. n) \ S
<1> SUFFICES ASSUME T # {} PROVE FALSE
  OBVIOUS
<1>1. PICK m \in T : \A k \in T : m <= k
  <2>1. T \subseteq Nat
    OBVIOUS
  <2> HIDE DEF T
  <2> QED
    BY <2>1, LeastNumber
<1>2. m \in 1 .. n
  OBVIOUS
<1>3. m - 1 \notin T
  BY <1>1, <1>2
<1>4. m - 1 \in S /\ m - 1 \in 0 .. n - 1
  BY <1>2, <1>3
<1> QED
  BY <1>2, <1>4

\* What holds for 0, and for k + 1 if it does for k, holds for every number.
LEMMA ForAllNumbers ==
  ASSUME NEW S, 0 \in S, \A k \in Nat : k \in S => k + 1 \in S
  PROVE  \A n \in Nat : n \in S
<1> TAKE n \in Nat
<1>1. \A k \in 0 .. n - 1 : k \in S => k + 1 \in S
  OBVIOUS
<1>2. \A k \in 0 .. n : k \in S
  BY <1>1, UpTo
<1> QED
  BY <1>2

-----------------------------------------------------------------------------
(* The greatest common divisor.                                             *)

IsEuclid(f, b) ==
  f = [p \in Nat \X (0 .. b) |-> IF p[2] = 0 THEN p[1] ELSE f[<<p[2], p[1] % p[2]>>]]

\* The recursion has a solution.
LEMMA EuclidExists ==
  \A b \in Nat : \E f : IsEuclid(f, b)
<1> DEFINE S == {b \in Nat : \E f : IsEuclid(f, b)}
<1>1. 0 \in S
  <2>1. IsEuclid([p \in Nat \X (0 .. 0) |-> p[1]], 0)
    BY DEF IsEuclid
  <2> QED
    BY <2>1
<1>2. ASSUME NEW b \in Nat, b \in S
      PROVE  b + 1 \in S
  <2>1. PICK f : IsEuclid(f, b)
    BY <1>2
  <2> DEFINE g == [p \in Nat \X (0 .. b + 1) |->
                     IF p[2] = b + 1 THEN f[<<b + 1, p[1] % (b + 1)>>] ELSE f[p]]
  <2>2. ASSUME NEW p \in Nat \X (0 .. b + 1)
        PROVE  g[p] = IF p[2] = 0 THEN p[1] ELSE g[<<p[2], p[1] % p[2]>>]
    <3>1. CASE p[2] = b + 1
      <4>1. p[1] % (b + 1) \in 0 .. b
        OBVIOUS
      <4>2. g[<<b + 1, p[1] % (b + 1)>>] = f[<<b + 1, p[1] % (b + 1)>>]
        BY <4>1
      <4> QED
        BY <3>1, <4>2
    <3>2. CASE p[2] # b + 1
      <4>1. p \in Nat \X (0 .. b)
        BY <3>2
      <4>2. f[p] = IF p[2] = 0 THEN p[1] ELSE f[<<p[2], p[1] % p[2]>>]
        BY <2>1, <4>1 DEF IsEuclid
      <4>3. p[2] # 0 => p[1] % p[2] \in 0 .. p[2] - 1
        BY <4>1
      <4>4. p[2] # 0 => g[<<p[2], p[1] % p[2]>>] = f[<<p[2], p[1] % p[2]>>]
        <5>1. p[2] # 0 => p[1] % p[2] \in 0 .. b + 1 /\ p[1] % p[2] # b + 1 /\ p[2] \in Nat
          BY <4>1, <4>3
        <5> QED
          BY <5>1
      <4> QED
        BY <3>2, <4>2, <4>4
    <3> QED
      BY <3>1, <3>2
  <2>3. g = [p \in Nat \X (0 .. b + 1) |-> g[p]]
    OBVIOUS
  <2> HIDE DEF g
  <2>4. IsEuclid(g, b + 1)
    BY <2>2, <2>3 DEF IsEuclid
  <2> QED
    BY <2>4
<1>3. \A b \in Nat : b \in S
  <2> HIDE DEF S
  <2> QED
    BY <1>1, <1>2, ForAllNumbers
<1> QED
  BY <1>3

\* g divides a and b, and is a combination of them.
Divides(g, a, b) ==
  /\ g \in Nat
  /\ \E q \in Nat : a = q * g
  /\ \E r \in Nat : b = r * g
  /\ \E u, v \in Int : g = u * a + v * b

\* Division with remainder.
LEMMA DivisionIs ==
  ASSUME NEW a \in Int, NEW k \in Nat \ {0}
  PROVE  /\ a \div k \in Int /\ a % k \in 0 .. k - 1
         /\ a = k * (a \div k) + (a % k)
         /\ a \in Nat => a \div k \in Nat
OBVIOUS

\* A divisor of k and the remainder that is a combination of them is one of a
\* and k.
LEMMA EuclidStep ==
  ASSUME NEW a \in Nat, NEW k \in Nat \ {0}, NEW g, Divides(g, k, a % k)
  PROVE  Divides(g, a, k)
<1> DEFINE z == a \div k
           m == a % k
<1>1. z \in Nat /\ m \in Nat /\ a = k * z + m
  <2>1. a \in Int
    OBVIOUS
  <2>2. /\ a \div k \in Int /\ a % k \in 0 .. k - 1
        /\ a = k * (a \div k) + (a % k)
        /\ a \in Nat => a \div k \in Nat
    BY <2>1, DivisionIs
  <2> QED
    BY <2>2
<1> HIDE DEF z, m
<1>2. PICK q \in Nat, r \in Nat, u \in Int, v \in Int :
        k = q * g /\ m = r * g /\ g = u * k + v * m
  BY DEF Divides, m
<1>3. g \in Nat
  BY DEF Divides
<1>4. a = (q * z + r) * g
  <2>1. a = (q * g) * z + r * g
    BY <1>1, <1>2
  <2> QED
    BY <2>1, <1>1, <1>3
<1>5. g = v * a + (u - v * z) * k
  <2>1. m = a - k * z
    BY <1>1
  <2>2. g = u * k + v * (a - k * z)
    BY <2>1, <1>2
  <2> QED
    BY <2>2, <1>1, <1>3
<1>6. q * z + r \in Nat /\ u - v * z \in Int
  BY <1>1
<1> QED
  BY <1>2, <1>3, <1>4, <1>5, <1>6 DEF Divides

\* The greatest common divisor divides both, and is a combination of them.
LEMMA GcdDivides ==
  ASSUME NEW a \in Nat, NEW b \in Nat
  PROVE  Divides(gcd(a, b), a, b)
<1> DEFINE f == CHOOSE f : IsEuclid(f, b)
           T == {k \in 0 .. b : \A j \in 0 .. k : \A c \in Nat : Divides(f[<<c, j>>], c, j)}
<1>1. IsEuclid(f, b)
  BY EuclidExists
<1>2. gcd(a, b) = f[<<a, b>>]
  BY DEF gcd, IsEuclid
<1> HIDE DEF f
<1>3. \A j \in 0 .. b : \A c \in Nat :
        f[<<c, j>>] = IF j = 0 THEN c ELSE f[<<j, c % j>>]
  BY <1>1 DEF IsEuclid
<1>4. 0 \in T
  <2>1. ASSUME NEW c \in Nat
        PROVE  Divides(f[<<c, 0>>], c, 0)
    <3>1. f[<<c, 0>>] = c
      <4>1. 0 \in 0 .. b
        OBVIOUS
      <4> QED
        BY <1>3, <4>1
    <3>2. c = 1 * c /\ 0 = 0 * c /\ c = 1 * c + 0 * 0
      OBVIOUS
    <3> QED
      BY <3>1, <3>2 DEF Divides
  <2> QED
    BY <2>1
<1>5. \A k \in 0 .. b - 1 : k \in T => k + 1 \in T
  <2> SUFFICES ASSUME NEW k \in 0 .. b - 1, k \in T, NEW j \in 0 .. k + 1, NEW c \in Nat
               PROVE  Divides(f[<<c, j>>], c, j)
    OBVIOUS
  <2>1. CASE j \in 0 .. k
    BY <2>1
  <2>2. CASE j = k + 1
    <3>1. c % j \in 0 .. k /\ j \in 0 .. b /\ j \in Nat \ {0}
      BY <2>2, DivisionIs
    <3>2. f[<<c, j>>] = f[<<j, c % j>>]
      BY <1>3, <3>1
    <3>3. Divides(f[<<j, c % j>>], j, c % j)
      BY <3>1
    <3> QED
      BY <3>1, <3>2, <3>3, EuclidStep
  <2> QED
    BY <2>1, <2>2
<1>6. \A k \in 0 .. b : k \in T
  <2> HIDE DEF T
  <2> QED
    BY <1>4, <1>5, UpTo
<1> QED
  BY <1>2, <1>6

-----------------------------------------------------------------------------
(* Fractions in lowest terms.                                               *)

Coprime(n, d) == \E u, v \in Int : u * n + v * d = 1
Frac == {x \in [n : Int, d : Nat \ {0}] : Coprime(x.n, x.d)}

\* x is N over D.
Value(x, N, D) == x \in Frac /\ N \in Int /\ D \in Int \ {0} /\ x.n * D = N * x.d

\* A factor other than 0 can be cancelled.
LEMMA CancelFactor ==
  ASSUME NEW c \in Int, c # 0, NEW u \in Int, NEW v \in Int, c * u = c * v
  PROVE  u = v
<1>1. c * (u - v) = 0
  OBVIOUS
<1> QED
  BY <1>1

\* Reducing leaves the value and gives lowest terms.
LEMMA ReducedIs ==
  ASSUME NEW n \in Int, NEW d \in Int, d # 0
  PROVE  Value(Reduced(n, d), n, d)
<1> DEFINE g == gcd(Abs(n), Abs(d))
           s == IF d < 0 THEN -1 ELSE 1
           t == IF n < 0 THEN -1 ELSE 1
<1>1. Abs(n) \in Nat /\ Abs(d) \in Nat \ {0} /\ n = t * Abs(n) /\ d = s * Abs(d)
  BY DEF Abs
<1>2. PICK q \in Nat, r \in Nat, u \in Int, v \in Int :
        g \in Nat /\ Abs(n) = q * g /\ Abs(d) = r * g /\ g = u * Abs(n) + v * Abs(d)
  <2>1. Divides(g, Abs(n), Abs(d))
    BY <1>1, GcdDivides
  <2> HIDE DEF g
  <2> QED
    BY <2>1 DEF Divides
<1>3. Reduced(n, d) = [n |-> s * (n \div g), d |-> s * (d \div g)]
  BY DEF Reduced
<1>4. s \in {-1, 1} /\ t \in {-1, 1}
  OBVIOUS
<1> HIDE DEF g, s, t
<1>5. g # 0 /\ r # 0
  <2>1. g = 0 => Abs(d) = 0
    BY <1>2
  <2>2. r = 0 => Abs(d) = 0
    BY <1>2
  <2> QED
    BY <1>1, <2>1, <2>2
<1>6. n = g * (t * q) /\ d = g * (s * r)
  <2>1. n = t * (q * g) /\ d = s * (r * g)
    BY <1>1, <1>2
  <2> QED
    BY <2>1, <1>2, <1>4
<1>7. n \div g = t * q /\ d \div g = s * r
  <2>1. g \in Nat \ {0} /\ t * q \in Int /\ s * r \in Int
    BY <1>2, <1>4, <1>5
  <2>2. ASSUME NEW w \in Int
        PROVE  (g * w) \div g = w
    <3>1. /\ (g * w) \div g \in Int /\ (g * w) % g \in 0 .. g - 1
          /\ g * w = g * ((g * w) \div g) + ((g * w) % g)
      <4>1. g * w \in Int
        BY <2>1
      <4> DEFINE gw == g * w
      <4> HIDE DEF gw
      <4>2. gw \in Int
        BY <4>1 DEF gw
      <4>3. gw \div g \in Int /\ gw % g \in 0 .. g - 1 /\ gw = g * (gw \div g) + (gw % g)
        BY <4>2, <2>1, DivisionIs
      <4> QED
        BY <4>3 DEF gw
    <3> DEFINE y == (g * w) \div g
               e == (g * w) % g
    <3>2. y \in Int /\ e \in 0 .. g - 1 /\ g * (w - y) = e
      BY <3>1, <2>1
    <3> HIDE DEF y, e
    <3>3. w - y = 0
      <4>1. CASE w - y >= 1
        <5>1. g * (w - y) >= g
          BY <4>1, <2>1, <3>2
        <5> QED
          BY <5>1, <3>2, <2>1
      <4>2. CASE w - y <= -1
        <5>1. g * (w - y) <= -g
          BY <4>2, <2>1, <3>2
        <5> QED
          BY <5>1, <3>2, <2>1
      <4> QED
        BY <4>1, <4>2, <3>2
    <3>4. y = w
      BY <3>2, <3>3
    <3> QED
      BY <3>4 DEF y
  <2> QED
    BY <2>1, <2>2, <1>6
<1>8. Reduced(n, d) = [n |-> (s * t) * q, d |-> r]
  <2>1. s * (t * q) = (s * t) * q /\ s * (s * r) = r
    BY <1>4
  <2> QED
    BY <1>3, <1>7, <2>1
<1>9. u * q + v * r = 1
  <2>1. g * 1 = g * (u * q + v * r)
    <3>1. g = u * (q * g) + v * (r * g)
      BY <1>2
    <3> QED
      BY <3>1, <1>2
  <2>2. 1 \in Int /\ u * q + v * r \in Int /\ g \in Int
    BY <1>2
  <2> QED
    BY <2>1, <2>2, <1>5, CancelFactor
<1>10. (u * (s * t)) * ((s * t) * q) + v * r = 1
  <2>1. (s * t) * (s * t) = 1 /\ s * t \in Int
    BY <1>4
  <2>2. (u * (s * t)) * ((s * t) * q) = u * q
    BY <1>4
  <2> QED
    BY <2>2, <1>9
<1>11. u * (s * t) \in Int /\ (s * t) * q \in Int /\ r \in Nat \ {0}
  BY <1>4, <1>5
<1>12. ((s * t) * q) * d = n * r
  <2>1. ((s * t) * q) * (g * (s * r)) = (g * (t * q)) * r
    BY <1>4, <1>2
  <2> QED
    BY <2>1, <1>6
<1>13. Coprime((s * t) * q, r)
  BY <1>10, <1>11 DEF Coprime
<1>14. Reduced(n, d) \in Frac
  BY <1>8, <1>11, <1>13 DEF Frac
<1> QED
  BY <1>8, <1>12, <1>14 DEF Value

\* A fraction is in lowest terms in one way.
LEMMA LowestTerms ==
  ASSUME NEW a \in Int, NEW b \in Nat \ {0}, NEW c \in Int, NEW d \in Nat \ {0},
         Coprime(a, b), Coprime(c, d), a * d = c * b
  PROVE  a = c /\ b = d
<1>1. PICK u \in Int, v \in Int : u * a + v * b = 1
  BY DEF Coprime
<1>2. PICK w \in Int, z \in Int : w * c + z * d = 1
  BY DEF Coprime
<1>3. d = b * (u * c + v * d)
  <2>1. d = (u * a + v * b) * d
    BY <1>1
  <2>2. d = u * (a * d) + v * b * d
    BY <2>1
  <2>3. d = u * (c * b) + v * b * d
    BY <2>2
  <2> QED
    BY <2>3
<1>4. b = d * (w * a + z * b)
  <2>1. b = (w * c + z * d) * b
    BY <1>2
  <2>2. b = w * (c * b) + z * d * b
    BY <2>1
  <2>3. b = w * (a * d) + z * d * b
    BY <2>2
  <2> QED
    BY <2>3
<1>5. ASSUME NEW x \in Nat \ {0}, NEW y \in Nat \ {0}, NEW k \in Int, x = y * k
      PROVE  x >= y
  <2>1. k >= 1
    <3>1. k <= 0 => y * k <= 0
      OBVIOUS
    <3> QED
      BY <1>5, <3>1
  <2>2. y * k >= y
    BY <2>1
  <2> QED
    BY <2>2, <1>5
<1>6. b = d
  <2>1. u * c + v * d \in Int /\ w * a + z * b \in Int
    OBVIOUS
  <2>2. d >= b /\ b >= d
    BY <1>3, <1>4, <1>5, <2>1
  <2> QED
    BY <2>2
<1>7. b * a = b * c
  BY <1>6
<1> QED
  BY <1>6, <1>7, CancelFactor

\* A value has one form in lowest terms.
LEMMA SameValue ==
  ASSUME NEW x, NEW y, NEW N, NEW D, Value(x, N, D), Value(y, N, D)
  PROVE  x = y
<1>1. /\ x.n \in Int /\ x.d \in Nat \ {0} /\ y.n \in Int /\ y.d \in Nat \ {0}
      /\ N \in Int /\ D \in Int /\ D # 0
      /\ x = [n |-> x.n, d |-> x.d] /\ y = [n |-> y.n, d |-> y.d]
      /\ Coprime(x.n, x.d) /\ Coprime(y.n, y.d)
      /\ x.n * D = N * x.d /\ y.n * D = N * y.d
  BY DEF Value, Frac
<1>2. D * (x.n * y.d) = D * (y.n * x.d)
  <2>1. (x.n * D) * y.d = (N * x.d) * y.d /\ (y.n * D) * x.d = (N * y.d) * x.d
    BY <1>1
  <2>2. (N * x.d) * y.d = (N * y.d) * x.d
    BY <1>1
  <2>3. (x.n * D) * y.d = (y.n * D) * x.d
    BY <2>1, <2>2
  <2> QED
    BY <2>3, <1>1
<1>3. x.n * y.d \in Int /\ y.n * x.d \in Int
  BY <1>1
<1>4. x.n * y.d = y.n * x.d
  BY <1>1, <1>2, <1>3, CancelFactor
<1>5. x.n = y.n /\ x.d = y.d
  BY <1>1, <1>4, LowestTerms
<1> QED
  BY <1>1, <1>5

-----------------------------------------------------------------------------
(* The operations as those of the rational numbers.                         *)

Zero == Whole(0)
One == Whole(1)

\* A fraction is its own numerator over its denominator.
LEMMA HasValue ==
  ASSUME NEW x \in Frac
  PROVE  Value(x, x.n, x.d) /\ x.n \in Int /\ x.d \in Nat \ {0}
BY DEF Value, Frac

\* What it is to have a value.
LEMMA ValueParts ==
  ASSUME NEW x, NEW N, NEW D, Value(x, N, D)
  PROVE  /\ x \in Frac /\ x.n \in Int /\ x.d \in Int /\ x.d # 0
         /\ N \in Int /\ D \in Int /\ D # 0 /\ x.n * D = N * x.d
BY DEF Value, Frac

\* The product of numbers other than 0 is not 0.
LEMMA NotZero ==
  ASSUME NEW a \in Int, NEW b \in Int, a # 0, b # 0
  PROVE  a * b # 0
OBVIOUS

\* The values of the operations.
LEMMA WholeValue ==
  ASSUME NEW n \in Int
  PROVE  Value(Whole(n), n, 1) /\ Whole(n) \in Frac
<1>1. 0 * n + 1 * 1 = 1
  OBVIOUS
<1>2. Coprime(n, 1)
  BY <1>1 DEF Coprime
<1> QED
  BY <1>2 DEF Whole, Value, Frac

LEMMA PlusValue ==
  ASSUME NEW x, NEW N, NEW D, NEW y, NEW M, NEW E, Value(x, N, D), Value(y, M, E)
  PROVE  Value(Plus(x, y), N * E + M * D, D * E)
<1> DEFINE xn == x.n
           xd == x.d
           yn == y.n
           yd == y.d
           p == Plus(x, y)
<1>1. /\ xn \in Int /\ xd \in Int /\ xd # 0 /\ yn \in Int /\ yd \in Int /\ yd # 0
      /\ N \in Int /\ D \in Int /\ D # 0 /\ M \in Int /\ E \in Int /\ E # 0
      /\ xn * D = N * xd /\ yn * E = M * yd
  BY ValueParts
<1>2. xn * yd + yn * xd \in Int /\ xd * yd \in Int /\ xd * yd # 0
  <2> HIDE DEF xn, xd, yn, yd, p
  <2>1. xd * yd # 0
    BY <1>1, NotZero
  <2> QED
    BY <1>1, <2>1
<1>3. Value(p, xn * yd + yn * xd, xd * yd)
  BY <1>2, ReducedIs DEF Plus
<1> DEFINE pn == p.n
           pd == p.d
<1>4. /\ p \in Frac /\ pn \in Int /\ pd \in Int
      /\ pn * (xd * yd) = (xn * yd + yn * xd) * pd
  BY <1>3, ValueParts
<1> HIDE DEF xn, xd, yn, yd, p, pn, pd
<1>5. (xd * yd) * (pn * (D * E)) = (xd * yd) * ((N * E + M * D) * pd)
  <2>1. (xd * yd) * (pn * (D * E)) = (pn * (xd * yd)) * (D * E)
    BY <1>1, <1>4
  <2>2. ((xn * yd + yn * xd) * pd) * (D * E)
          = ((xn * D) * (yd * E) + (yn * E) * (xd * D)) * pd
    BY <1>1, <1>4
  <2>3. ((N * xd) * (yd * E) + (M * yd) * (xd * D)) * pd
          = (xd * yd) * ((N * E + M * D) * pd)
    BY <1>1, <1>4
  <2> QED
    BY <2>1, <2>2, <2>3, <1>1, <1>4
<1>6. pn * (D * E) \in Int /\ (N * E + M * D) * pd \in Int
  BY <1>1, <1>4
<1>7. pn * (D * E) = (N * E + M * D) * pd
  BY <1>2, <1>5, <1>6, CancelFactor
<1>8. N * E + M * D \in Int /\ D * E \in Int /\ D * E # 0
  BY <1>1, NotZero
<1>9. p.n * (D * E) = (N * E + M * D) * p.d /\ p \in Frac
  BY <1>4, <1>7 DEF pn, pd
<1> QED
  BY <1>8, <1>9 DEF Value, p

LEMMA MinusValue ==
  ASSUME NEW x, NEW N, NEW D, NEW y, NEW M, NEW E, Value(x, N, D), Value(y, M, E)
  PROVE  Value(Minus(x, y), N * E - M * D, D * E)
<1> DEFINE xn == x.n
           xd == x.d
           yn == y.n
           yd == y.d
           p == Minus(x, y)
<1>1. /\ xn \in Int /\ xd \in Int /\ xd # 0 /\ yn \in Int /\ yd \in Int /\ yd # 0
      /\ N \in Int /\ D \in Int /\ D # 0 /\ M \in Int /\ E \in Int /\ E # 0
      /\ xn * D = N * xd /\ yn * E = M * yd
  BY ValueParts
<1>2. xn * yd - yn * xd \in Int /\ xd * yd \in Int /\ xd * yd # 0
  <2> HIDE DEF xn, xd, yn, yd, p
  <2>1. xd * yd # 0
    BY <1>1, NotZero
  <2> QED
    BY <1>1, <2>1
<1>3. Value(p, xn * yd - yn * xd, xd * yd)
  BY <1>2, ReducedIs DEF Minus
<1> DEFINE pn == p.n
           pd == p.d
<1>4. /\ p \in Frac /\ pn \in Int /\ pd \in Int
      /\ pn * (xd * yd) = (xn * yd - yn * xd) * pd
  BY <1>3, ValueParts
<1> HIDE DEF xn, xd, yn, yd, p, pn, pd
<1>5. (xd * yd) * (pn * (D * E)) = (xd * yd) * ((N * E - M * D) * pd)
  <2>1. (xd * yd) * (pn * (D * E)) = (pn * (xd * yd)) * (D * E)
    BY <1>1, <1>4
  <2>2. ((xn * yd - yn * xd) * pd) * (D * E)
          = ((xn * D) * (yd * E) - (yn * E) * (xd * D)) * pd
    BY <1>1, <1>4
  <2>3. ((N * xd) * (yd * E) - (M * yd) * (xd * D)) * pd
          = (xd * yd) * ((N * E - M * D) * pd)
    BY <1>1, <1>4
  <2> QED
    BY <2>1, <2>2, <2>3, <1>1, <1>4
<1>6. pn * (D * E) \in Int /\ (N * E - M * D) * pd \in Int
  BY <1>1, <1>4
<1>7. pn * (D * E) = (N * E - M * D) * pd
  BY <1>2, <1>5, <1>6, CancelFactor
<1>8. N * E - M * D \in Int /\ D * E \in Int /\ D * E # 0
  BY <1>1, NotZero
<1>9. p.n * (D * E) = (N * E - M * D) * p.d /\ p \in Frac
  BY <1>4, <1>7 DEF pn, pd
<1> QED
  BY <1>8, <1>9 DEF Value, p

LEMMA TimesValue ==
  ASSUME NEW x, NEW N, NEW D, NEW y, NEW M, NEW E, Value(x, N, D), Value(y, M, E)
  PROVE  Value(Times(x, y), N * M, D * E)
<1> DEFINE xn == x.n
           xd == x.d
           yn == y.n
           yd == y.d
           p == Times(x, y)
<1>1. /\ xn \in Int /\ xd \in Int /\ xd # 0 /\ yn \in Int /\ yd \in Int /\ yd # 0
      /\ N \in Int /\ D \in Int /\ D # 0 /\ M \in Int /\ E \in Int /\ E # 0
      /\ xn * D = N * xd /\ yn * E = M * yd
  BY ValueParts
<1>2. xn * yn \in Int /\ xd * yd \in Int /\ xd * yd # 0
  BY <1>1, NotZero
<1>3. Value(p, xn * yn, xd * yd)
  BY <1>2, ReducedIs DEF Times
<1> DEFINE pn == p.n
           pd == p.d
<1>4. p \in Frac /\ pn \in Int /\ pd \in Int /\ pn * (xd * yd) = (xn * yn) * pd
  BY <1>3, ValueParts
<1> HIDE DEF xn, xd, yn, yd, p, pn, pd
<1>5. (xd * yd) * (pn * (D * E)) = (xd * yd) * ((N * M) * pd)
  <2>1. (xd * yd) * (pn * (D * E)) = (pn * (xd * yd)) * (D * E)
    BY <1>1, <1>4
  <2>2. ((xn * yn) * pd) * (D * E) = ((xn * D) * (yn * E)) * pd
    BY <1>1, <1>4
  <2>3. ((N * xd) * (M * yd)) * pd = (xd * yd) * ((N * M) * pd)
    BY <1>1, <1>4
  <2> QED
    BY <2>1, <2>2, <2>3, <1>1, <1>4
<1>6. pn * (D * E) \in Int /\ (N * M) * pd \in Int
  BY <1>1, <1>4
<1>7. pn * (D * E) = (N * M) * pd
  BY <1>2, <1>5, <1>6, CancelFactor
<1>8. N * M \in Int /\ D * E \in Int /\ D * E # 0
  BY <1>1, NotZero
<1>9. p.n * (D * E) = (N * M) * p.d /\ p \in Frac
  BY <1>4, <1>7 DEF pn, pd
<1> QED
  BY <1>8, <1>9 DEF Value, p

\* Only 0 has the numerator 0.
LEMMA IsZero ==
  ASSUME NEW x \in Frac
  PROVE  x = Zero <=> x.n = 0
<1>1. ASSUME x.n = 0
      PROVE  x = Zero
  <2>1. x.d \in Nat /\ x.n * 1 = 0 * x.d
    BY <1>1, HasValue
  <2>2. Value(x, 0, 1)
    BY <2>1 DEF Value
  <2> QED
    BY <2>2, WholeValue, SameValue DEF Zero
<1>2. Zero.n = 0
  BY DEF Zero, Whole
<1> QED
  BY <1>1, <1>2

\* Over(x, y) is what gives x when it is multiplied by y.
LEMMA OverTimes ==
  ASSUME NEW x \in Frac, NEW y \in Frac, y # Zero
  PROVE  Over(x, y) \in Frac /\ Times(Over(x, y), y) = x
<1> DEFINE xn == x.n
           xd == x.d
           yn == y.n
           yd == y.d
<1>1. xn \in Int /\ xd \in Nat \ {0} /\ yn \in Int /\ yd \in Nat \ {0} /\ yn # 0
  BY HasValue, IsZero
<1> HIDE DEF xn, xd, yn, yd
<1>2. xn * yd \in Int /\ xd * yn \in Int /\ xd * yn # 0
  BY <1>1, NotZero
<1>3. Value(Over(x, y), xn * yd, xd * yn)
  BY <1>2, ReducedIs DEF Over, xn, xd, yn, yd
<1>4. Value(Times(Over(x, y), y), (xn * yd) * yn, (xd * yn) * yd)
  BY <1>3, HasValue, TimesValue DEF yn, yd
<1>5. Value(x, (xn * yd) * yn, (xd * yn) * yd)
  <2>1. (xn * yd) * yn \in Int /\ (xd * yn) * yd \in Int /\ (xd * yn) * yd # 0
    BY <1>1, <1>2, NotZero
  <2>2. xn * ((xd * yn) * yd) = ((xn * yd) * yn) * xd
    BY <1>1
  <2> QED
    BY <2>1, <2>2 DEF Value, xn, xd
<1>6. Over(x, y) \in Frac
  BY <1>3, ValueParts
<1> QED
  BY <1>4, <1>5, <1>6, SameValue

\* The fractions are a field, of which these are the laws.
LEMMA Closed ==
  ASSUME NEW x \in Frac, NEW y \in Frac
  PROVE  Plus(x, y) \in Frac /\ Minus(x, y) \in Frac /\ Times(x, y) \in Frac
<1>1. Value(x, x.n, x.d) /\ Value(y, y.n, y.d)
  BY HasValue
<1>2. Value(Plus(x, y), x.n * y.d + y.n * x.d, x.d * y.d)
  BY <1>1, PlusValue
<1>3. Value(Minus(x, y), x.n * y.d - y.n * x.d, x.d * y.d)
  BY <1>1, MinusValue
<1>4. Value(Times(x, y), x.n * y.n, x.d * y.d)
  BY <1>1, TimesValue
<1> QED
  BY <1>2, <1>3, <1>4 DEF Value

LEMMA Constants == Zero \in Frac /\ One \in Frac /\ Zero # One
<1>1. Zero \in Frac /\ One \in Frac
  BY WholeValue DEF Zero, One
<1>2. Zero.n # One.n
  BY DEF Zero, One, Whole
<1> QED
  BY <1>1, <1>2

LEMMA PlusComm ==
  ASSUME NEW x \in Frac, NEW y \in Frac
  PROVE  Plus(x, y) = Plus(y, x)
<1>1. /\ Value(Plus(x, y), x.n * y.d + y.n * x.d, x.d * y.d)
      /\ Value(Plus(y, x), y.n * x.d + x.n * y.d, y.d * x.d)
  BY HasValue, PlusValue
<1>2. x.n * y.d + y.n * x.d = y.n * x.d + x.n * y.d /\ x.d * y.d = y.d * x.d
  BY HasValue
<1> QED
  BY <1>1, <1>2, SameValue

LEMMA TimesComm ==
  ASSUME NEW x \in Frac, NEW y \in Frac
  PROVE  Times(x, y) = Times(y, x)
<1>1. /\ Value(Times(x, y), x.n * y.n, x.d * y.d)
      /\ Value(Times(y, x), y.n * x.n, y.d * x.d)
  BY HasValue, TimesValue
<1>2. x.n * y.n = y.n * x.n /\ x.d * y.d = y.d * x.d
  BY HasValue
<1> QED
  BY <1>1, <1>2, SameValue

LEMMA PlusAssoc ==
  ASSUME NEW x \in Frac, NEW y \in Frac, NEW z \in Frac
  PROVE  Plus(Plus(x, y), z) = Plus(x, Plus(y, z))
<1>1. Value(Plus(Plus(x, y), z), (x.n * y.d + y.n * x.d) * z.d + z.n * (x.d * y.d),
            (x.d * y.d) * z.d)
  <2>1. Value(Plus(x, y), x.n * y.d + y.n * x.d, x.d * y.d)
    BY HasValue, PlusValue
  <2> QED
    BY <2>1, HasValue, PlusValue
<1>2. Value(Plus(x, Plus(y, z)), x.n * (y.d * z.d) + (y.n * z.d + z.n * y.d) * x.d,
            x.d * (y.d * z.d))
  <2>1. Value(Plus(y, z), y.n * z.d + z.n * y.d, y.d * z.d)
    BY HasValue, PlusValue
  <2> QED
    BY <2>1, HasValue, PlusValue
<1>3. /\ (x.n * y.d + y.n * x.d) * z.d + z.n * (x.d * y.d)
           = x.n * (y.d * z.d) + (y.n * z.d + z.n * y.d) * x.d
      /\ (x.d * y.d) * z.d = x.d * (y.d * z.d)
  BY HasValue
<1> QED
  BY <1>1, <1>2, <1>3, SameValue

LEMMA TimesAssoc ==
  ASSUME NEW x \in Frac, NEW y \in Frac, NEW z \in Frac
  PROVE  Times(Times(x, y), z) = Times(x, Times(y, z))
<1>1. Value(Times(Times(x, y), z), (x.n * y.n) * z.n, (x.d * y.d) * z.d)
  <2>1. Value(Times(x, y), x.n * y.n, x.d * y.d)
    BY HasValue, TimesValue
  <2> QED
    BY <2>1, HasValue, TimesValue
<1>2. Value(Times(x, Times(y, z)), x.n * (y.n * z.n), x.d * (y.d * z.d))
  <2>1. Value(Times(y, z), y.n * z.n, y.d * z.d)
    BY HasValue, TimesValue
  <2> QED
    BY <2>1, HasValue, TimesValue
<1>3. (x.n * y.n) * z.n = x.n * (y.n * z.n) /\ (x.d * y.d) * z.d = x.d * (y.d * z.d)
  BY HasValue
<1> QED
  BY <1>1, <1>2, <1>3, SameValue

LEMMA Distributive ==
  ASSUME NEW x \in Frac, NEW y \in Frac, NEW z \in Frac
  PROVE  Times(x, Plus(y, z)) = Plus(Times(x, y), Times(x, z))
<1> DEFINE xn == x.n
           xd == x.d
           yn == y.n
           yd == y.d
           zn == z.n
           zd == z.d
<1>1. /\ xn \in Int /\ xd \in Int /\ yn \in Int /\ yd \in Int /\ zn \in Int /\ zd \in Int
      /\ xd # 0 /\ yd # 0 /\ zd # 0
  BY HasValue
<1>2. Value(Times(x, Plus(y, z)), xn * (yn * zd + zn * yd), xd * (yd * zd))
  <2>1. Value(Plus(y, z), yn * zd + zn * yd, yd * zd)
    BY HasValue, PlusValue
  <2> QED
    BY <2>1, HasValue, TimesValue
<1>3. Value(Plus(Times(x, y), Times(x, z)),
            (xn * yn) * (xd * zd) + (xn * zn) * (xd * yd), (xd * yd) * (xd * zd))
  BY HasValue, TimesValue, PlusValue
<1>4. Value(Times(x, Plus(y, z)), (xn * yn) * (xd * zd) + (xn * zn) * (xd * yd),
            (xd * yd) * (xd * zd))
  <2> DEFINE p == Times(x, Plus(y, z))
             pn == p.n
             pd == p.d
             N == xn * (yn * zd + zn * yd)
             D == xd * (yd * zd)
  <2>1. p \in Frac /\ pn \in Int /\ pd \in Int /\ pn * D = N * pd
    BY <1>2, ValueParts
  <2> HIDE DEF xn, xd, yn, yd, zn, zd, p, pn, pd
  <2>2. /\ (xd * yd) * (xd * zd) = xd * D
        /\ (xn * yn) * (xd * zd) + (xn * zn) * (xd * yd) = xd * N
        /\ N \in Int /\ D \in Int
    BY <1>1
  <2>3. xd * D \in Int /\ xd * D # 0 /\ xd * N \in Int
    <3>1. D # 0
      BY <1>1, NotZero
    <3> HIDE DEF D, N
    <3> QED
      BY <3>1, <1>1, <2>2, NotZero
  <2> HIDE DEF D, N
  <2>4. pn * (xd * D) = (xd * N) * pd
    <3>1. pn * (xd * D) = xd * (pn * D) /\ (xd * N) * pd = xd * (N * pd)
      BY <1>1, <2>1, <2>2
    <3> QED
      BY <3>1, <2>1
  <2>5. Value(p, xd * N, xd * D)
    BY <2>1, <2>3, <2>4 DEF Value, pn, pd
  <2> QED
    BY <2>2, <2>5 DEF p
<1> QED
  BY <1>3, <1>4, SameValue

LEMMA Neutral ==
  ASSUME NEW x \in Frac
  PROVE  /\ Plus(x, Zero) = x /\ Plus(Zero, x) = x
         /\ Times(x, One) = x /\ Times(One, x) = x
         /\ Times(x, Zero) = Zero /\ Times(Zero, x) = Zero
<1>1. x.n \in Int /\ x.d \in Int /\ x.d # 0 /\ Value(x, x.n, x.d)
  BY HasValue
<1>2. Value(Zero, 0, 1) /\ Value(One, 1, 1) /\ Zero \in Frac /\ One \in Frac
  BY WholeValue DEF Zero, One
<1>3. Plus(x, Zero) = x
  <2>1. Value(Plus(x, Zero), x.n * 1 + 0 * x.d, x.d * 1)
    BY <1>1, <1>2, PlusValue
  <2>2. x.n * 1 + 0 * x.d = x.n /\ x.d * 1 = x.d
    BY <1>1
  <2> QED
    BY <1>1, <2>1, <2>2, SameValue
<1>4. Times(x, One) = x
  <2>1. Value(Times(x, One), x.n * 1, x.d * 1)
    BY <1>1, <1>2, TimesValue
  <2>2. x.n * 1 = x.n /\ x.d * 1 = x.d
    BY <1>1
  <2> QED
    BY <1>1, <2>1, <2>2, SameValue
<1>5. Times(x, Zero) = Zero
  <2>1. Value(Times(x, Zero), x.n * 0, x.d * 1)
    BY <1>1, <1>2, TimesValue
  <2>2. x.n * 0 = 0 /\ x.d * 1 = x.d
    BY <1>1
  <2>3. Value(Times(x, Zero), 0, x.d)
    BY <2>1, <2>2
  <2>4. Times(x, Zero) \in Frac /\ Times(x, Zero).n * x.d = 0 * x.d /\ Times(x, Zero).n \in Int
    <3>1. /\ Times(x, Zero) \in Frac /\ Times(x, Zero).n \in Int /\ Times(x, Zero).d \in Int
          /\ Times(x, Zero).n * x.d = 0 * Times(x, Zero).d
      BY <2>3, ValueParts
    <3> QED
      BY <3>1, <1>1
  <2>5. Times(x, Zero).n = 0
    <3>1. x.d * Times(x, Zero).n = x.d * 0
      BY <2>4, <1>1
    <3> QED
      BY <3>1, <2>4, <1>1, CancelFactor
  <2> QED
    BY <2>4, <2>5, IsZero
<1> QED
  BY <1>2, <1>3, <1>4, <1>5, PlusComm, TimesComm

\* Subtraction undoes addition, and the other way round.
LEMMA MinusPlus ==
  ASSUME NEW x \in Frac, NEW y \in Frac
  PROVE  Plus(Minus(x, y), y) = x /\ Minus(Plus(x, y), y) = x
<1> DEFINE xn == x.n
           xd == x.d
           yn == y.n
           yd == y.d
<1>1. xn \in Int /\ xd \in Int /\ yn \in Int /\ yd \in Int /\ xd # 0 /\ yd # 0 /\ x \in Frac
  BY HasValue
<1>2. Value(Plus(Minus(x, y), y), (xn * yd - yn * xd) * yd + yn * (xd * yd), (xd * yd) * yd)
  BY HasValue, MinusValue, PlusValue
<1>3. Value(Minus(Plus(x, y), y), (xn * yd + yn * xd) * yd - yn * (xd * yd), (xd * yd) * yd)
  BY HasValue, MinusValue, PlusValue
<1>4. Value(x, xn * (yd * yd), xd * (yd * yd))
  <2> DEFINE e == yd * yd
  <2>1. e \in Int /\ e # 0
    BY <1>1, NotZero
  <2> HIDE DEF e, xn, xd, yn, yd
  <2>2. xn * e \in Int /\ xd * e \in Int /\ xd * e # 0 /\ xn * (xd * e) = (xn * e) * xd
    BY <1>1, <2>1, NotZero
  <2>3. Value(x, xn * e, xd * e)
    BY <1>1, <2>2 DEF Value, xn, xd
  <2> QED
    BY <2>3 DEF e
<1>5. /\ (xn * yd - yn * xd) * yd + yn * (xd * yd) = xn * (yd * yd)
      /\ (xn * yd + yn * xd) * yd - yn * (xd * yd) = xn * (yd * yd)
      /\ (xd * yd) * yd = xd * (yd * yd)
  <2> HIDE DEF xn, xd, yn, yd
  <2> QED
    BY <1>1
<1> QED
  BY <1>2, <1>3, <1>4, <1>5, SameValue

\* A product is 0 only if a factor is.
LEMMA NoZeroDivisors ==
  ASSUME NEW x \in Frac, NEW y \in Frac, Times(x, y) = Zero
  PROVE  x = Zero \/ y = Zero
<1> SUFFICES ASSUME y # Zero PROVE x = Zero
  OBVIOUS
<1>1. Over(One, y) \in Frac /\ Times(Over(One, y), y) = One
  BY OverTimes, Constants
<1>2. Times(y, Over(One, y)) = One
  BY <1>1, TimesComm
<1>3. Times(x, Times(y, Over(One, y))) = Times(Times(x, y), Over(One, y))
  BY <1>1, TimesAssoc
<1> QED
  BY <1>1, <1>2, <1>3, Neutral

\* Whole numbers are added and multiplied as what they are.
LEMMA WholeSums ==
  ASSUME NEW a \in Int, NEW b \in Int
  PROVE  /\ Plus(Whole(a), Whole(b)) = Whole(a + b)
         /\ Minus(Whole(a), Whole(b)) = Whole(a - b)
         /\ Times(Whole(a), Whole(b)) = Whole(a * b)
         /\ Whole(a) = Whole(b) => a = b
<1>1. /\ Value(Plus(Whole(a), Whole(b)), a * 1 + b * 1, 1 * 1)
      /\ Value(Minus(Whole(a), Whole(b)), a * 1 - b * 1, 1 * 1)
      /\ Value(Times(Whole(a), Whole(b)), a * b, 1 * 1)
  BY WholeValue, PlusValue, MinusValue, TimesValue
<1>2. a * 1 + b * 1 = a + b /\ a * 1 - b * 1 = a - b /\ 1 * 1 = 1
  OBVIOUS
<1>3. /\ Value(Whole(a + b), a + b, 1) /\ Value(Whole(a - b), a - b, 1)
      /\ Value(Whole(a * b), a * b, 1)
  BY WholeValue
<1>4. Whole(a) = Whole(b) => Whole(a).n = Whole(b).n
  OBVIOUS
<1> QED
  BY <1>1, <1>2, <1>3, <1>4, SameValue DEF Whole

-----------------------------------------------------------------------------
(* Sums.                                                                    *)

\* What is added on both sides can be cancelled.
LEMMA PlusCancel ==
  ASSUME NEW x \in Frac, NEW y \in Frac, NEW z \in Frac, Plus(x, z) = Plus(y, z)
  PROVE  x = y
BY MinusPlus

\* The inner two of four numbers that are added can change places.
LEMMA PlusSwap ==
  ASSUME NEW a \in Frac, NEW b \in Frac, NEW c \in Frac, NEW d \in Frac
  PROVE  Plus(Plus(a, b), Plus(c, d)) = Plus(Plus(a, c), Plus(b, d))
<1>1. Plus(b, c) \in Frac /\ Plus(c, d) \in Frac /\ Plus(b, d) \in Frac
  BY Closed
<1>2. Plus(Plus(a, b), Plus(c, d)) = Plus(a, Plus(b, Plus(c, d)))
  BY <1>1, PlusAssoc
<1>3. Plus(b, Plus(c, d)) = Plus(Plus(b, c), d)
  BY PlusAssoc
<1>4. Plus(b, c) = Plus(c, b)
  BY PlusComm
<1>5. Plus(Plus(c, b), d) = Plus(c, Plus(b, d))
  BY PlusAssoc
<1>6. Plus(a, Plus(c, Plus(b, d))) = Plus(Plus(a, c), Plus(b, d))
  BY <1>1, PlusAssoc
<1> QED
  BY <1>2, <1>3, <1>4, <1>5, <1>6

-----------------------------------------------------------------------------
(* Sums.                                                                    *)

IsSum(f, lo, hi, t) ==
  f = [k \in lo - 1 .. hi |-> IF k < lo THEN Whole(0) ELSE Plus(f[k - 1], t[k])]

\* The recursion has a solution, so the function that is chosen is one.
LEMMA SumExists ==
  ASSUME NEW lo \in Int, NEW t
  PROVE  \A n \in Nat : \E f : IsSum(f, lo, lo - 1 + n, t)
<1> DEFINE S == {n \in Nat : \E f : IsSum(f, lo, lo - 1 + n, t)}
<1>1. 0 \in S
  <2>1. lo - 1 + 0 = lo - 1 /\ \A k \in lo - 1 .. lo - 1 : k < lo
    OBVIOUS
  <2>2. IsSum([k \in lo - 1 .. lo - 1 |-> Whole(0)], lo, lo - 1, t)
    BY <2>1 DEF IsSum
  <2> QED
    BY <2>1, <2>2
<1>2. ASSUME NEW n \in Nat, n \in S
      PROVE  n + 1 \in S
  <2> DEFINE hi == lo - 1 + n
  <2>1. PICK f : IsSum(f, lo, hi, t)
    BY <1>2
  <2> DEFINE g == [k \in lo - 1 .. hi + 1 |-> IF k = hi + 1 THEN Plus(f[hi], t[k]) ELSE f[k]]
  <2>2. \A k \in lo - 1 .. hi : f[k] = IF k < lo THEN Whole(0) ELSE Plus(f[k - 1], t[k])
    BY <2>1 DEF IsSum
  <2>3. \A k \in lo - 1 .. hi + 1 : g[k] = IF k < lo THEN Whole(0) ELSE Plus(g[k - 1], t[k])
    BY <2>2
  <2>4. g = [k \in lo - 1 .. hi + 1 |-> g[k]] /\ lo - 1 + (n + 1) = hi + 1
    OBVIOUS
  <2> HIDE DEF g
  <2>5. IsSum(g, lo, hi + 1, t)
    BY <2>3, <2>4 DEF IsSum
  <2> QED
    BY <2>4, <2>5
<1>3. \A n \in Nat : n \in S
  <2> HIDE DEF S
  <2> QED
    BY <1>1, <1>2, ForAllNumbers
<1> QED
  BY <1>3

\* The loop that SumOf stands for.
LEMMA SumStep ==
  ASSUME NEW lo \in Int, NEW t
  PROVE  /\ SumOf(lo, lo - 1, t) = Zero
         /\ \A hi \in Int : hi >= lo => SumOf(lo, hi, t) = Plus(SumOf(lo, hi - 1, t), t[hi])
<1> DEFINE F(hi) == CHOOSE f : IsSum(f, lo, hi, t)
<1>1. \A hi \in Int : hi >= lo - 1 => IsSum(F(hi), lo, hi, t) /\ SumOf(lo, hi, t) = F(hi)[hi]
  <2> TAKE hi \in Int
  <2> HAVE hi >= lo - 1
  <2>1. hi - (lo - 1) \in Nat /\ lo - 1 + (hi - (lo - 1)) = hi
    OBVIOUS
  <2>2. \E f : IsSum(f, lo, lo - 1 + (hi - (lo - 1)), t)
    BY <2>1, SumExists
  <2>3. IsSum(F(hi), lo, hi, t)
    BY <2>1, <2>2
  <2>4. SumOf(lo, hi, t) = F(hi)[hi]
    BY DEF SumOf, IsSum
  <2> QED
    BY <2>3, <2>4
<1> HIDE DEF F
<1>2. \A hi \in Int : hi >= lo - 1 =>
        \A k \in lo - 1 .. hi : F(hi)[k] = IF k < lo THEN Whole(0) ELSE Plus(F(hi)[k - 1], t[k])
  BY <1>1 DEF IsSum
<1>3. SumOf(lo, lo - 1, t) = Zero
  <2>1. lo - 1 \in lo - 1 .. lo - 1 /\ lo - 1 < lo
    OBVIOUS
  <2> QED
    BY <1>1, <1>2, <2>1 DEF Zero
<1>4. ASSUME NEW hi \in Int, hi >= lo
      PROVE  SumOf(lo, hi, t) = Plus(SumOf(lo, hi - 1, t), t[hi])
  <2> DEFINE S == {n \in 0 .. hi - lo : F(hi)[lo - 1 + n] = F(hi - 1)[lo - 1 + n]}
  <2>0. hi - 1 \in Int /\ hi - 1 >= lo - 1 /\ hi - lo \in Nat
    BY <1>4
  <2>1. 0 \in S
    <3>1. lo - 1 + 0 \in lo - 1 .. hi /\ lo - 1 + 0 \in lo - 1 .. hi - 1 /\ lo - 1 + 0 < lo
      BY <2>0
    <3>2. F(hi)[lo - 1 + 0] = Whole(0) /\ F(hi - 1)[lo - 1 + 0] = Whole(0)
      BY <1>2, <1>4, <2>0, <3>1
    <3> QED
      BY <3>2, <2>0
  <2>2. ASSUME NEW n \in 0 .. hi - lo - 1, n \in S
        PROVE  n + 1 \in S
    <3> DEFINE k == lo - 1 + (n + 1)
    <3>1. k \in lo - 1 .. hi /\ k \in lo - 1 .. hi - 1 /\ ~ (k < lo) /\ k - 1 = lo - 1 + n
      BY <2>0
    <3>2. F(hi)[k] = Plus(F(hi)[k - 1], t[k]) /\ F(hi - 1)[k] = Plus(F(hi - 1)[k - 1], t[k])
      BY <1>2, <1>4, <2>0, <3>1
    <3>3. F(hi)[k - 1] = F(hi - 1)[k - 1]
      BY <2>2, <3>1
    <3> QED
      BY <3>2, <3>3, <2>0
  <2>3. \A n \in 0 .. hi - lo : n \in S
    <3> HIDE DEF S
    <3> QED
      BY <2>0, <2>1, <2>2, UpTo
  <2>4. F(hi)[hi - 1] = F(hi - 1)[hi - 1]
    <3>1. hi - lo \in 0 .. hi - lo /\ lo - 1 + (hi - lo) = hi - 1
      BY <2>0
    <3> QED
      BY <2>3, <3>1
  <2>5. F(hi)[hi] = Plus(F(hi)[hi - 1], t[hi])
    <3>1. hi \in lo - 1 .. hi /\ ~ (hi < lo)
      BY <1>4
    <3> QED
      BY <1>2, <1>4, <2>0, <3>1
  <2> QED
    BY <1>1, <1>4, <2>0, <2>4, <2>5
<1> QED
  BY <1>3, <1>4

\* The bounds of a sum of no terms or more, and what the terms are.
Bounds(lo, hi) == lo \in Int /\ hi \in Int /\ lo <= hi + 1
Addends(t, lo, hi) == \A k \in lo .. hi : t[k] \in Frac

\* A sum of fractions is one.
LEMMA SumType ==
  ASSUME NEW lo, NEW hi, NEW t, Bounds(lo, hi),
         Addends(t, lo, hi)
  PROVE  SumOf(lo, hi, t) \in Frac
<1> DEFINE P(h) == SumOf(lo, h, t) \in Frac
           S == {n \in 0 .. hi - lo + 1 : P(lo - 1 + n)}
<1>0. lo \in Int /\ hi \in Int /\ hi - lo + 1 \in Nat
  BY DEF Bounds
<1>1. 0 \in S
  <2>1. lo - 1 + 0 = lo - 1
    BY <1>0
  <2>2. P(lo - 1)
    BY <1>0, SumStep, Constants
  <2> QED
    BY <1>0, <2>1, <2>2
<1>2. ASSUME NEW n \in 0 .. hi - lo + 1 - 1, n \in S
      PROVE  n + 1 \in S
  <2> DEFINE h == lo - 1 + (n + 1)
  <2>1. h \in lo .. hi /\ h \in Int /\ h >= lo /\ h - 1 = lo - 1 + n
    BY <1>0
  <2>2. P(h - 1)
    BY <1>2, <2>1
  <2>3. P(h)
    <3> HIDE DEF h
    <3> QED
      BY <1>0, <2>1, <2>2, SumStep, Closed DEF Addends
  <2> QED
    BY <1>0, <2>3
<1>3. \A n \in 0 .. hi - lo + 1 : n \in S
  <2> HIDE DEF S
  <2> QED
    BY <1>0, <1>1, <1>2, UpTo
<1>4. hi - lo + 1 \in 0 .. hi - lo + 1 /\ lo - 1 + (hi - lo + 1) = hi
  BY <1>0
<1>5. P(hi)
  BY <1>3, <1>4
<1> QED
  BY <1>5

\* A sum depends on its terms only.
LEMMA SumSame ==
  ASSUME NEW lo, NEW hi, NEW t, NEW u, Bounds(lo, hi),
         \A k \in lo .. hi : t[k] = u[k]
  PROVE  SumOf(lo, hi, t) = SumOf(lo, hi, u)
<1> DEFINE P(h) == SumOf(lo, h, t) = SumOf(lo, h, u)
           S == {n \in 0 .. hi - lo + 1 : P(lo - 1 + n)}
<1>0. lo \in Int /\ hi \in Int /\ hi - lo + 1 \in Nat
  BY DEF Bounds
<1>1. 0 \in S
  <2>1. lo - 1 + 0 = lo - 1
    BY <1>0
  <2>2. P(lo - 1)
    BY <1>0, SumStep
  <2> QED
    BY <1>0, <2>1, <2>2
<1>2. ASSUME NEW n \in 0 .. hi - lo + 1 - 1, n \in S
      PROVE  n + 1 \in S
  <2> DEFINE h == lo - 1 + (n + 1)
  <2>1. h \in lo .. hi /\ h \in Int /\ h >= lo /\ h - 1 = lo - 1 + n
    BY <1>0
  <2>2. P(h - 1)
    BY <1>2, <2>1
  <2>3. P(h)
    <3> HIDE DEF h
    <3> QED
      BY <1>0, <2>1, <2>2, SumStep
  <2> QED
    BY <1>0, <2>3
<1>3. \A n \in 0 .. hi - lo + 1 : n \in S
  <2> HIDE DEF S
  <2> QED
    BY <1>0, <1>1, <1>2, UpTo
<1>4. hi - lo + 1 \in 0 .. hi - lo + 1 /\ lo - 1 + (hi - lo + 1) = hi
  BY <1>0
<1>5. P(hi)
  BY <1>3, <1>4
<1> QED
  BY <1>5

\* A sum of zeros.
LEMMA SumZero ==
  ASSUME NEW lo, NEW hi, NEW t, Bounds(lo, hi),
         \A k \in lo .. hi : t[k] = Zero
  PROVE  SumOf(lo, hi, t) = Zero
<1> DEFINE P(h) == SumOf(lo, h, t) = Zero
           S == {n \in 0 .. hi - lo + 1 : P(lo - 1 + n)}
<1>0. lo \in Int /\ hi \in Int /\ hi - lo + 1 \in Nat
  BY DEF Bounds
<1>1. 0 \in S
  <2>1. lo - 1 + 0 = lo - 1
    BY <1>0
  <2>2. P(lo - 1)
    BY <1>0, SumStep
  <2> QED
    BY <1>0, <2>1, <2>2
<1>2. ASSUME NEW n \in 0 .. hi - lo + 1 - 1, n \in S
      PROVE  n + 1 \in S
  <2> DEFINE h == lo - 1 + (n + 1)
  <2>1. h \in lo .. hi /\ h \in Int /\ h >= lo /\ h - 1 = lo - 1 + n
    BY <1>0
  <2>2. P(h - 1)
    BY <1>2, <2>1
  <2>3. P(h)
    <3> HIDE DEF h
    <3> QED
      BY <1>0, <2>1, <2>2, SumStep, Neutral, Constants
  <2> QED
    BY <1>0, <2>3
<1>3. \A n \in 0 .. hi - lo + 1 : n \in S
  <2> HIDE DEF S
  <2> QED
    BY <1>0, <1>1, <1>2, UpTo
<1>4. hi - lo + 1 \in 0 .. hi - lo + 1 /\ lo - 1 + (hi - lo + 1) = hi
  BY <1>0
<1>5. P(hi)
  BY <1>3, <1>4
<1> QED
  BY <1>5

\* Sums are added term by term.
LEMMA SumPlus ==
  ASSUME NEW lo, NEW hi, NEW r, NEW t, NEW u, Bounds(lo, hi),
         Addends(t, lo, hi), Addends(u, lo, hi),
         \A k \in lo .. hi : r[k] = Plus(t[k], u[k])
  PROVE  /\ SumOf(lo, hi, t) \in Frac /\ SumOf(lo, hi, u) \in Frac
         /\ SumOf(lo, hi, r) = Plus(SumOf(lo, hi, t), SumOf(lo, hi, u))
<1> DEFINE P(h) == /\ SumOf(lo, h, t) \in Frac /\ SumOf(lo, h, u) \in Frac
                   /\ SumOf(lo, h, r) = Plus(SumOf(lo, h, t), SumOf(lo, h, u))
           S == {n \in 0 .. hi - lo + 1 : P(lo - 1 + n)}
<1>0. lo \in Int /\ hi \in Int /\ hi - lo + 1 \in Nat
  BY DEF Bounds
<1>1. 0 \in S
  <2>1. lo - 1 + 0 = lo - 1
    BY <1>0
  <2>2. P(lo - 1)
    <3>1. SumOf(lo, lo - 1, t) = Zero /\ SumOf(lo, lo - 1, u) = Zero /\ SumOf(lo, lo - 1, r) = Zero
      BY <1>0, SumStep
    <3>2. Zero \in Frac /\ Plus(Zero, Zero) = Zero
      BY Constants, Neutral
    <3> QED
      BY <3>1, <3>2
  <2> QED
    BY <1>0, <2>1, <2>2
<1>2. ASSUME NEW n \in 0 .. hi - lo + 1 - 1, n \in S
      PROVE  n + 1 \in S
  <2> DEFINE h == lo - 1 + (n + 1)
  <2>1. h \in lo .. hi /\ h \in Int /\ h >= lo /\ h - 1 = lo - 1 + n
    BY <1>0
  <2>2. P(h - 1)
    BY <1>2, <2>1
  <2>3. P(h)
    <3> HIDE DEF h
    <3> DEFINE T == SumOf(lo, h - 1, t)
               U == SumOf(lo, h - 1, u)
    <3>1. t[h] \in Frac /\ u[h] \in Frac /\ T \in Frac /\ U \in Frac
      BY <2>1, <2>2 DEF Addends
    <3>2. /\ SumOf(lo, h, r) = Plus(SumOf(lo, h - 1, r), r[h])
          /\ SumOf(lo, h, t) = Plus(T, t[h]) /\ SumOf(lo, h, u) = Plus(U, u[h])
      BY <1>0, <2>1, SumStep
    <3>3. SumOf(lo, h, r) = Plus(Plus(T, U), Plus(t[h], u[h]))
      BY <2>1, <2>2, <3>2
    <3>4. Plus(Plus(T, U), Plus(t[h], u[h])) = Plus(Plus(T, t[h]), Plus(U, u[h]))
      BY <3>1, PlusSwap
    <3>5. Plus(T, t[h]) \in Frac /\ Plus(U, u[h]) \in Frac
      BY <3>1, Closed
    <3> QED
      BY <3>2, <3>3, <3>4, <3>5
  <2> QED
    BY <1>0, <2>3
<1>3. \A n \in 0 .. hi - lo + 1 : n \in S
  <2> HIDE DEF S
  <2> QED
    BY <1>0, <1>1, <1>2, UpTo
<1>4. hi - lo + 1 \in 0 .. hi - lo + 1 /\ lo - 1 + (hi - lo + 1) = hi
  BY <1>0
<1>5. P(hi)
  BY <1>3, <1>4
<1> QED
  BY <1>5

\* A factor of every term is one of the sum.
LEMMA SumTimes ==
  ASSUME NEW lo, NEW hi, NEW c \in Frac, NEW r, NEW t, Bounds(lo, hi),
         Addends(t, lo, hi),
         \A k \in lo .. hi : r[k] = Times(c, t[k])
  PROVE  /\ SumOf(lo, hi, t) \in Frac
         /\ SumOf(lo, hi, r) = Times(c, SumOf(lo, hi, t))
<1> DEFINE P(h) == /\ SumOf(lo, h, t) \in Frac
                   /\ SumOf(lo, h, r) = Times(c, SumOf(lo, h, t))
           S == {n \in 0 .. hi - lo + 1 : P(lo - 1 + n)}
<1>0. lo \in Int /\ hi \in Int /\ hi - lo + 1 \in Nat
  BY DEF Bounds
<1>1. 0 \in S
  <2>1. lo - 1 + 0 = lo - 1
    BY <1>0
  <2>2. P(lo - 1)
    <3>1. SumOf(lo, lo - 1, t) = Zero /\ SumOf(lo, lo - 1, r) = Zero
      BY <1>0, SumStep
    <3>2. Zero \in Frac /\ Times(c, Zero) = Zero
      BY Constants, Neutral
    <3> QED
      BY <3>1, <3>2
  <2> QED
    BY <1>0, <2>1, <2>2
<1>2. ASSUME NEW n \in 0 .. hi - lo + 1 - 1, n \in S
      PROVE  n + 1 \in S
  <2> DEFINE h == lo - 1 + (n + 1)
  <2>1. h \in lo .. hi /\ h \in Int /\ h >= lo /\ h - 1 = lo - 1 + n
    BY <1>0
  <2>2. P(h - 1)
    BY <1>2, <2>1
  <2>3. P(h)
    <3> HIDE DEF h
    <3>1. t[h] \in Frac /\ SumOf(lo, h - 1, t) \in Frac
      BY <2>1, <2>2 DEF Addends
    <3>2. /\ SumOf(lo, h, r) = Plus(SumOf(lo, h - 1, r), r[h])
          /\ SumOf(lo, h, t) = Plus(SumOf(lo, h - 1, t), t[h])
      BY <1>0, <2>1, SumStep
    <3>3. SumOf(lo, h, r) = Plus(Times(c, SumOf(lo, h - 1, t)), Times(c, t[h]))
      BY <2>1, <2>2, <3>2
    <3>4. Times(c, Plus(SumOf(lo, h - 1, t), t[h])) = Plus(Times(c, SumOf(lo, h - 1, t)), Times(c, t[h]))
      BY <3>1, Distributive
    <3>5. Plus(SumOf(lo, h - 1, t), t[h]) \in Frac
      BY <3>1, Closed
    <3> QED
      BY <3>2, <3>3, <3>4, <3>5
  <2> QED
    BY <1>0, <2>3
<1>3. \A n \in 0 .. hi - lo + 1 : n \in S
  <2> HIDE DEF S
  <2> QED
    BY <1>0, <1>1, <1>2, UpTo
<1>4. hi - lo + 1 \in 0 .. hi - lo + 1 /\ lo - 1 + (hi - lo + 1) = hi
  BY <1>0
<1>5. P(hi)
  BY <1>3, <1>4
<1> QED
  BY <1>5

\* Leading terms that are zero can be left out.
LEMMA SumSkip ==
  ASSUME NEW lo, NEW hi, NEW t, NEW m \in Int, lo <= m, Bounds(lo, hi),
         Addends(t, lo, hi), \A k \in lo .. hi : k < m => t[k] = Zero
  PROVE  /\ hi < m => SumOf(lo, hi, t) = Zero
         /\ hi >= m - 1 => SumOf(lo, hi, t) = SumOf(m, hi, t)
<1> DEFINE P(h) == /\ h < m => SumOf(lo, h, t) = Zero
                   /\ h >= m - 1 => SumOf(lo, h, t) = SumOf(m, h, t)
           S == {n \in 0 .. hi - lo + 1 : P(lo - 1 + n)}
<1>0. lo \in Int /\ hi \in Int /\ hi - lo + 1 \in Nat
  BY DEF Bounds
<1>1. 0 \in S
  <2>1. lo - 1 + 0 = lo - 1
    BY <1>0
  <2>2. P(lo - 1)
    <3>1. SumOf(lo, lo - 1, t) = Zero /\ SumOf(m, m - 1, t) = Zero
      BY <1>0, SumStep
    <3>2. lo - 1 >= m - 1 => lo - 1 = m - 1
      BY <1>0
    <3> QED
      BY <3>1, <3>2
  <2> QED
    BY <1>0, <2>1, <2>2
<1>2. ASSUME NEW n \in 0 .. hi - lo + 1 - 1, n \in S
      PROVE  n + 1 \in S
  <2> DEFINE h == lo - 1 + (n + 1)
  <2>1. h \in lo .. hi /\ h \in Int /\ h >= lo /\ h - 1 = lo - 1 + n
    BY <1>0
  <2>2. P(h - 1)
    BY <1>2, <2>1
  <2>3. P(h)
    <3> HIDE DEF h
    <3>1. SumOf(lo, h, t) = Plus(SumOf(lo, h - 1, t), t[h])
      BY <1>0, <2>1, SumStep
    <3>2. SumOf(m, m - 1, t) = Zero
      BY SumStep
    <3>3. CASE h < m
      <4>1. h - 1 < m /\ t[h] = Zero
        BY <2>1, <3>3
      <4>2. SumOf(lo, h, t) = Zero
        <5>1. SumOf(lo, h - 1, t) = Zero
          BY <2>2, <4>1
        <5>2. Plus(Zero, Zero) = Zero
          BY Neutral, Constants
        <5> QED
          BY <3>1, <4>1, <5>1, <5>2
      <4>3. h >= m - 1 => h = m - 1
        BY <2>1, <3>3
      <4> QED
        BY <3>2, <4>2, <4>3
    <3>4. CASE h >= m
      <4>1. SumOf(m, h, t) = Plus(SumOf(m, h - 1, t), t[h])
        BY <2>1, <3>4, SumStep
      <4>2. h - 1 >= m - 1 /\ ~ (h < m)
        BY <2>1, <3>4
      <4> QED
        BY <2>2, <3>1, <4>1, <4>2
    <3> QED
      BY <2>1, <3>3, <3>4
  <2> QED
    BY <1>0, <2>3
<1>3. \A n \in 0 .. hi - lo + 1 : n \in S
  <2> HIDE DEF S
  <2> QED
    BY <1>0, <1>1, <1>2, UpTo, Z3
<1>4. hi - lo + 1 \in 0 .. hi - lo + 1 /\ lo - 1 + (hi - lo + 1) = hi
  BY <1>0
<1>5. P(hi)
  BY <1>3, <1>4
<1> QED
  BY <1>5

\* The first term can be added last.
LEMMA SumFromFirst ==
  ASSUME NEW lo, NEW hi, NEW t, Bounds(lo, hi),
         Addends(t, lo, hi)
  PROVE  hi >= lo => /\ SumOf(lo + 1, hi, t) \in Frac
                    /\ SumOf(lo, hi, t) = Plus(t[lo], SumOf(lo + 1, hi, t))
<1> DEFINE P(h) == h >= lo => /\ SumOf(lo + 1, h, t) \in Frac
                              /\ SumOf(lo, h, t) = Plus(t[lo], SumOf(lo + 1, h, t))
           S == {n \in 0 .. hi - lo + 1 : P(lo - 1 + n)}
<1>0. lo \in Int /\ hi \in Int /\ hi - lo + 1 \in Nat
  BY DEF Bounds
<1>1. 0 \in S
  <2>1. lo - 1 + 0 = lo - 1
    BY <1>0
  <2>2. P(lo - 1)
    BY <1>0
  <2> QED
    BY <1>0, <2>1, <2>2
<1>2. ASSUME NEW n \in 0 .. hi - lo + 1 - 1, n \in S
      PROVE  n + 1 \in S
  <2> DEFINE h == lo - 1 + (n + 1)
  <2>1. h \in lo .. hi /\ h \in Int /\ h >= lo /\ h - 1 = lo - 1 + n
    BY <1>0
  <2>2. P(h - 1)
    BY <1>2, <2>1
  <2>3. P(h)
    <3> HIDE DEF h
    <3>1. SumOf(lo, h, t) = Plus(SumOf(lo, h - 1, t), t[h])
      BY <1>0, <2>1, SumStep
    <3>2. t[lo] \in Frac /\ t[h] \in Frac
      <4>1. lo \in lo .. hi
        BY <1>0, <2>1
      <4> QED
        BY <2>1, <4>1 DEF Addends
    <3>3. CASE h = lo
      <4>1. SumOf(lo, lo - 1, t) = Zero /\ SumOf(lo + 1, (lo + 1) - 1, t) = Zero /\ (lo + 1) - 1 = lo
        <5>1. lo + 1 \in Int /\ (lo + 1) - 1 = lo
          BY <1>0
        <5> QED
          BY <1>0, <5>1, SumStep
      <4>2. Plus(Zero, t[lo]) = t[lo] /\ Plus(t[lo], Zero) = t[lo] /\ Zero \in Frac
        BY <3>2, Neutral, Constants
      <4> QED
        BY <3>1, <3>2, <3>3, <4>1, <4>2
    <3>4. CASE h > lo
      <4>1. h - 1 >= lo /\ lo + 1 \in Int /\ h >= lo + 1
        BY <1>0, <2>1, <3>4
      <4>2. SumOf(lo + 1, h, t) = Plus(SumOf(lo + 1, h - 1, t), t[h])
        BY <2>1, <4>1, SumStep
      <4>3. /\ SumOf(lo + 1, h - 1, t) \in Frac
            /\ SumOf(lo, h - 1, t) = Plus(t[lo], SumOf(lo + 1, h - 1, t))
        BY <2>2, <4>1
      <4>4. Plus(t[lo], Plus(SumOf(lo + 1, h - 1, t), t[h]))
              = Plus(Plus(t[lo], SumOf(lo + 1, h - 1, t)), t[h])
        BY <3>2, <4>3, PlusAssoc
      <4>5. Plus(SumOf(lo + 1, h - 1, t), t[h]) \in Frac
        BY <3>2, <4>3, Closed
      <4> QED
        BY <3>1, <4>2, <4>3, <4>4, <4>5
    <3> QED
      BY <2>1, <1>0, <3>3, <3>4
  <2> QED
    BY <1>0, <2>3
<1>3. \A n \in 0 .. hi - lo + 1 : n \in S
  <2> HIDE DEF S
  <2> QED
    BY <1>0, <1>1, <1>2, UpTo
<1>4. hi - lo + 1 \in 0 .. hi - lo + 1 /\ lo - 1 + (hi - lo + 1) = hi
  BY <1>0
<1>5. P(hi)
  BY <1>3, <1>4
<1> QED
  BY <1>5

\* A sum with one term that is not zero.
LEMMA SumOfOne ==
  ASSUME NEW lo, NEW hi, NEW t, NEW j, Bounds(lo, hi),
         t[j] \in Frac, \A k \in lo .. hi : k # j => t[k] = Zero,
         j \in Int, lo <= j
  PROVE  SumOf(lo, hi, t) = IF hi < j THEN Zero ELSE t[j]
<1> DEFINE P(h) == SumOf(lo, h, t) = IF h < j THEN Zero ELSE t[j]
           S == {n \in 0 .. hi - lo + 1 : P(lo - 1 + n)}
<1>0. lo \in Int /\ hi \in Int /\ hi - lo + 1 \in Nat
  BY DEF Bounds
<1>1. 0 \in S
  <2>1. lo - 1 + 0 = lo - 1
    BY <1>0
  <2>2. P(lo - 1)
    BY <1>0, SumStep
  <2> QED
    BY <1>0, <2>1, <2>2
<1>2. ASSUME NEW n \in 0 .. hi - lo + 1 - 1, n \in S
      PROVE  n + 1 \in S
  <2> DEFINE h == lo - 1 + (n + 1)
  <2>1. h \in lo .. hi /\ h \in Int /\ h >= lo /\ h - 1 = lo - 1 + n
    BY <1>0
  <2>2. P(h - 1)
    BY <1>2, <2>1
  <2>3. P(h)
    <3> HIDE DEF h
    <3>1. SumOf(lo, h, t) = Plus(SumOf(lo, h - 1, t), t[h])
      BY <1>0, <2>1, SumStep
    <3>2. CASE h < j
      BY <2>1, <2>2, <3>1, <3>2, Neutral, Constants
    <3>3. CASE h = j
      BY <2>1, <2>2, <3>1, <3>3, Neutral
    <3>4. CASE h > j
      <4>1. ~ (h - 1 < j) /\ t[h] = Zero
        BY <2>1, <3>4
      <4> QED
        BY <2>1, <2>2, <3>1, <3>4, <4>1, Neutral
    <3> QED
      BY <2>1, <3>2, <3>3, <3>4
  <2> QED
    BY <1>0, <2>3
<1>3. \A n \in 0 .. hi - lo + 1 : n \in S
  <2> HIDE DEF S
  <2> QED
    BY <1>0, <1>1, <1>2, UpTo
<1>4. hi - lo + 1 \in 0 .. hi - lo + 1 /\ lo - 1 + (hi - lo + 1) = hi
  BY <1>0
<1>5. P(hi)
  BY <1>3, <1>4
<1> QED
  BY <1>5

Row(G, i, p, q) == SumOf(p, q, [j \in p .. q |-> G[i][j]])
Col(G, j, lo, h) == SumOf(lo, h, [i \in lo .. h |-> G[i][j]])

\* A table is summed by rows or by columns.
LEMMA SumExchange ==
  ASSUME NEW lo, NEW hi, NEW p, NEW q, NEW G, Bounds(p, q), Bounds(lo, hi),
         \A i \in lo .. hi, j \in p .. q : G[i][j] \in Frac
  PROVE  SumOf(lo, hi, [i \in lo .. hi |-> Row(G, i, p, q)])
           = SumOf(p, q, [j \in p .. q |-> Col(G, j, lo, hi)])
<1> DEFINE P(h) == SumOf(lo, h, [i \in lo .. h |-> Row(G, i, p, q)])
           = SumOf(p, q, [j \in p .. q |-> Col(G, j, lo, h)])
           S == {n \in 0 .. hi - lo + 1 : P(lo - 1 + n)}
<1>0. lo \in Int /\ hi \in Int /\ hi - lo + 1 \in Nat
  BY DEF Bounds
<1>1. 0 \in S
  <2>1. lo - 1 + 0 = lo - 1
    BY <1>0
  <2>2. P(lo - 1)
    <3>1. \A j \in p .. q : [k \in p .. q |-> Col(G, k, lo, lo - 1)][j] = Zero
      BY <1>0, SumStep DEF Col
    <3>2. SumOf(p, q, [j \in p .. q |-> Col(G, j, lo, lo - 1)]) = Zero
      BY <3>1, SumZero
    <3> QED
      BY <1>0, <3>2, SumStep
  <2>3. 0 \in 0 .. hi - lo + 1 /\ P(lo - 1 + 0)
    <3> HIDE DEF P
    <3> QED
      BY <1>0, <2>1, <2>2
  <2> QED
    BY <2>3
<1>2. ASSUME NEW n \in 0 .. hi - lo + 1 - 1, n \in S
      PROVE  n + 1 \in S
  <2> DEFINE h == lo - 1 + (n + 1)
  <2>1. h \in lo .. hi /\ h \in Int /\ h >= lo /\ h - 1 = lo - 1 + n
    BY <1>0
  <2>2. P(h - 1)
    BY <1>2, <2>1
  <2>3. P(h)
    <3> HIDE DEF h
    <3> DEFINE R(e) == [i \in lo .. e |-> Row(G, i, p, q)]
               C(e) == [j \in p .. q |-> Col(G, j, lo, e)]
               last == [j \in p .. q |-> G[h][j]]
    <3>1. SumOf(lo, h, R(h)) = Plus(SumOf(lo, h - 1, R(h)), SumOf(p, q, last))
      <4>1. SumOf(lo, h, R(h)) = Plus(SumOf(lo, h - 1, R(h)), R(h)[h])
        BY <1>0, <2>1, SumStep
      <4>2. R(h)[h] = SumOf(p, q, last)
        BY <1>0, <2>1 DEF Row
      <4> QED
        BY <4>1, <4>2
    <3>2. SumOf(lo, h - 1, R(h)) = SumOf(lo, h - 1, R(h - 1))
      <4>1. Bounds(lo, h - 1) /\ \A k \in lo .. h - 1 : R(h)[k] = R(h - 1)[k]
        BY <1>0, <2>1 DEF Bounds
      <4> HIDE DEF R
      <4> QED
        BY <4>1, SumSame
    <3>3. \A j \in p .. q : /\ C(h)[j] = Plus(C(h - 1)[j], last[j])
                            /\ C(h - 1)[j] \in Frac /\ last[j] \in Frac
      <4> TAKE j \in p .. q
      <4> DEFINE c(e) == [i \in lo .. e |-> G[i][j]]
      <4>1. SumOf(lo, h, c(h)) = Plus(SumOf(lo, h - 1, c(h)), c(h)[h])
        BY <1>0, <2>1, SumStep
      <4>2. Bounds(lo, h - 1) /\ \A k \in lo .. h - 1 : c(h)[k] = c(h - 1)[k]
        <5>1. Bounds(lo, h - 1)
          BY <1>0, <2>1 DEF Bounds
        <5>2. \A k \in lo .. h - 1 : k \in lo .. h
          BY <1>0, <2>1
        <5> QED
          BY <5>1, <5>2
      <4>3. c(h)[h] = G[h][j] /\ G[h][j] \in Frac
        BY <1>0, <2>1
      <4>4. Addends(c(h - 1), lo, h - 1)
        BY <1>0, <2>1 DEF Addends
      <4>5. C(h)[j] = SumOf(lo, h, c(h)) /\ C(h - 1)[j] = SumOf(lo, h - 1, c(h - 1)) /\ last[j] = G[h][j]
        BY DEF Col
      <4> HIDE DEF c, C, last
      <4>6. SumOf(lo, h - 1, c(h)) = SumOf(lo, h - 1, c(h - 1)) /\ SumOf(lo, h - 1, c(h - 1)) \in Frac
        BY <4>2, <4>4, SumSame, SumType
      <4> QED
        BY <4>1, <4>3, <4>5, <4>6
    <3>4. SumOf(p, q, C(h)) = Plus(SumOf(p, q, C(h - 1)), SumOf(p, q, last))
      <4>1. Addends(C(h - 1), p, q) /\ Addends(last, p, q)
        BY <3>3 DEF Addends
      <4> HIDE DEF C, last
      <4> QED
        BY <3>3, <4>1, SumPlus
    <3> QED
      BY <2>2, <3>1, <3>2, <3>4
  <2> QED
    BY <1>0, <2>3
<1>3. \A n \in 0 .. hi - lo + 1 : n \in S
  <2> HIDE DEF S
  <2> QED
    BY <1>0, <1>1, <1>2, UpTo
<1>4. hi - lo + 1 \in 0 .. hi - lo + 1 /\ lo - 1 + (hi - lo + 1) = hi
  BY <1>0
<1>5. P(hi)
  BY <1>3, <1>4
<1> QED
  BY <1>5

-----------------------------------------------------------------------------
(* Rows of matrices and vectors.                                            *)

Vec(n) == [0 .. n - 1 -> Frac]

\* The products of two rows from place l on, and those before place h, added.
Dot(n, r, x, l) == SumOf(l, n - 1, [j \in l .. n - 1 |-> Times(r[j], x[j])])
Low(r, x, h) == SumOf(0, h - 1, [j \in 0 .. h - 1 |-> Times(r[j], x[j])])

\* The product of a row and a vector: its type, that it depends on the entries
\* only, its first term, and that of no places.
LEMMA DotType ==
  ASSUME NEW n \in Nat, NEW r \in Vec(n), NEW x \in Vec(n), NEW l \in 0 .. n
  PROVE  Dot(n, r, x, l) \in Frac
<1> DEFINE t == [j \in l .. n - 1 |-> Times(r[j], x[j])]
<1>1. \A j \in l .. n - 1 : t[j] = Times(r[j], x[j]) /\ r[j] \in Frac /\ x[j] \in Frac
  BY DEF Vec
<1>2. Addends(t, l, n - 1)
  <2> HIDE DEF t
  <2> QED
    BY <1>1, Closed DEF Addends
<1>3. Bounds(l, n - 1)
  BY DEF Bounds
<1> HIDE DEF t
<1>4. SumOf(l, n - 1, t) \in Frac
  BY <1>2, <1>3, SumType
<1> QED
  BY <1>4 DEF Dot, t

LEMMA DotSame ==
  ASSUME NEW n \in Nat, NEW l \in 0 .. n, NEW r, NEW x, NEW p, NEW y,
         \A j \in l .. n - 1 : r[j] = p[j] /\ x[j] = y[j]
  PROVE  Dot(n, r, x, l) = Dot(n, p, y, l)
<1>1. \A j \in l .. n - 1 : [i \in l .. n - 1 |-> Times(r[i], x[i])][j]
                          = [i \in l .. n - 1 |-> Times(p[i], y[i])][j]
  OBVIOUS
<1>2. Bounds(l, n - 1)
  BY DEF Bounds
<1> QED
  BY <1>1, <1>2, SumSame DEF Dot

LEMMA DotFirst ==
  ASSUME NEW n \in Nat, NEW r \in Vec(n), NEW x \in Vec(n), NEW l \in 0 .. n - 1
  PROVE  Dot(n, r, x, l) = Plus(Times(r[l], x[l]), Dot(n, r, x, l + 1))
<1> DEFINE t == [j \in l .. n - 1 |-> Times(r[j], x[j])]
           u == [j \in l + 1 .. n - 1 |-> Times(r[j], x[j])]
<1>1. \A j \in l .. n - 1 : t[j] = Times(r[j], x[j]) /\ r[j] \in Frac /\ x[j] \in Frac
  BY DEF Vec
<1>2. \A j \in l + 1 .. n - 1 : t[j] = u[j]
  OBVIOUS
<1>3. Bounds(l, n - 1) /\ Bounds(l + 1, n - 1) /\ n - 1 >= l /\ l \in l .. n - 1
  BY DEF Bounds
<1>4. Dot(n, r, x, l) = SumOf(l, n - 1, t) /\ Dot(n, r, x, l + 1) = SumOf(l + 1, n - 1, u)
  BY DEF Dot
<1> HIDE DEF t, u
<1>5. Addends(t, l, n - 1)
  BY <1>1, Closed DEF Addends
<1>6. SumOf(l, n - 1, t) = Plus(t[l], SumOf(l + 1, n - 1, t))
  BY <1>3, <1>5, SumFromFirst
<1>7. SumOf(l + 1, n - 1, t) = SumOf(l + 1, n - 1, u)
  BY <1>2, <1>3, SumSame
<1> QED
  BY <1>1, <1>3, <1>4, <1>6, <1>7

LEMMA DotNone ==
  ASSUME NEW n \in Nat, NEW r, NEW x
  PROVE  Dot(n, r, x, n) = Zero
BY SumStep DEF Dot

\* The same of the places before h.
LEMMA LowType ==
  ASSUME NEW h \in Nat, NEW r, NEW x, \A j \in 0 .. h - 1 : r[j] \in Frac /\ x[j] \in Frac
  PROVE  Low(r, x, h) \in Frac
<1> DEFINE t == [j \in 0 .. h - 1 |-> Times(r[j], x[j])]
<1>1. \A j \in 0 .. h - 1 : t[j] = Times(r[j], x[j])
  OBVIOUS
<1> HIDE DEF t
<1>2. Addends(t, 0, h - 1)
  BY <1>1, Closed DEF Addends
<1>3. Bounds(0, h - 1)
  BY DEF Bounds
<1>4. SumOf(0, h - 1, t) \in Frac
  BY <1>2, <1>3, SumType
<1> QED
  BY <1>4 DEF Low, t

LEMMA LowSame ==
  ASSUME NEW h \in Nat, NEW r, NEW x, NEW p, NEW y,
         \A j \in 0 .. h - 1 : r[j] = p[j] /\ x[j] = y[j]
  PROVE  Low(r, x, h) = Low(p, y, h)
<1>1. \A j \in 0 .. h - 1 : [i \in 0 .. h - 1 |-> Times(r[i], x[i])][j]
                          = [i \in 0 .. h - 1 |-> Times(p[i], y[i])][j]
  OBVIOUS
<1>2. Bounds(0, h - 1)
  BY DEF Bounds
<1> QED
  BY <1>1, <1>2, SumSame DEF Low

LEMMA LowZero ==
  ASSUME NEW h \in Nat, NEW r, NEW x,
         \A j \in 0 .. h - 1 : r[j] \in Frac /\ x[j] = Zero
  PROVE  Low(r, x, h) = Zero
<1> DEFINE t == [j \in 0 .. h - 1 |-> Times(r[j], x[j])]
<1>1. \A j \in 0 .. h - 1 : t[j] = Times(r[j], x[j])
  OBVIOUS
<1> HIDE DEF t
<1>2. \A j \in 0 .. h - 1 : t[j] = Zero
  BY <1>1, Neutral
<1>3. Bounds(0, h - 1)
  BY DEF Bounds
<1>4. SumOf(0, h - 1, t) = Zero
  BY <1>2, <1>3, SumZero
<1> QED
  BY <1>4 DEF Low, t

LEMMA LowStep ==
  ASSUME NEW h \in Nat, NEW r, NEW x
  PROVE  Low(r, x, h + 1) = Plus(Low(r, x, h), Times(r[h], x[h]))
<1> DEFINE t == [j \in 0 .. h |-> Times(r[j], x[j])]
           u == [j \in 0 .. h - 1 |-> Times(r[j], x[j])]
<1>1. \A j \in 0 .. h - 1 : t[j] = u[j]
  OBVIOUS
<1>2. t[h] = Times(r[h], x[h]) /\ h + 1 - 1 = h
  OBVIOUS
<1>3. Low(r, x, h + 1) = SumOf(0, h, t) /\ Low(r, x, h) = SumOf(0, h - 1, u)
  BY <1>2 DEF Low
<1> HIDE DEF t, u
<1>4. Bounds(0, h - 1) /\ h \in Int /\ h >= 0
  BY DEF Bounds
<1>5. SumOf(0, h, t) = Plus(SumOf(0, h - 1, t), t[h])
  BY <1>4, SumStep
<1>6. SumOf(0, h - 1, t) = SumOf(0, h - 1, u)
  BY <1>1, <1>4, SumSame
<1> QED
  BY <1>2, <1>3, <1>5, <1>6

\* A row of which f times the row p, which has the pivot in place k, was
\* taken away, leaving q.
LEMMA Reduction ==
  ASSUME NEW n \in Nat, NEW k \in 0 .. n - 1,
         NEW r \in Vec(n), NEW p \in Vec(n), NEW q \in Vec(n), NEW x \in Vec(n), NEW f \in Frac,
         Times(f, p[k]) = r[k],
         \A j \in k + 1 .. n - 1 : q[j] = Minus(r[j], Times(f, p[j]))
  PROVE  Dot(n, r, x, k) = Plus(Times(f, Dot(n, p, x, k)), Dot(n, q, x, k + 1))
<1> DEFINE P == [j \in k + 1 .. n - 1 |-> Times(p[j], x[j])]
           Q == [j \in k + 1 .. n - 1 |-> Times(q[j], x[j])]
           R == [j \in k + 1 .. n - 1 |-> Times(r[j], x[j])]
           F == [j \in k + 1 .. n - 1 |-> Times(f, P[j])]
<1>1. \A j \in k + 1 .. n - 1 : r[j] \in Frac /\ p[j] \in Frac /\ q[j] \in Frac /\ x[j] \in Frac
  BY DEF Vec
<1>2. r[k] \in Frac /\ p[k] \in Frac /\ x[k] \in Frac
  BY DEF Vec
<1>3. \A j \in k + 1 .. n - 1 : /\ P[j] = Times(p[j], x[j]) /\ Q[j] = Times(q[j], x[j])
                                /\ R[j] = Times(r[j], x[j]) /\ F[j] = Times(f, P[j])
  OBVIOUS
<1>4. /\ Dot(n, p, x, k + 1) = SumOf(k + 1, n - 1, P)
      /\ Dot(n, q, x, k + 1) = SumOf(k + 1, n - 1, Q)
      /\ Dot(n, r, x, k + 1) = SumOf(k + 1, n - 1, R)
  BY DEF Dot
<1> HIDE DEF P, Q, R, F
<1>5. Addends(P, k + 1, n - 1) /\ Addends(Q, k + 1, n - 1)
  BY <1>1, <1>3, Closed DEF Addends
<1>6. Addends(F, k + 1, n - 1)
  BY <1>3, <1>5, Closed DEF Addends
<1>7. \A j \in k + 1 .. n - 1 : R[j] = Plus(F[j], Q[j])
  <2> TAKE j \in k + 1 .. n - 1
  <2>1. Times(f, p[j]) \in Frac /\ q[j] = Minus(r[j], Times(f, p[j]))
    BY <1>1, Closed
  <2>2. Plus(q[j], Times(f, p[j])) = r[j]
    BY <1>1, <2>1, MinusPlus
  <2>3. Plus(Times(f, p[j]), q[j]) = r[j]
    BY <1>1, <2>1, <2>2, PlusComm
  <2>4. Times(x[j], Plus(Times(f, p[j]), q[j])) = Plus(Times(x[j], Times(f, p[j])), Times(x[j], q[j]))
    BY <1>1, <2>1, Distributive
  <2>5. Times(x[j], r[j]) = Times(r[j], x[j]) /\ Times(x[j], q[j]) = Times(q[j], x[j])
    BY <1>1, TimesComm
  <2>6. Times(x[j], Times(f, p[j])) = Times(Times(f, p[j]), x[j])
    BY <1>1, <2>1, TimesComm
  <2>7. Times(Times(f, p[j]), x[j]) = Times(f, Times(p[j], x[j]))
    BY <1>1, TimesAssoc
  <2> QED
    BY <1>3, <2>3, <2>4, <2>5, <2>6, <2>7
<1>8. Bounds(k + 1, n - 1)
  BY DEF Bounds
<1> DEFINE D == SumOf(k + 1, n - 1, P)
           E == SumOf(k + 1, n - 1, Q)
<1>9. D \in Frac /\ SumOf(k + 1, n - 1, F) = Times(f, D)
  BY <1>3, <1>5, <1>8, SumTimes
<1>10. E \in Frac /\ SumOf(k + 1, n - 1, R) = Plus(Times(f, D), E)
  BY <1>5, <1>6, <1>7, <1>8, <1>9, SumPlus
<1>11. Dot(n, r, x, k) = Plus(Times(r[k], x[k]), Plus(Times(f, D), E))
  BY <1>4, <1>10, DotFirst
<1>12. Dot(n, p, x, k) = Plus(Times(p[k], x[k]), D)
  BY <1>4, DotFirst
<1> HIDE DEF D, E
<1>13. Times(p[k], x[k]) \in Frac /\ Times(f, D) \in Frac /\ Times(r[k], x[k]) \in Frac
  BY <1>2, <1>9, Closed
<1>14. Times(f, Plus(Times(p[k], x[k]), D)) = Plus(Times(f, Times(p[k], x[k])), Times(f, D))
  BY <1>9, <1>13, Distributive
<1>15. Times(f, Times(p[k], x[k])) = Times(r[k], x[k])
  BY <1>2, TimesAssoc
<1>16. Plus(Times(r[k], x[k]), Plus(Times(f, D), E)) = Plus(Plus(Times(r[k], x[k]), Times(f, D)), E)
  BY <1>10, <1>13, PlusAssoc
<1>17. Dot(n, q, x, k + 1) = E
  BY <1>4 DEF E
<1> QED
  BY <1>11, <1>12, <1>14, <1>15, <1>16, <1>17

-----------------------------------------------------------------------------
(* Elimination, on matrices as functions from rows to rows.                 *)

Tab(n) == [0 .. n - 1 -> Vec(n)]

\* The product of a matrix and a vector.
Image(n, F, x) == [i \in 0 .. n - 1 |-> Dot(n, F[i], x, 0)]

\* The product with the upper triangle of M; and row i of the product with
\* M when k columns of it are eliminated: before its diagonal or column k
\* the factors are stored, from there on what is left of the row.
Tails(n, M, x) == [l \in 0 .. n - 1 |-> Dot(n, M[l], x, l)]
Right(n, M, x, k, i) ==
  LET h == IF i < k THEN i ELSE k
  IN Plus(Low(M[i], Tails(n, M, x), h), Dot(n, M[i], x, h))

\* v with places k and l exchanged.
Swapped(n, v, k, l) ==
  [i \in 0 .. n - 1 |-> CASE i = k -> v[l] [] i = l -> v[k] [] OTHER -> v[i]]

\* Types, and the parts of which Right is made.
LEMMA ImageType ==
  ASSUME NEW n \in Nat, NEW F \in Tab(n), NEW x \in Vec(n)
  PROVE  Image(n, F, x) \in Vec(n)
<1>1. \A i \in 0 .. n - 1 : Dot(n, F[i], x, 0) \in Frac
  <2> TAKE i \in 0 .. n - 1
  <2>1. F[i] \in Vec(n) /\ 0 \in 0 .. n
    BY DEF Tab
  <2> QED
    BY <2>1, DotType
<1> QED
  BY <1>1 DEF Image, Vec

LEMMA TailsType ==
  ASSUME NEW n \in Nat, NEW M \in Tab(n), NEW x \in Vec(n)
  PROVE  Tails(n, M, x) \in Vec(n)
<1>1. \A i \in 0 .. n - 1 : Dot(n, M[i], x, i) \in Frac
  <2> TAKE i \in 0 .. n - 1
  <2>1. M[i] \in Vec(n) /\ i \in 0 .. n
    BY DEF Tab
  <2> QED
    BY <2>1, DotType
<1> QED
  BY <1>1 DEF Tails, Vec

LEMMA TabRows ==
  ASSUME NEW n, NEW M \in Tab(n), NEW i \in 0 .. n - 1
  PROVE  M[i] \in Vec(n) /\ \A j \in 0 .. n - 1 : M[i][j] \in Frac
BY DEF Tab, Vec

LEMMA RightParts ==
  ASSUME NEW n \in Nat, NEW M \in Tab(n), NEW x \in Vec(n), NEW k \in 0 .. n,
         NEW i \in 0 .. n - 1, NEW h, h = IF i < k THEN i ELSE k
  PROVE  /\ h \in 0 .. n - 1 \/ h = k
         /\ h \in 0 .. n /\ h <= i
         /\ Low(M[i], Tails(n, M, x), h) \in Frac /\ Dot(n, M[i], x, h) \in Frac
         /\ Right(n, M, x, k, i) = Plus(Low(M[i], Tails(n, M, x), h), Dot(n, M[i], x, h))
         /\ Right(n, M, x, k, i) \in Frac
<1>1. h \in 0 .. n /\ h \in Nat /\ h <= i /\ (h \in 0 .. n - 1 \/ h = k)
  OBVIOUS
<1>2. M[i] \in Vec(n) /\ \A j \in 0 .. n - 1 : M[i][j] \in Frac
  BY TabRows
<1>3. \A j \in 0 .. n - 1 : Tails(n, M, x)[j] \in Frac
  BY TailsType DEF Vec
<1>4. \A j \in 0 .. h - 1 : M[i][j] \in Frac /\ Tails(n, M, x)[j] \in Frac
  BY <1>1, <1>2, <1>3
<1>5. Low(M[i], Tails(n, M, x), h) \in Frac
  <2> DEFINE T == Tails(n, M, x)
             r == M[i]
  <2>1. \A j \in 0 .. h - 1 : r[j] \in Frac /\ T[j] \in Frac
    BY <1>4
  <2> HIDE DEF T, r
  <2>2. Low(r, T, h) \in Frac
    BY <1>1, <2>1, LowType
  <2> QED
    BY <2>2 DEF T, r
<1>6. Dot(n, M[i], x, h) \in Frac
  BY <1>1, <1>2, DotType
<1>7. Right(n, M, x, k, i) = Plus(Low(M[i], Tails(n, M, x), h), Dot(n, M[i], x, h))
  BY DEF Right
<1> QED
  BY <1>1, <1>5, <1>6, <1>7, Closed

\* Before the first column it is the product with M itself.
LEMMA RightOfNone ==
  ASSUME NEW n \in Nat, NEW M \in Tab(n), NEW x \in Vec(n), NEW i \in 0 .. n - 1
  PROVE  Right(n, M, x, 0, i) = Dot(n, M[i], x, 0)
<1>1. ~ (i < 0) /\ 0 \in 0 .. n
  OBVIOUS
<1>2. /\ Dot(n, M[i], x, 0) \in Frac
      /\ Right(n, M, x, 0, i) = Plus(Low(M[i], Tails(n, M, x), 0), Dot(n, M[i], x, 0))
  BY <1>1, RightParts
<1>3. Low(M[i], Tails(n, M, x), 0) = Zero
  BY SumStep DEF Low
<1> QED
  BY <1>2, <1>3, Neutral

\* A row above the diagonal of M: what is stored in it, with its own tail.
LEMMA RightExchanged ==
  ASSUME NEW n \in Nat, NEW M \in Tab(n), NEW x \in Vec(n), NEW k \in 0 .. n - 1,
         NEW l \in k .. n - 1, NEW c,
         \A i \in 0 .. n - 1 : c[i] = Right(n, M, x, k, i)
  PROVE  /\ Swapped(n, M, k, l) \in Tab(n)
         /\ \A i \in 0 .. n - 1 :
              Swapped(n, c, k, l)[i] = Right(n, Swapped(n, M, k, l), x, k, i)
<1> DEFINE W == Swapped(n, M, k, l)
           row(i) == CASE i = k -> l [] i = l -> k [] OTHER -> i
<1>1. \A i \in 0 .. n - 1 : /\ row(i) \in 0 .. n - 1 /\ W[i] = M[row(i)]
                            /\ Swapped(n, c, k, l)[i] = c[row(i)]
                            /\ (i < k <=> row(i) < k) /\ (i < k => row(i) = i)
  BY DEF Swapped
<1>2. W \in Tab(n)
  BY <1>1 DEF Swapped, Tab
<1> HIDE DEF W, row
<1>3. ASSUME NEW i \in 0 .. n - 1
      PROVE  Right(n, M, x, k, row(i)) = Right(n, W, x, k, i)
  <2> DEFINE h == IF i < k THEN i ELSE k
  <2>1. h = (IF row(i) < k THEN row(i) ELSE k) /\ h \in Nat /\ h <= k
    BY <1>1
  <2>2. \A j \in 0 .. h - 1 : Tails(n, W, x)[j] = Tails(n, M, x)[j]
    <3> TAKE j \in 0 .. h - 1
    <3>1. j \in 0 .. n - 1 /\ j < k
      BY <2>1
    <3>2. W[j] = M[j]
      BY <1>1, <3>1
    <3> QED
      BY <3>1, <3>2 DEF Tails
  <2> HIDE DEF h
  <2>3. Low(M[row(i)], Tails(n, M, x), h) = Low(W[i], Tails(n, W, x), h)
    <3>1. W[i] = M[row(i)]
      BY <1>1
    <3> QED
      BY <3>1, <2>1, <2>2, LowSame
  <2> QED
    BY <1>1, <2>1, <2>3 DEF Right, h
<1> QED
  BY <1>1, <1>2, <1>3 DEF W

\* Eliminating column k below row k leaves the product as it is.
LEMMA RightEliminated ==
  ASSUME NEW n \in Nat, NEW M \in Tab(n), NEW W \in Tab(n), NEW x \in Vec(n), NEW k \in 0 .. n - 1,
         \A i \in 0 .. k : W[i] = M[i],
         \A i \in k + 1 .. n - 1 :
            /\ \A j \in 0 .. k - 1 : W[i][j] = M[i][j]
            /\ Times(W[i][k], M[k][k]) = M[i][k]
            /\ \A j \in k + 1 .. n - 1 : W[i][j] = Minus(M[i][j], Times(W[i][k], M[k][j]))
  PROVE  \A i \in 0 .. n - 1 : Right(n, W, x, k + 1, i) = Right(n, M, x, k, i)
<1> DEFINE T == Tails(n, M, x)
           U == Tails(n, W, x)
<1>1. \A j \in 0 .. k : T[j] = U[j]
  <2> TAKE j \in 0 .. k
  <2>1. j \in 0 .. n - 1 /\ W[j] = M[j]
    OBVIOUS
  <2> QED
    BY <2>1 DEF Tails
<1>2. ASSUME NEW i \in 0 .. k
      PROVE  Right(n, W, x, k + 1, i) = Right(n, M, x, k, i)
  <2>1. W[i] = M[i] /\ i < k + 1 /\ (IF i < k + 1 THEN i ELSE k + 1) = i /\ (IF i < k THEN i ELSE k) = i
    OBVIOUS
  <2>2. \A j \in 0 .. i - 1 : T[j] = U[j]
    BY <1>1
  <2> HIDE DEF T, U
  <2>3. Low(M[i], T, i) = Low(M[i], U, i)
    BY <2>2, LowSame
  <2> QED
    BY <2>1, <2>3 DEF Right, T, U
<1>3. ASSUME NEW i \in k + 1 .. n - 1
      PROVE  Right(n, W, x, k + 1, i) = Right(n, M, x, k, i)
  <2> DEFINE f == W[i][k]
  <2>1. ~ (i < k + 1) /\ ~ (i < k) /\ i \in 0 .. n - 1 /\ k + 1 \in 0 .. n /\ k \in 0 .. n
    OBVIOUS
  <2>2. M[i] \in Vec(n) /\ M[k] \in Vec(n) /\ W[i] \in Vec(n) /\ f \in Frac
    BY <2>1, TabRows
  <2>3. Dot(n, M[i], x, k) = Plus(Times(f, Dot(n, M[k], x, k)), Dot(n, W[i], x, k + 1))
    BY <2>2, Reduction
  <2>4. T[k] = Dot(n, M[k], x, k) /\ T[k] = U[k]
    BY <1>1 DEF Tails
  <2>5. Low(W[i], U, k + 1) = Plus(Low(W[i], U, k), Times(f, U[k]))
    BY LowStep
  <2>6. Low(W[i], U, k) = Low(M[i], T, k)
    <3>1. \A j \in 0 .. k - 1 : W[i][j] = M[i][j] /\ U[j] = T[j]
      BY <1>1, <2>1
    <3> HIDE DEF T, U
    <3> QED
      BY <3>1, LowSame
  <2>7. /\ Low(M[i], T, k) \in Frac
        /\ Right(n, M, x, k, i) = Plus(Low(M[i], T, k), Dot(n, M[i], x, k))
    BY <2>1, RightParts
  <2>8. /\ Dot(n, W[i], x, k + 1) \in Frac
        /\ Right(n, W, x, k + 1, i) = Plus(Low(W[i], U, k + 1), Dot(n, W[i], x, k + 1))
    BY <2>1, RightParts
  <2>9. Times(f, T[k]) \in Frac
    <3>1. T[k] \in Frac
      BY <2>1, <2>2, <2>4, DotType
    <3> QED
      BY <3>1, <2>2, Closed
  <2> HIDE DEF T, U, f
  <2>10. Plus(Low(M[i], T, k), Plus(Times(f, T[k]), Dot(n, W[i], x, k + 1)))
           = Plus(Plus(Low(M[i], T, k), Times(f, T[k])), Dot(n, W[i], x, k + 1))
    BY <2>7, <2>8, <2>9, PlusAssoc
  <2> QED
    BY <2>3, <2>4, <2>5, <2>6, <2>7, <2>8, <2>10
<1>4. \A i \in 0 .. n - 1 : i \in 0 .. k \/ i \in k + 1 .. n - 1
  OBVIOUS
<1> QED
  BY <1>2, <1>3, <1>4

-----------------------------------------------------------------------------
(* The exchanges that were made, one after the other.                       *)

IsChain(n, C, b, indx, k) ==
  C[0] = b /\ \A l \in 0 .. k - 1 : C[l + 1] = Swapped(n, C[l], l, indx[l])

\* The exchanges of places made one after the other, their type, and that they
\* can be undone.
LEMMA ChainExists ==
  ASSUME NEW n, NEW b, NEW indx
  PROVE  \A k \in Nat : \E C : IsChain(n, C, b, indx, k)
<1> DEFINE S == {k \in Nat : \E C : IsChain(n, C, b, indx, k)}
<1>1. 0 \in S
  <2>1. IsChain(n, [l \in {0} |-> b], b, indx, 0)
    BY DEF IsChain
  <2> QED
    BY <2>1
<1>2. ASSUME NEW k \in Nat, k \in S
      PROVE  k + 1 \in S
  <2>1. PICK C : IsChain(n, C, b, indx, k)
    BY <1>2
  <2> DEFINE D == [l \in 0 .. k + 1 |-> IF l = k + 1 THEN Swapped(n, C[k], k, indx[k]) ELSE C[l]]
  <2>2. \A l \in 0 .. k - 1 : D[l + 1] = Swapped(n, D[l], l, indx[l])
    BY <2>1 DEF IsChain
  <2>3. D[k + 1] = Swapped(n, D[k], k, indx[k]) /\ D[0] = b
    BY <2>1 DEF IsChain
  <2>4. \A l \in 0 .. k + 1 - 1 : l \in 0 .. k - 1 \/ l = k
    OBVIOUS
  <2> HIDE DEF D
  <2>5. IsChain(n, D, b, indx, k + 1)
    BY <2>2, <2>3, <2>4 DEF IsChain
  <2> QED
    BY <2>5
<1> HIDE DEF S
<1>3. \A k \in Nat : k \in S
  BY <1>1, <1>2, ForAllNumbers
<1> QED
  BY <1>3 DEF S

LEMMA ChainType ==
  ASSUME NEW n \in Nat, NEW b \in Vec(n), NEW indx, NEW k \in 0 .. n, NEW C,
         \A l \in 0 .. k - 1 : indx[l] \in 0 .. n - 1,
         IsChain(n, C, b, indx, k)
  PROVE  \A l \in 0 .. k : C[l] \in Vec(n)
<1> DEFINE S == {l \in 0 .. k : C[l] \in Vec(n)}
<1>1. 0 \in S
  BY DEF IsChain
<1>2. ASSUME NEW l \in 0 .. k - 1, l \in S
      PROVE  l + 1 \in S
  <2>1. C[l] \in Vec(n) /\ l \in 0 .. n - 1 /\ indx[l] \in 0 .. n - 1 /\ l + 1 \in 0 .. k
    BY <1>2
  <2>2. C[l + 1] = Swapped(n, C[l], l, indx[l])
    BY DEF IsChain
  <2>3. C[l + 1] \in Vec(n)
    BY <2>1, <2>2 DEF Swapped, Vec
  <2> QED
    BY <2>1, <2>3
<1> HIDE DEF S
<1>3. \A l \in 0 .. k : l \in S
  BY <1>1, <1>2, UpTo
<1> QED
  BY <1>3 DEF S

\* The exchanges can be undone.
LEMMA SwapBack ==
  ASSUME NEW n \in Nat, NEW v \in Vec(n), NEW w \in Vec(n),
         NEW k \in 0 .. n - 1, NEW l \in 0 .. n - 1,
         Swapped(n, v, k, l) = Swapped(n, w, k, l)
  PROVE  v = w
<1>1. \A i \in 0 .. n - 1 : Swapped(n, v, k, l)[i] = Swapped(n, w, k, l)[i]
  OBVIOUS
<1>2. Swapped(n, v, k, l)[k] = v[l] /\ Swapped(n, w, k, l)[k] = w[l]
  BY DEF Swapped
<1>3. Swapped(n, v, k, l)[l] = v[k] /\ Swapped(n, w, k, l)[l] = w[k]
  BY DEF Swapped
<1>4. \A i \in 0 .. n - 1 : i # k /\ i # l => Swapped(n, v, k, l)[i] = v[i] /\ Swapped(n, w, k, l)[i] = w[i]
  BY DEF Swapped
<1>5. \A i \in 0 .. n - 1 : v[i] = w[i]
  BY <1>1, <1>2, <1>3, <1>4
<1> QED
  BY <1>5 DEF Vec

LEMMA ChainBack ==
  ASSUME NEW n \in Nat, NEW b \in Vec(n), NEW c \in Vec(n), NEW indx, NEW k \in 0 .. n,
         NEW C, NEW D,
         \A l \in 0 .. k - 1 : indx[l] \in 0 .. n - 1,
         IsChain(n, C, b, indx, k), IsChain(n, D, c, indx, k), C[k] = D[k]
  PROVE  b = c
<1> DEFINE S == {t \in 0 .. k : C[k - t] = D[k - t]}
<1>1. 0 \in S
  OBVIOUS
<1>2. ASSUME NEW t \in 0 .. k - 1, t \in S
      PROVE  t + 1 \in S
  <2> DEFINE l == k - (t + 1)
  <2>1. l \in 0 .. k - 1 /\ l + 1 = k - t /\ l \in 0 .. k /\ l \in 0 .. n - 1
    OBVIOUS
  <2>2. C[l + 1] = D[l + 1]
    BY <1>2, <2>1
  <2> HIDE DEF l
  <2>3. C[l + 1] = Swapped(n, C[l], l, indx[l]) /\ D[l + 1] = Swapped(n, D[l], l, indx[l])
    BY <2>1 DEF IsChain
  <2>4. C[l] \in Vec(n) /\ D[l] \in Vec(n)
    BY <2>1, ChainType
  <2>5. C[l] = D[l]
    <3>1. indx[l] \in 0 .. n - 1
      BY <2>1
    <3>2. Swapped(n, C[l], l, indx[l]) = Swapped(n, D[l], l, indx[l])
      BY <2>2, <2>3
    <3> QED
      BY <2>1, <2>4, <3>1, <3>2, SwapBack
  <2> QED
    BY <2>5 DEF l
<1> HIDE DEF S
<1>3. \A t \in 0 .. k : t \in S
  BY <1>1, <1>2, UpTo
<1>4. k \in S /\ k - k = 0
  BY <1>3
<1> QED
  BY <1>4 DEF S, IsChain

\* A chain that starts with zeros ends with zeros.
LEMMA ChainOfZeros ==
  ASSUME NEW n \in Nat, NEW indx, NEW k \in 0 .. n,
         \A l \in 0 .. k - 1 : indx[l] \in 0 .. n - 1
  PROVE  IsChain(n, [l \in 0 .. k |-> [i \in 0 .. n - 1 |-> Zero]], [i \in 0 .. n - 1 |-> Zero], indx, k)
<1> DEFINE Z == [i \in 0 .. n - 1 |-> Zero]
<1>1. \A l \in 0 .. k - 1 : Swapped(n, Z, l, indx[l]) = Z
  BY DEF Swapped
<1> QED
  BY <1>1 DEF IsChain

-----------------------------------------------------------------------------
(* What the two triangles of a decomposed matrix determine.                 *)

\* Cancelling a factor, and a term on the left.
LEMMA TimesCancel ==
  ASSUME NEW c \in Frac, c # Zero, NEW x \in Frac, NEW y \in Frac, Times(c, x) = Times(c, y)
  PROVE  x = y
<1>1. Over(One, c) \in Frac /\ Times(Over(One, c), c) = One
  BY Constants, OverTimes
<1> DEFINE e == Over(One, c)
<1> HIDE DEF e
<1>2. Times(Times(e, c), x) = Times(e, Times(c, x)) /\ Times(Times(e, c), y) = Times(e, Times(c, y))
  BY <1>1, TimesAssoc DEF e
<1>3. Times(One, x) = x /\ Times(One, y) = y
  BY Neutral
<1> QED
  BY <1>1, <1>2, <1>3 DEF e

LEMMA PlusCancelLeft ==
  ASSUME NEW x \in Frac, NEW y \in Frac, NEW z \in Frac, Plus(z, x) = Plus(z, y)
  PROVE  x = y
<1>1. Plus(x, z) = Plus(z, x) /\ Plus(y, z) = Plus(z, y)
  BY PlusComm
<1> QED
  BY <1>1, PlusCancel

\* The product with zeros.
LEMMA DotZero ==
  ASSUME NEW n \in Nat, NEW l \in 0 .. n, NEW r \in Vec(n), NEW x,
         \A j \in l .. n - 1 : x[j] = Zero
  PROVE  Dot(n, r, x, l) = Zero
<1> DEFINE t == [j \in l .. n - 1 |-> Times(r[j], x[j])]
<1>1. \A j \in l .. n - 1 : r[j] \in Frac /\ t[j] = Times(r[j], Zero)
  BY DEF Vec
<1> HIDE DEF t
<1>2. \A j \in l .. n - 1 : t[j] = Zero
  BY <1>1, Neutral
<1>3. Bounds(l, n - 1)
  BY DEF Bounds
<1>4. SumOf(l, n - 1, t) = Zero
  BY <1>2, <1>3, SumZero
<1> QED
  BY <1>4 DEF Dot, t

\* The lower triangle, with ones on the diagonal, determines a vector.
LEMMA LowerUnique ==
  ASSUME NEW n \in Nat, NEW M \in Tab(n), NEW y \in Vec(n), NEW z \in Vec(n),
         \A i \in 0 .. n - 1 : Plus(Low(M[i], y, i), y[i]) = Plus(Low(M[i], z, i), z[i])
  PROVE  y = z
<1> DEFINE S == {k \in 0 .. n : \A i \in 0 .. k - 1 : y[i] = z[i]}
<1>1. 0 \in S
  OBVIOUS
<1>2. ASSUME NEW k \in 0 .. n - 1, k \in S
      PROVE  k + 1 \in S
  <2>1. \A i \in 0 .. k - 1 : y[i] = z[i]
    BY <1>2
  <2>2. Low(M[k], y, k) = Low(M[k], z, k)
    BY <2>1, LowSame
  <2>3. \A j \in 0 .. k - 1 : M[k][j] \in Frac /\ y[j] \in Frac
    BY TabRows DEF Vec
  <2>4. Low(M[k], y, k) \in Frac
    <3> DEFINE r == M[k]
    <3>1. \A j \in 0 .. k - 1 : r[j] \in Frac /\ y[j] \in Frac
      BY <2>3
    <3> HIDE DEF r
    <3>2. Low(r, y, k) \in Frac
      BY <3>1, LowType
    <3> QED
      BY <3>2 DEF r
  <2>5. y[k] \in Frac /\ z[k] \in Frac
    BY DEF Vec
  <2>6. Plus(Low(M[k], y, k), y[k]) = Plus(Low(M[k], y, k), z[k])
    BY <2>2
  <2> DEFINE d == Low(M[k], y, k)
  <2> HIDE DEF d
  <2>7. y[k] = z[k]
    BY <2>4, <2>5, <2>6, PlusCancelLeft DEF d
  <2> QED
    BY <2>1, <2>7
<1> HIDE DEF S
<1>3. \A k \in 0 .. n : k \in S
  BY <1>1, <1>2, UpTo
<1>4. \A i \in 0 .. n - 1 : y[i] = z[i]
  BY <1>3 DEF S
<1> QED
  BY <1>4 DEF Vec

\* So does the upper triangle, if there is no zero on the diagonal.
LEMMA UpperUnique ==
  ASSUME NEW n \in Nat, NEW M \in Tab(n), NEW y \in Vec(n), NEW z \in Vec(n),
         \A i \in 0 .. n - 1 : M[i][i] # Zero,
         \A i \in 0 .. n - 1 : Dot(n, M[i], y, i) = Dot(n, M[i], z, i)
  PROVE  y = z
<1> DEFINE S == {t \in 0 .. n : \A i \in n - t .. n - 1 : y[i] = z[i]}
<1>1. 0 \in S
  OBVIOUS
<1>2. ASSUME NEW t \in 0 .. n - 1, t \in S
      PROVE  t + 1 \in S
  <2> DEFINE i == n - (t + 1)
  <2>1. i \in 0 .. n - 1 /\ i + 1 = n - t /\ i + 1 \in 0 .. n
    OBVIOUS
  <2>2. \A j \in i + 1 .. n - 1 : y[j] = z[j]
    BY <1>2, <2>1
  <2> HIDE DEF i
  <2>3. M[i] \in Vec(n) /\ M[i][i] \in Frac /\ y[i] \in Frac /\ z[i] \in Frac
    BY <2>1, TabRows DEF Vec
  <2>4. Dot(n, M[i], y, i + 1) = Dot(n, M[i], z, i + 1)
    BY <2>1, <2>2, DotSame
  <2>5. Dot(n, M[i], y, i + 1) \in Frac
    BY <2>1, <2>3, DotType
  <2>6. /\ Dot(n, M[i], y, i) = Plus(Times(M[i][i], y[i]), Dot(n, M[i], y, i + 1))
        /\ Dot(n, M[i], z, i) = Plus(Times(M[i][i], z[i]), Dot(n, M[i], z, i + 1))
    BY <2>1, <2>3, DotFirst
  <2> DEFINE d == Dot(n, M[i], y, i + 1)
             p == Times(M[i][i], y[i])
             q == Times(M[i][i], z[i])
  <2>7. p \in Frac /\ q \in Frac
    BY <2>3, Closed
  <2>8. Plus(p, d) = Plus(q, d)
    BY <2>1, <2>4, <2>6
  <2>9. p = q
    <3> HIDE DEF p, q, d
    <3> QED
      BY <2>5, <2>7, <2>8, PlusCancel DEF d
  <2>10. y[i] = z[i]
    BY <2>1, <2>3, <2>9, TimesCancel
  <2>11. \A j \in n - (t + 1) .. n - 1 : j = i \/ j \in i + 1 .. n - 1
    BY <2>1 DEF i
  <2> QED
    BY <2>2, <2>10, <2>11
<1> HIDE DEF S
<1>3. \A t \in 0 .. n : t \in S
  BY <1>1, <1>2, UpTo
<1>4. \A i \in 0 .. n - 1 : y[i] = z[i]
  <2>1. n \in S /\ n - n = 0
    BY <1>3
  <2> QED
    BY <2>1 DEF S
<1> QED
  BY <1>4 DEF Vec

\* When no entry from the diagonal down in column k is left to divide by,
\* something that is not zero is mapped to zero.
LEMMA KernelFrom ==
  ASSUME NEW n \in Nat, NEW M \in Tab(n), NEW k \in 0 .. n - 1,
         \A i \in 0 .. k - 1 : M[i][i] # Zero
  PROVE  \E z \in Vec(n) : /\ z[k] = One /\ \A j \in k + 1 .. n - 1 : z[j] = Zero
                           /\ \A i \in 0 .. k - 1 : Dot(n, M[i], z, i) = Zero
<1> DEFINE Q(z, t) == /\ z[k] = One /\ \A j \in k + 1 .. n - 1 : z[j] = Zero
                      /\ \A i \in k - t .. k - 1 : Dot(n, M[i], z, i) = Zero
           S == {t \in 0 .. k : \E z \in Vec(n) : Q(z, t)}
<1>1. 0 \in S
  <2> DEFINE z == [i \in 0 .. n - 1 |-> IF i = k THEN One ELSE Zero]
  <2>1. z \in Vec(n)
    BY Constants DEF Vec
  <2>2. Q(z, 0)
    OBVIOUS
  <2> HIDE DEF z, Q
  <2> QED
    BY <2>1, <2>2
<1>2. ASSUME NEW t \in 0 .. k - 1, t \in S
      PROVE  t + 1 \in S
  <2> DEFINE i == k - (t + 1)
  <2>1. i \in 0 .. n - 1 /\ i \in 0 .. k - 1 /\ i + 1 = k - t /\ i + 1 \in 0 .. n
    OBVIOUS
  <2>2. PICK z \in Vec(n) : Q(z, t)
    BY <1>2
  <2> HIDE DEF i
  <2> DEFINE d == Dot(n, M[i], z, i + 1)
             e == Over(Minus(Zero, d), M[i][i])
             y == [j \in 0 .. n - 1 |-> IF j = i THEN e ELSE z[j]]
  <2>3. M[i] \in Vec(n) /\ M[i][i] \in Frac /\ M[i][i] # Zero
    BY <2>1, TabRows
  <2>4. d \in Frac
    BY <2>1, <2>3, DotType
  <2> HIDE DEF d
  <2>5. Minus(Zero, d) \in Frac
    BY <2>4, Constants, Closed
  <2>6. e \in Frac /\ Times(e, M[i][i]) = Minus(Zero, d)
    BY <2>3, <2>5, OverTimes
  <2> HIDE DEF e
  <2>7. Times(M[i][i], e) = Minus(Zero, d)
    BY <2>3, <2>6, TimesComm
  <2>8. \A j \in 0 .. n - 1 : y[j] = IF j = i THEN e ELSE z[j]
    OBVIOUS
  <2>9. y \in Vec(n)
    BY <2>6 DEF Vec
  <2> HIDE DEF y
  <2>10. Dot(n, M[i], y, i + 1) = d
    <3>1. \A j \in i + 1 .. n - 1 : y[j] = z[j]
      BY <2>1, <2>8
    <3> QED
      BY <2>1, <3>1, DotSame DEF d
  <2>11. Dot(n, M[i], y, i) = Plus(Times(M[i][i], y[i]), Dot(n, M[i], y, i + 1))
    BY <2>1, <2>3, <2>9, DotFirst
  <2>12. Dot(n, M[i], y, i) = Zero
    BY <2>1, <2>4, <2>7, <2>8, <2>10, <2>11, Constants, MinusPlus
  <2>13. \A l \in i + 1 .. k - 1 : Dot(n, M[l], y, l) = Zero
    <3> TAKE l \in i + 1 .. k - 1
    <3>1. l \in 0 .. n /\ \A j \in l .. n - 1 : y[j] = z[j]
      BY <2>1, <2>8
    <3>2. Dot(n, M[l], y, l) = Dot(n, M[l], z, l)
      BY <3>1, DotSame
    <3> QED
      BY <2>1, <2>2, <3>2
  <2>14. Q(y, t + 1)
    <3>1. \A l \in k - (t + 1) .. k - 1 : l = i \/ l \in i + 1 .. k - 1
      BY <2>1 DEF i
    <3>2. y[k] = One /\ \A j \in k + 1 .. n - 1 : y[j] = Zero
      BY <2>1, <2>2, <2>8
    <3> QED
      BY <2>12, <2>13, <3>1, <3>2
  <2> HIDE DEF Q
  <2> QED
    BY <2>9, <2>14
<1> HIDE DEF S
<1>3. \A t \in 0 .. k : t \in S
  BY <1>1, <1>2, UpTo
<1>4. k \in S /\ k - k = 0
  BY <1>3
<1> QED
  BY <1>4 DEF S

\* When there is no pivot in column k, a vector with 1 at place k is mapped to 0.
LEMMA KernelAt ==
  ASSUME NEW n \in Nat, NEW M \in Tab(n), NEW k \in 0 .. n - 1,
         \A i \in 0 .. k - 1 : M[i][i] # Zero,
         \A i \in k .. n - 1 : M[i][k] = Zero
  PROVE  \E z \in Vec(n) : z[k] = One /\ \A i \in 0 .. n - 1 : Right(n, M, z, k, i) = Zero
<1>1. PICK z \in Vec(n) : /\ z[k] = One /\ \A j \in k + 1 .. n - 1 : z[j] = Zero
                          /\ \A i \in 0 .. k - 1 : Dot(n, M[i], z, i) = Zero
  BY KernelFrom
<1> DEFINE T == Tails(n, M, z)
<1>2. \A l \in 0 .. k - 1 : T[l] = Zero
  BY <1>1 DEF Tails
<1>3. ASSUME NEW i \in 0 .. n - 1
      PROVE  Right(n, M, z, k, i) = Zero
  <2> DEFINE h == IF i < k THEN i ELSE k
  <2>1. h \in Nat /\ h <= k /\ h <= i /\ h \in 0 .. n
    OBVIOUS
  <2>2. Right(n, M, z, k, i) = Plus(Low(M[i], T, h), Dot(n, M[i], z, h))
    BY DEF Right
  <2>3. \A j \in 0 .. h - 1 : M[i][j] \in Frac /\ T[j] = Zero
    BY <2>1, <1>2, TabRows
  <2>4. Low(M[i], T, h) = Zero
    <3> DEFINE r == M[i]
    <3>1. \A j \in 0 .. h - 1 : r[j] \in Frac /\ T[j] = Zero
      BY <2>3
    <3> HIDE DEF r, T, h
    <3>2. Low(r, T, h) = Zero
      BY <2>1, <3>1, LowZero
    <3> QED
      BY <3>2 DEF r
  <2>5. Dot(n, M[i], z, h) = Zero
    <3>1. CASE i < k
      BY <1>1, <3>1
    <3>2. CASE ~ (i < k)
      <4>1. M[i] \in Vec(n) /\ M[i][k] = Zero /\ k + 1 \in 0 .. n
        BY <3>2, TabRows
      <4>2. Dot(n, M[i], z, k) = Plus(Times(M[i][k], z[k]), Dot(n, M[i], z, k + 1))
        BY <4>1, DotFirst
      <4>3. Dot(n, M[i], z, k + 1) = Zero
        BY <1>1, <4>1, DotZero
      <4>4. Times(Zero, One) = Zero /\ Plus(Zero, Zero) = Zero
        BY Constants, Neutral
      <4> QED
        BY <1>1, <3>2, <4>1, <4>2, <4>3, <4>4
    <3> QED
      BY <3>1, <3>2
  <2>6. Plus(Zero, Zero) = Zero
    BY Constants, Neutral
  <2> QED
    BY <2>2, <2>4, <2>5, <2>6
<1> QED
  BY <1>1, <1>3

-----------------------------------------------------------------------------
(* Square matrices of fractions as they are stored.                         *)

FracMat(n) == [rows : {n}, cols : {n}, vals : [0 .. n * n - 1 -> Frac]]
Table(a) == [i \in Rows(a) |-> [j \in Rows(a) |-> Entry(a, i, j)]]

\* The place of an entry, and the entry of a place.
LEMMA Cell ==
  ASSUME NEW n \in Nat \ {0}
  PROVE  /\ \A i, j \in 0 .. n - 1 : /\ j + i * n \in 0 .. n * n - 1
                                     /\ (j + i * n) \div n = i /\ (j + i * n) % n = j
         /\ \A pos \in 0 .. n * n - 1 : /\ pos \div n \in 0 .. n - 1 /\ pos % n \in 0 .. n - 1
                                        /\ (pos % n) + (pos \div n) * n = pos
<1>1. ASSUME NEW i \in 0 .. n - 1, NEW j \in 0 .. n - 1
      PROVE  /\ j + i * n \in 0 .. n * n - 1
             /\ (j + i * n) \div n = i /\ (j + i * n) % n = j
  <2> DEFINE m == i * n
  <2>1. m \in Nat /\ m <= (n - 1) * n /\ (n - 1) * n = n * n - n
    <3>1. i * n <= (n - 1) * n
      <4>1. (n - 1 - i) * n >= 0
        OBVIOUS
      <4>2. (n - 1 - i) * n = (n - 1) * n - i * n
        OBVIOUS
      <4> QED
        BY <4>1, <4>2
    <3> QED
      BY <3>1
  <2> DEFINE p == j + i * n
             q == p \div n
             e == p % n
  <2>2. p \in Int /\ p \in 0 .. n * n - 1
    BY <2>1
  <2> HIDE DEF p
  <2>3. q \in Int /\ e \in 0 .. n - 1 /\ p = n * q + e
    BY <2>2, DivisionIs
  <2> HIDE DEF q, e
  <2>4. n * (q - i) = j - e
    BY <2>3 DEF p
  <2>5. j - e < n /\ j - e > -n
    BY <2>3
  <2>6. q = i
    <3>1. CASE q - i >= 1
      <4>1. n * (q - i) >= n
        BY <2>3, <3>1
      <4> QED
        BY <2>4, <2>5, <4>1, <2>3
    <3>2. CASE q - i <= -1
      <4>1. n * (q - i) <= -n
        BY <2>3, <3>2
      <4> QED
        BY <2>4, <2>5, <4>1, <2>3
    <3> QED
      BY <3>1, <3>2, <2>3
  <2>7. e = j
    BY <2>3, <2>4, <2>6
  <2> QED
    BY <2>2, <2>6, <2>7 DEF p, q, e
<1>2. ASSUME NEW pos \in 0 .. n * n - 1
      PROVE  /\ pos \div n \in 0 .. n - 1 /\ pos % n \in 0 .. n - 1
             /\ (pos % n) + (pos \div n) * n = pos
  <2> DEFINE q == pos \div n
             e == pos % n
  <2>1. pos \in Nat /\ pos \in Int /\ n * n \in Int /\ pos < n * n
    OBVIOUS
  <2>2. q \in Nat /\ e \in 0 .. n - 1 /\ pos = n * q + e
    <3>1. q \in Int /\ e \in 0 .. n - 1 /\ pos = n * q + e
      BY <2>1, DivisionIs
    <3>2. q \in Nat
      BY <2>1, DivisionIs
    <3> QED
      BY <3>1, <3>2
  <2> HIDE DEF q, e
  <2>3. n * q < n * n
    BY <2>1, <2>2
  <2>4. q < n
    <3>1. ASSUME q >= n PROVE FALSE
      <4>1. n * q >= n * n
        <5>1. n * (q - n) >= 0
          BY <2>2, <3>1
        <5>2. n * (q - n) = n * q - n * n
          BY <2>2
        <5> QED
          BY <5>1, <5>2, <2>2
      <4> QED
        BY <2>2, <2>3, <4>1
    <3> QED
      BY <3>1, <2>2
  <2> QED
    BY <2>2, <2>4 DEF q, e
<1> QED
  BY <1>1, <1>2

\* The entries of a matrix as it is stored, which determine it.
LEMMA TableIs ==
  ASSUME NEW n \in Nat \ {0}, NEW a \in FracMat(n)
  PROVE  /\ Table(a) \in Tab(n) /\ Rows(a) = 0 .. n - 1 /\ a.rows = n /\ a.cols = n
         /\ \A i, j \in 0 .. n - 1 : Table(a)[i][j] = Entry(a, i, j) /\ Entry(a, i, j) \in Frac
<1>1. a.rows = n /\ a.cols = n /\ Rows(a) = 0 .. n - 1 /\ a.vals \in [0 .. n * n - 1 -> Frac]
  BY DEF FracMat, Rows
<1>2. \A i, j \in 0 .. n - 1 : Entry(a, i, j) \in Frac
  BY <1>1, Cell DEF Entry
<1> QED
  BY <1>1, <1>2 DEF Table, Tab, Vec

\* What Mat makes of entries.
LEMMA TableOf ==
  ASSUME NEW n \in Nat \ {0}, NEW G \in Tab(n), NEW a,
         a = [rows |-> n, cols |-> n,
              vals |-> [pos \in 0 .. n * n - 1 |-> G[pos \div n][pos % n]]]
  PROVE  a \in FracMat(n) /\ Table(a) = G
<1>1. \A pos \in 0 .. n * n - 1 : G[pos \div n][pos % n] \in Frac
  BY Cell DEF Tab, Vec
<1>2. a \in FracMat(n)
  BY <1>1 DEF FracMat
<1>3. \A i, j \in 0 .. n - 1 : Entry(a, i, j) = G[i][j]
  <2> TAKE i, j \in 0 .. n - 1
  <2>1. /\ j + i * n \in 0 .. n * n - 1
        /\ (j + i * n) \div n = i /\ (j + i * n) % n = j
    BY Cell
  <2> DEFINE p == j + i * n
  <2>2. Entry(a, i, j) = a.vals[p]
    BY DEF Entry
  <2> HIDE DEF p
  <2>3. a.vals[p] = G[p \div n][p % n]
    BY <2>1 DEF p
  <2> QED
    BY <2>1, <2>2, <2>3 DEF p
<1>4. Rows(a) = 0 .. n - 1
  BY DEF Rows
<1>5. Table(a) = [i \in 0 .. n - 1 |-> [j \in 0 .. n - 1 |-> G[i][j]]]
  BY <1>3, <1>4 DEF Table
<1>6. G = [i \in 0 .. n - 1 |-> [j \in 0 .. n - 1 |-> G[i][j]]]
  BY DEF Tab, Vec
<1> QED
  BY <1>2, <1>5, <1>6

LEMMA SameTable ==
  ASSUME NEW n \in Nat \ {0}, NEW a \in FracMat(n), NEW b \in FracMat(n), Table(a) = Table(b)
  PROVE  a = b
<1>1. \A i, j \in 0 .. n - 1 : Entry(a, i, j) = Entry(b, i, j)
  BY TableIs
<1>2. \A pos \in 0 .. n * n - 1 : a.vals[pos] = b.vals[pos]
  <2> TAKE pos \in 0 .. n * n - 1
  <2>1. Entry(a, pos \div n, pos % n) = Entry(b, pos \div n, pos % n)
    BY <1>1, Cell
  <2>2. a.cols = n /\ b.cols = n
    BY DEF FracMat
  <2> QED
    BY <2>1, <2>2, Cell DEF Entry
<1> QED
  BY <1>2 DEF FracMat

-----------------------------------------------------------------------------
(* Which of several fractions is the greatest.                              *)

Positive == {x \in Frac : x.n > 0}

LEMMA FracParts ==
  ASSUME NEW x \in Frac
  PROVE  x.n \in Int /\ x.d \in Nat \ {0}
BY HasValue

\* The order of the fractions.
LEMMA GreaterTrans ==
  ASSUME NEW x \in Frac, NEW y \in Frac, NEW z \in Frac, Greater(x, y)
  PROVE  ~ Greater(z, y) => Greater(x, z)
<1> HAVE ~ Greater(z, y)
<1> DEFINE a == x.n
           b == x.d
           c == y.n
           d == y.d
           e == z.n
           f == z.d
<1>1. a \in Int /\ b \in Nat \ {0} /\ c \in Int /\ d \in Nat \ {0} /\ e \in Int /\ f \in Nat \ {0}
  BY FracParts
<1>2. a * d > c * b /\ ~ (e * d > c * f)
  BY DEF Greater
<1> HIDE DEF a, b, c, d, e, f
<1>3. (a * d) * f > (c * b) * f
  BY <1>1, <1>2
<1>4. (c * f) * b >= (e * d) * b
  BY <1>1, <1>2
<1>5. (a * f) * d > (e * b) * d
  BY <1>1, <1>3, <1>4
<1>6. a * f > e * b
  BY <1>1, <1>5
<1> QED
  BY <1>6 DEF Greater, a, b, e, f

LEMMA GreaterOrder ==
  ASSUME NEW x \in Frac, NEW y \in Frac
  PROVE  ~ Greater(x, x) /\ (Greater(x, y) => ~ Greater(y, x))
BY FracParts DEF Greater

\* The first greatest element is there, and nothing is greater.
LEMMA FirstGreatestIs ==
  ASSUME NEW lo \in Nat, NEW hi \in Nat, lo <= hi, NEW v,
         \A i \in lo .. hi : v[i] \in Frac
  PROVE  LET g == FirstGreatest(lo .. hi, v)
         IN g \in lo .. hi /\ \A j \in lo .. hi : ~ Greater(v[j], v[g])
<1> DEFINE Q(g, h) == \A j \in lo .. h : IF j < g THEN Greater(v[g], v[j]) ELSE ~ Greater(v[j], v[g])
           S == {t \in 0 .. hi - lo : \E g \in lo .. lo + t : Q(g, lo + t)}
<1>1. 0 \in S
  <2>1. ~ Greater(v[lo], v[lo])
    BY GreaterOrder
  <2>2. Q(lo, lo + 0)
    BY <2>1
  <2> HIDE DEF Q
  <2> QED
    BY <2>2
<1>2. ASSUME NEW t \in 0 .. hi - lo - 1, t \in S
      PROVE  t + 1 \in S
  <2> DEFINE h == lo + (t + 1)
  <2>1. h \in lo .. hi /\ h - 1 = lo + t /\ h \in Nat
    OBVIOUS
  <2>2. PICK g \in lo .. h - 1 : Q(g, h - 1)
    BY <1>2, <2>1
  <2> HIDE DEF h
  <2>3. \A j \in lo .. h : v[j] \in Frac
    BY <2>1
  <2>4. CASE Greater(v[h], v[g])
    <3>1. \A j \in lo .. h - 1 : ~ Greater(v[j], v[g])
      <4> TAKE j \in lo .. h - 1
      <4>1. v[j] \in Frac /\ v[g] \in Frac
        BY <2>1, <2>3
      <4> QED
        BY <2>2, <4>1, GreaterOrder
    <3>2. \A j \in lo .. h - 1 : Greater(v[h], v[j])
      <4> TAKE j \in lo .. h - 1
      <4>1. v[j] \in Frac /\ v[g] \in Frac /\ v[h] \in Frac
        BY <2>1, <2>3
      <4> QED
        BY <2>4, <3>1, <4>1, GreaterTrans
    <3>3. ~ Greater(v[h], v[h])
      BY <2>1, <2>3, GreaterOrder
    <3>4. Q(h, h)
      BY <2>1, <3>2, <3>3
    <3> HIDE DEF Q
    <3> QED
      BY <2>1, <3>4 DEF h
  <2>5. CASE ~ Greater(v[h], v[g])
    <3>1. Q(g, h)
      BY <2>1, <2>2, <2>5
    <3> HIDE DEF Q
    <3> QED
      BY <2>1, <3>1 DEF h
  <2> QED
    BY <2>4, <2>5
<1> HIDE DEF S
<1>3. \A t \in 0 .. hi - lo : t \in S
  <2>1. hi - lo \in Nat
    OBVIOUS
  <2> QED
    BY <1>1, <1>2, <2>1, UpTo
<1>4. \E g \in lo .. hi : Q(g, hi)
  <2>1. hi - lo \in S /\ lo + (hi - lo) = hi
    BY <1>3
  <2> QED
    BY <2>1 DEF S
<1> DEFINE g == FirstGreatest(lo .. hi, v)
<1>5. g \in lo .. hi /\ Q(g, hi)
  BY <1>4 DEF FirstGreatest
<1> HIDE DEF g
<1>6. \A j \in lo .. hi : ~ Greater(v[j], v[g])
  BY <1>5, GreaterOrder
<1> QED
  BY <1>5, <1>6 DEF g

\* The size of a fraction, and the sign of a product.
LEMMA FabsIs ==
  ASSUME NEW x \in Frac
  PROVE  /\ fabs(x) \in Frac /\ fabs(x).n >= 0
         /\ fabs(x).n = 0 <=> x = Zero
<1>1. PICK u \in Int, v \in Int : u * x.n + v * x.d = 1
  BY DEF Frac, Coprime
<1>2. x.n \in Int /\ x.d \in Nat \ {0} /\ x = [n |-> x.n, d |-> x.d]
  BY DEF Frac
<1>3. fabs(x) = [n |-> Abs(x.n), d |-> x.d]
  BY <1>2 DEF fabs
<1>4. Abs(x.n) \in Int /\ Abs(x.n) >= 0 /\ (Abs(x.n) = 0 <=> x.n = 0)
  BY <1>2 DEF Abs
<1>5. Coprime(Abs(x.n), x.d)
  <2>1. CASE x.n < 0
    <3>1. Abs(x.n) = -x.n /\ (-u) * (-x.n) + v * x.d = 1 /\ -u \in Int
      BY <1>1, <1>2, <2>1 DEF Abs
    <3> QED
      BY <3>1 DEF Coprime
  <2>2. CASE ~ (x.n < 0)
    BY <1>1, <2>2 DEF Abs, Coprime
  <2> QED
    BY <2>1, <2>2
<1>6. fabs(x) \in Frac
  BY <1>2, <1>3, <1>4, <1>5 DEF Frac
<1> QED
  BY <1>3, <1>4, <1>6, IsZero

LEMMA SignOfTimes ==
  ASSUME NEW x \in Frac, NEW y \in Frac
  PROVE  /\ x.n > 0 /\ y.n > 0 => Times(x, y).n > 0
         /\ x.n >= 0 /\ y.n >= 0 => Times(x, y).n >= 0
<1> DEFINE z == Times(x, y)
           a == x.n
           b == x.d
           c == y.n
           d == y.d
<1>1. Value(z, a * c, b * d)
  BY HasValue, TimesValue
<1> DEFINE p == a * c
           q == b * d
           e == z.n
           f == z.d
<1>2. a \in Int /\ b \in Nat \ {0} /\ c \in Int /\ d \in Nat \ {0}
  BY FracParts
<1>3. z \in Frac /\ e * q = p * f
  BY <1>1, ValueParts
<1>4. e \in Int /\ f \in Nat \ {0}
  BY <1>3, FracParts
<1> HIDE DEF a, b, c, d, z, e, f
<1>5. q \in Int /\ q > 0 /\ p \in Int
  BY <1>2
<1>6. (a > 0 /\ c > 0 => p > 0) /\ (a >= 0 /\ c >= 0 => p >= 0)
  BY <1>2
<1> HIDE DEF p, q
<1>7. p > 0 => e > 0
  <2> HAVE p > 0
  <2>1. p * f > 0
    BY <1>4, <1>5
  <2>2. e <= 0 => e * q <= 0
    BY <1>4, <1>5
  <2> QED
    BY <1>3, <1>4, <1>5, <2>1, <2>2
<1>8. p >= 0 => e >= 0
  <2> HAVE p >= 0
  <2>1. p * f >= 0
    BY <1>4, <1>5
  <2>2. e < 0 => e * q < 0
    BY <1>4, <1>5
  <2> QED
    BY <1>3, <1>4, <1>5, <2>1, <2>2
<1> QED
  BY <1>6, <1>7, <1>8 DEF a, c, e, z

-----------------------------------------------------------------------------
(* The decomposition.                                                       *)

LUState(n) ==
  [m : FracMat(n), d : {1, -1}, indx : [0 .. n - 1 -> 0 .. n - 1], vv : [0 .. n - 1 -> Positive]]

\* The parts of a state of the decomposition.
LEMMA LUStateParts ==
  ASSUME NEW n \in Nat \ {0}, NEW s \in LUState(n)
  PROVE  /\ s.m \in FracMat(n) /\ s.d \in {1, -1}
         /\ s.indx \in [0 .. n - 1 -> 0 .. n - 1] /\ s.vv \in [0 .. n - 1 -> Positive]
         /\ s # Singular
         /\ s.m.rows = n /\ s.m.cols = n /\ Rows(s.m) = 0 .. n - 1
<1>1. "m" \in DOMAIN s /\ "m" \notin DOMAIN Singular
  BY DEF LUState, Singular
<1>2. s # Singular
  BY <1>1
<1> QED
  BY <1>2 DEF LUState, FracMat, Rows

\* The table of a state.
LEMMA StateTable ==
  ASSUME NEW n \in Nat \ {0}, NEW s \in LUState(n), NEW M, M = Table(s.m)
  PROVE  /\ M \in Tab(n) /\ s.m.rows = n /\ s.m.cols = n
         /\ \A i, j \in 0 .. n - 1 : M[i][j] = Entry(s.m, i, j) /\ M[i][j] \in Frac
<1> DEFINE m == s.m
<1>1. m \in FracMat(n) /\ M = Table(m)
  BY LUStateParts
<1> HIDE DEF m
<1>2. /\ M \in Tab(n) /\ m.rows = n /\ m.cols = n
      /\ \A i, j \in 0 .. n - 1 : M[i][j] = Entry(m, i, j) /\ Entry(m, i, j) \in Frac
  BY <1>1, TableIs
<1>3. \A i, j \in 0 .. n - 1 : M[i][j] = Entry(m, i, j) /\ M[i][j] \in Frac
  BY <1>2
<1> QED
  BY <1>2, <1>3 DEF m

\* The row that becomes the pivot row; if its entry in column k is 0, so are
\* the others.
LEMMA PivotRowIs ==
  ASSUME NEW n \in Nat \ {0}, NEW s \in LUState(n), NEW k \in 0 .. n - 1
  PROVE  /\ PivotRow(s, k) \in k .. n - 1
         /\ Table(s.m)[PivotRow(s, k)][k] = Zero
              => \A i \in k .. n - 1 : Table(s.m)[i][k] = Zero
<1> DEFINE v == [i \in k .. n - 1 |-> Times(s.vv[i], fabs(Entry(s.m, i, k)))]
           g == FirstGreatest(k .. n - 1, v)
<1>1. s.m.rows = n /\ PivotRow(s, k) = g
  BY LUStateParts DEF PivotRow
<1>2. \A i \in k .. n - 1 : v[i] = Times(s.vv[i], fabs(Entry(s.m, i, k)))
  OBVIOUS
<1>3. \A i \in k .. n - 1 : /\ s.vv[i] \in Frac /\ s.vv[i].n > 0
                            /\ Entry(s.m, i, k) \in Frac /\ Table(s.m)[i][k] = Entry(s.m, i, k)
  BY LUStateParts, TableIs DEF Positive
<1> HIDE DEF v
<1>4. \A i \in k .. n - 1 : v[i] \in Frac
  BY <1>2, <1>3, FabsIs, Closed
<1>5. g \in k .. n - 1 /\ \A j \in k .. n - 1 : ~ Greater(v[j], v[g])
  BY <1>4, FirstGreatestIs
<1> HIDE DEF g
<1>6. ASSUME Table(s.m)[g][k] = Zero, NEW i \in k .. n - 1
      PROVE  Table(s.m)[i][k] = Zero
  <2>1. v[g] = Zero
    <3>1. fabs(Entry(s.m, g, k)) \in Frac /\ fabs(Entry(s.m, g, k)).n = 0
      BY <1>3, <1>5, <1>6, FabsIs
    <3>2. fabs(Entry(s.m, g, k)) = Zero
      BY <3>1, IsZero
    <3> QED
      BY <1>2, <1>3, <1>5, <3>2, Neutral
  <2>2. Zero.n = 0 /\ Zero.d = 1
    BY DEF Zero, Whole
  <2>3. ~ (v[i].n > 0)
    <3>1. ~ Greater(v[i], Zero)
      BY <1>5, <2>1
    <3>2. v[i].n \in Int /\ v[i].d \in Nat \ {0}
      BY <1>4, FracParts
    <3> QED
      BY <2>2, <3>1, <3>2 DEF Greater
  <2>4. ~ (fabs(Entry(s.m, i, k)).n > 0)
    <3>1. fabs(Entry(s.m, i, k)) \in Frac
      BY <1>3, FabsIs
    <3> QED
      BY <1>2, <1>3, <2>3, <3>1, SignOfTimes
  <2>5. fabs(Entry(s.m, i, k)).n = 0
    <3>1. fabs(Entry(s.m, i, k)).n \in Int /\ fabs(Entry(s.m, i, k)).n >= 0
      BY <1>3, FabsIs, FracParts
    <3> QED
      BY <2>4, <3>1
  <2> QED
    BY <1>3, <2>5, FabsIs
<1> QED
  BY <1>1, <1>5, <1>6

\* Pivoting exchanges two rows and notes which.
LEMMA PivotedIs ==
  ASSUME NEW n \in Nat \ {0}, NEW s \in LUState(n), NEW k \in 0 .. n - 1
  PROVE  /\ Pivoted(s, k) \in LUState(n)
         /\ Table(Pivoted(s, k).m) = Swapped(n, Table(s.m), k, PivotRow(s, k))
         /\ Pivoted(s, k).indx = [s.indx EXCEPT ![k] = PivotRow(s, k)]
<1> DEFINE imax == PivotRow(s, k)
           p == Pivoted(s, k)
           M == Table(s.m)
           G == Swapped(n, M, k, imax)
<1>1. imax \in k .. n - 1 /\ imax \in 0 .. n - 1
  BY PivotRowIs
<1>2. /\ M \in Tab(n) /\ s.m.rows = n /\ s.m.cols = n
      /\ \A i, j \in 0 .. n - 1 : M[i][j] = Entry(s.m, i, j)
  <2>1. s.m \in FracMat(n) /\ s.m.rows = n /\ s.m.cols = n
    BY LUStateParts
  <2> QED
    BY <2>1, TableIs
<1> HIDE DEF imax, M
<1>3. G \in Tab(n)
  BY <1>1, <1>2 DEF Swapped, Tab
<1>4. /\ p.m = Exchanged(s.m, k, imax) /\ p.d \in {1, -1}
      /\ p.indx = [s.indx EXCEPT ![k] = imax] /\ p.vv = [s.vv EXCEPT ![imax] = s.vv[k]]
      /\ p = [m |-> p.m, d |-> p.d, indx |-> p.indx, vv |-> p.vv]
  <2> DEFINE E == Exchanged(s.m, k, imax)
             D == IF imax = k THEN s.d ELSE -s.d
  <2>1. /\ s = [m |-> s.m, d |-> s.d, indx |-> s.indx, vv |-> s.vv]
        /\ s.d \in {1, -1}
    BY DEF LUState
  <2>2. p = [s EXCEPT !.m = E, !.d = D, !.vv[imax] = s.vv[k], !.indx[k] = imax]
    BY DEF Pivoted, imax
  <2>3. D \in {1, -1}
    BY <2>1
  <2> HIDE DEF E, D, p
  <2>4. p = [m |-> E, d |-> D, indx |-> [s.indx EXCEPT ![k] = imax],
             vv |-> [s.vv EXCEPT ![imax] = s.vv[k]]]
    BY <2>1, <2>2
  <2> QED
    BY <2>3, <2>4 DEF E
<1>5. Exchanged(s.m, k, imax)
        = [rows |-> n, cols |-> n, vals |-> [pos \in 0 .. n * n - 1 |-> G[pos \div n][pos % n]]]
  <2> DEFINE row(i) == CASE i = k -> imax [] i = imax -> k [] OTHER -> i
  <2>1. Exchanged(s.m, k, imax)
          = [rows |-> n, cols |-> n,
             vals |-> [pos \in 0 .. n * n - 1 |-> Entry(s.m, row(pos \div n), pos % n)]]
    BY <1>2 DEF Exchanged, Mat
  <2>2. \A pos \in 0 .. n * n - 1 : Entry(s.m, row(pos \div n), pos % n) = G[pos \div n][pos % n]
    <3> TAKE pos \in 0 .. n * n - 1
    <3> DEFINE i == pos \div n
               j == pos % n
    <3>1. i \in 0 .. n - 1 /\ j \in 0 .. n - 1
      BY Cell
    <3> HIDE DEF i, j
    <3>2. row(i) \in 0 .. n - 1 /\ G[i] = M[row(i)]
      BY <1>1, <3>1 DEF Swapped
    <3>3. Entry(s.m, row(i), j) = G[i][j]
      BY <1>2, <3>1, <3>2
    <3> QED
      BY <3>3 DEF i, j
  <2> HIDE DEF row, G
  <2> QED
    BY <2>1, <2>2
<1>6. Exchanged(s.m, k, imax) \in FracMat(n) /\ Table(Exchanged(s.m, k, imax)) = G
  <2> HIDE DEF G
  <2> QED
    BY <1>3, <1>5, TableOf
<1>7. p \in LUState(n)
  <2>1. p.indx \in [0 .. n - 1 -> 0 .. n - 1] /\ p.vv \in [0 .. n - 1 -> Positive]
    BY <1>1, <1>4, LUStateParts
  <2> HIDE DEF p
  <2> QED
    BY <1>4, <1>6, <2>1 DEF LUState
<1> QED
  BY <1>4, <1>6, <1>7 DEF imax, M

\* Elimination leaves the rows up to k, and below them what RightEliminated asks
\* for.
LEMMA EliminatedIs ==
  ASSUME NEW n \in Nat \ {0}, NEW s \in LUState(n), NEW k \in 0 .. n - 1,
         NEW M, M = Table(s.m), M[k][k] # Zero
  PROVE  /\ Eliminated(s, k) \in LUState(n) /\ Eliminated(s, k).indx = s.indx
         /\ LET W == Table(Eliminated(s, k).m)
            IN /\ W \in Tab(n)
               /\ \A i \in 0 .. k : W[i] = M[i]
               /\ \A i \in k + 1 .. n - 1 :
                    /\ \A j \in 0 .. k - 1 : W[i][j] = M[i][j]
                    /\ Times(W[i][k], M[k][k]) = M[i][k]
                    /\ \A j \in k + 1 .. n - 1 : W[i][j] = Minus(M[i][j], Times(W[i][k], M[k][j]))
<1> DEFINE e == Eliminated(s, k)
           factor(i) == Over(M[i][k], M[k][k])
           cell(i, j) == CASE i <= k \/ j < k -> M[i][j]
                           [] i > k /\ j = k -> factor(i)
                           [] OTHER -> Minus(M[i][j], Times(factor(i), M[k][j]))
           G == [i \in 0 .. n - 1 |-> [j \in 0 .. n - 1 |-> cell(i, j)]]
<1>1. /\ M \in Tab(n) /\ s.m.rows = n /\ s.m.cols = n
      /\ \A i, j \in 0 .. n - 1 : M[i][j] = Entry(s.m, i, j) /\ M[i][j] \in Frac
  BY StateTable
<1>2. \A i \in 0 .. n - 1 : factor(i) \in Frac /\ Times(factor(i), M[k][k]) = M[i][k]
  BY <1>1, OverTimes
<1>3. \A i, j \in 0 .. n - 1 : cell(i, j) \in Frac
  <2> TAKE i, j \in 0 .. n - 1
  <2> DEFINE f == factor(i)
  <2>1. f \in Frac /\ M[k][j] \in Frac /\ M[i][j] \in Frac
    BY <1>1, <1>2
  <2> HIDE DEF f
  <2>2. Minus(M[i][j], Times(f, M[k][j])) \in Frac
    BY <2>1, Closed
  <2> QED
    BY <2>1, <2>2 DEF f
<1>4. G \in Tab(n)
  <2> HIDE DEF cell
  <2> QED
    BY <1>3 DEF Tab, Vec
<1>5. e.m = [rows |-> n, cols |-> n, vals |-> [pos \in 0 .. n * n - 1 |-> G[pos \div n][pos % n]]]
  <2> DEFINE fac(i) == Over(Entry(s.m, i, k), Entry(s.m, k, k))
             red(i, j) == CASE i <= k \/ j < k -> Entry(s.m, i, j)
                            [] i > k /\ j = k -> fac(i)
                            [] OTHER -> Minus(Entry(s.m, i, j), Times(fac(i), Entry(s.m, k, j)))
  <2>1. e.m = [rows |-> n, cols |-> n,
               vals |-> [pos \in 0 .. n * n - 1 |-> red(pos \div n, pos % n)]]
    BY <1>1 DEF Eliminated, Mat, LUState
  <2>2. \A i, j \in 0 .. n - 1 : red(i, j) = G[i][j]
    <3> TAKE i, j \in 0 .. n - 1
    <3>1. /\ Entry(s.m, i, j) = M[i][j] /\ Entry(s.m, i, k) = M[i][k]
          /\ Entry(s.m, k, k) = M[k][k] /\ Entry(s.m, k, j) = M[k][j]
      BY <1>1
    <3>2. G[i][j] = cell(i, j)
      OBVIOUS
    <3> HIDE DEF G
    <3> QED
      BY <3>1, <3>2
  <2>3. \A pos \in 0 .. n * n - 1 : red(pos \div n, pos % n) = G[pos \div n][pos % n]
    <3> HIDE DEF red, G
    <3> QED
      BY <2>2, Cell
  <2> HIDE DEF red, G, e
  <2> QED
    BY <2>1, <2>3
<1>6. e.m \in FracMat(n) /\ Table(e.m) = G
  <2> HIDE DEF G, e
  <2> QED
    BY <1>4, <1>5, TableOf
<1>7. e \in LUState(n) /\ e.indx = s.indx
  <2>1. e = [s EXCEPT !.m = e.m]
    BY DEF Eliminated, LUState
  <2> HIDE DEF e
  <2> QED
    BY <1>6, <2>1 DEF LUState
<1>8. \A i, j \in 0 .. n - 1 : G[i][j] = cell(i, j)
  OBVIOUS
<1> HIDE DEF G, e
<1>9. \A i \in 0 .. k : G[i] = M[i]
  <2> TAKE i \in 0 .. k
  <2>1. \A j \in 0 .. n - 1 : G[i][j] = M[i][j]
    BY <1>8
  <2>2. G[i] \in Vec(n) /\ M[i] \in Vec(n)
    BY <1>1, <1>4, TabRows
  <2> QED
    BY <2>1, <2>2 DEF Vec
<1>10. ASSUME NEW i \in k + 1 .. n - 1
       PROVE  /\ \A j \in 0 .. k - 1 : G[i][j] = M[i][j]
              /\ Times(G[i][k], M[k][k]) = M[i][k]
              /\ \A j \in k + 1 .. n - 1 : G[i][j] = Minus(M[i][j], Times(G[i][k], M[k][j]))
  <2>1. i \in 0 .. n - 1 /\ ~ (i <= k)
    OBVIOUS
  <2>2. G[i][k] = factor(i)
    BY <1>8, <2>1
  <2>3. Times(G[i][k], M[k][k]) = M[i][k]
    BY <1>2, <2>1, <2>2
  <2>4. \A j \in 0 .. k - 1 : G[i][j] = M[i][j]
    BY <1>8, <2>1
  <2>5. \A j \in k + 1 .. n - 1 : G[i][j] = Minus(M[i][j], Times(factor(i), M[k][j]))
    BY <1>8, <2>1
  <2> QED
    BY <2>2, <2>3, <2>4, <2>5
<1> QED
  BY <1>4, <1>6, <1>7, <1>9, <1>10 DEF e

-----------------------------------------------------------------------------
(* The loop over the columns.                                               *)

\* The decomposition of F when k columns are done: the pivots are not 0, and
\* the product of F with any x, its places exchanged as the rows have been,
\* is that of the factors with what is left.
Good(n, F, s, k) ==
  /\ s \in LUState(n)
  /\ \A i \in 0 .. k - 1 : s.indx[i] \in i .. n - 1 /\ Table(s.m)[i][i] # Zero
  /\ \A x \in Vec(n) : \A C :
       IsChain(n, C, Image(n, F, x), s.indx, k)
         => \A i \in 0 .. n - 1 : C[k][i] = Right(n, Table(s.m), x, k, i)

\* Something that is not zero is mapped to zero.
HasKernel(n, F) ==
  \E z \in Vec(n) : /\ \E j \in 0 .. n - 1 : z[j] # Zero
                    /\ Image(n, F, z) = [i \in 0 .. n - 1 |-> Zero]

\* When the greatest entry of the column is 0, the matrix maps something to 0.
LEMMA NoPivot ==
  ASSUME NEW n \in Nat \ {0}, NEW F \in Tab(n), NEW k \in 0 .. n - 1, NEW s, Good(n, F, s, k),
         Table(s.m)[PivotRow(s, k)][k] = Zero
  PROVE  HasKernel(n, F)
<1> DEFINE M == Table(s.m)
<1>1. /\ s \in LUState(n) /\ M \in Tab(n)
      /\ \A i \in 0 .. k - 1 : s.indx[i] \in i .. n - 1 /\ M[i][i] # Zero
  BY LUStateParts, TableIs DEF Good
<1>2. \A i \in k .. n - 1 : M[i][k] = Zero
  BY <1>1, PivotRowIs
<1> HIDE DEF M
<1>3. PICK z \in Vec(n) : z[k] = One /\ \A i \in 0 .. n - 1 : Right(n, M, z, k, i) = Zero
  BY <1>1, <1>2, KernelAt
<1>4. PICK C : IsChain(n, C, Image(n, F, z), s.indx, k)
  BY ChainExists
<1> DEFINE O == [i \in 0 .. n - 1 |-> Zero]
           Z == [l \in 0 .. k |-> O]
<1>5. k \in 0 .. n /\ \A l \in 0 .. k - 1 : s.indx[l] \in 0 .. n - 1
  BY <1>1
<1>6. IsChain(n, Z, O, s.indx, k) /\ Z[k] = O /\ O \in Vec(n)
  <2>1. O \in Vec(n) /\ Z[k] = O
    BY Constants DEF Vec
  <2>2. IsChain(n, Z, O, s.indx, k)
    <3> DEFINE x == s.indx
    <3>1. \A l \in 0 .. k - 1 : x[l] \in 0 .. n - 1
      BY <1>5
    <3> HIDE DEF x
    <3>2. IsChain(n, Z, O, x, k)
      BY <1>5, <3>1, ChainOfZeros
    <3> QED
      BY <3>2 DEF x
  <2> QED
    BY <2>1, <2>2
<1>7. C[k] = O
  <2>1. \A i \in 0 .. n - 1 : C[k][i] = Zero
    BY <1>3, <1>4 DEF Good, M
  <2>2. Image(n, F, z) \in Vec(n) /\ k \in 0 .. k
    BY ImageType
  <2>3. C[k] \in Vec(n)
    BY <1>4, <1>5, <2>2, ChainType
  <2> QED
    BY <2>1, <2>3 DEF Vec
<1> HIDE DEF Z, O
<1>8. Image(n, F, z) = O
  BY <1>4, <1>5, <1>6, <1>7, ImageType, ChainBack
<1> QED
  BY <1>3, <1>8, Constants DEF HasKernel, O

\* A step of the loop keeps the decomposition good, or finds the matrix singular.
LEMMA GoodColumn ==
  ASSUME NEW n \in Nat \ {0}, NEW F \in Tab(n), NEW k \in 0 .. n - 1, NEW s, Good(n, F, s, k)
  PROVE  \/ Column(s, k) = Singular /\ HasKernel(n, F)
         \/ Column(s, k) # Singular /\ Good(n, F, Column(s, k), k + 1)
<1> DEFINE M == Table(s.m)
           imax == PivotRow(s, k)
           p == Pivoted(s, k)
           N == Table(p.m)
<1>1. /\ s \in LUState(n) /\ M \in Tab(n) /\ s # Singular
      /\ \A i \in 0 .. k - 1 : s.indx[i] \in i .. n - 1 /\ M[i][i] # Zero
  BY LUStateParts, TableIs DEF Good
<1>2. imax \in k .. n - 1 /\ imax \in 0 .. n - 1
  BY <1>1, PivotRowIs
<1>3. p \in LUState(n) /\ N = Swapped(n, M, k, imax) /\ p.indx = [s.indx EXCEPT ![k] = imax]
  BY <1>1, PivotedIs
<1>4. N[k] = M[imax] /\ \A i \in 0 .. k - 1 : N[i] = M[i]
  BY <1>2, <1>3 DEF Swapped
<1>5. N \in Tab(n) /\ Entry(p.m, k, k) = N[k][k] /\ N[k][k] \in Frac
  BY <1>3, LUStateParts, TableIs
<1>6. Entry(p.m, k, k).n = 0 <=> N[k][k] = Zero
  BY <1>5, IsZero
<1>7. Column(s, k) = IF Entry(p.m, k, k).n = 0 THEN Singular ELSE Eliminated(p, k)
  BY <1>1 DEF Column
<1>8. CASE N[k][k] = Zero
  BY <1>4, <1>6, <1>7, <1>8, NoPivot
<1>9. CASE N[k][k] # Zero
  <2> DEFINE e == Eliminated(p, k)
             W == Table(e.m)
  <2>0. N = Table(p.m)
    OBVIOUS
  <2> HIDE DEF N, p
  <2>1. e \in LUState(n) /\ e.indx = p.indx
    BY <1>3, <1>9, <2>0, EliminatedIs
  <2>2. /\ W \in Tab(n)
        /\ \A i \in 0 .. k : W[i] = N[i]
        /\ \A i \in k + 1 .. n - 1 :
             /\ \A j \in 0 .. k - 1 : W[i][j] = N[i][j]
             /\ Times(W[i][k], N[k][k]) = N[i][k]
             /\ \A j \in k + 1 .. n - 1 : W[i][j] = Minus(N[i][j], Times(W[i][k], N[k][j]))
    BY <1>3, <1>9, <2>0, EliminatedIs
  <2>3. Column(s, k) = e /\ e # Singular
    BY <1>6, <1>7, <1>9, <2>1, LUStateParts
  <2> HIDE DEF W, e, imax, M
  <2>7. e.indx[k] = imax /\ \A l \in 0 .. k - 1 : e.indx[l] = s.indx[l]
    <3>1. s.indx \in [0 .. n - 1 -> 0 .. n - 1]
      BY <1>1, LUStateParts
    <3>2. e.indx = [s.indx EXCEPT ![k] = imax]
      BY <1>3, <2>1
    <3> DEFINE x == s.indx
               y == e.indx
    <3>3. x \in [0 .. n - 1 -> 0 .. n - 1] /\ y = [x EXCEPT ![k] = imax]
      BY <3>1, <3>2
    <3> HIDE DEF x, y
    <3>4. y[k] = imax /\ \A l \in 0 .. k - 1 : y[l] = x[l]
      BY <3>3
    <3> QED
      BY <3>4 DEF x, y
  <2>4. \A i \in 0 .. k + 1 - 1 : e.indx[i] \in i .. n - 1 /\ W[i][i] # Zero
    <3> TAKE i \in 0 .. k + 1 - 1
    <3>0. i \in 0 .. k /\ s.indx \in [0 .. n - 1 -> 0 .. n - 1]
      BY <1>1, LUStateParts
    <3>1. i \in 0 .. k /\ W[i] = N[i] /\ s.indx \in [0 .. n - 1 -> 0 .. n - 1]
      BY <2>2, <3>0
    <3>2. CASE i = k
      BY <1>2, <1>9, <2>7, <3>1, <3>2
    <3>3. CASE i # k
      <4>1. i \in 0 .. k - 1 /\ N[i] = M[i] /\ e.indx[i] = s.indx[i]
        BY <1>4, <2>7, <3>1, <3>3
      <4> QED
        BY <1>1, <3>1, <4>1
    <3> QED
      BY <3>2, <3>3
  <2>5. ASSUME NEW x \in Vec(n), NEW C, IsChain(n, C, Image(n, F, x), e.indx, k + 1)
        PROVE  \A i \in 0 .. n - 1 : C[k + 1][i] = Right(n, W, x, k + 1, i)
    <3>1. s.indx \in [0 .. n - 1 -> 0 .. n - 1]
      BY <1>1, LUStateParts
    <3>2. \A l \in 0 .. k - 1 : e.indx[l] = s.indx[l] /\ l \in 0 .. k + 1 - 1
      BY <2>7
    <3>3. IsChain(n, C, Image(n, F, x), s.indx, k)
      BY <2>5, <3>2 DEF IsChain
    <3>4. \A i \in 0 .. n - 1 : C[k][i] = Right(n, M, x, k, i)
      BY <3>3 DEF Good, M
    <3>5. e.indx[k] = imax /\ k \in 0 .. k + 1 - 1
      BY <2>7
    <3>6. C[k + 1] = Swapped(n, C[k], k, imax)
      BY <2>5, <3>5 DEF IsChain
    <3>7. \A i \in 0 .. n - 1 : C[k + 1][i] = Right(n, N, x, k, i)
      <4> DEFINE c == C[k]
      <4>1. \A i \in 0 .. n - 1 : c[i] = Right(n, M, x, k, i)
        BY <3>4
      <4> HIDE DEF c
      <4>2. \A i \in 0 .. n - 1 : Swapped(n, c, k, imax)[i] = Right(n, Swapped(n, M, k, imax), x, k, i)
        BY <1>1, <1>2, <4>1, RightExchanged
      <4> QED
        BY <1>3, <3>6, <4>2 DEF c
    <3>8. \A i \in 0 .. n - 1 : Right(n, W, x, k + 1, i) = Right(n, N, x, k, i)
      BY <1>5, <2>2, RightEliminated
    <3> QED
      BY <3>7, <3>8
  <2>6. Good(n, F, e, k + 1)
    BY <2>1, <2>4, <2>5 DEF Good, W
  <2> QED
    BY <2>3, <2>6
<1> QED
  BY <1>8, <1>9

-----------------------------------------------------------------------------
(* The loop over the columns.                                               *)

IsLoop(f, s, n) ==
  f = [k \in 0 .. n |-> IF k = 0 THEN s ELSE Column(f[k - 1], k - 1)]

\* The loop over the columns, and what it ends with.
LEMMA LoopExists ==
  ASSUME NEW s
  PROVE  \A n \in Nat : \E f : IsLoop(f, s, n)
<1> DEFINE S == {n \in Nat : \E f : IsLoop(f, s, n)}
<1>1. 0 \in S
  <2>1. IsLoop([k \in 0 .. 0 |-> s], s, 0)
    BY DEF IsLoop
  <2> QED
    BY <2>1
<1>2. ASSUME NEW n \in Nat, n \in S
      PROVE  n + 1 \in S
  <2>1. PICK f : IsLoop(f, s, n)
    BY <1>2
  <2> DEFINE g == [k \in 0 .. n + 1 |-> IF k = n + 1 THEN Column(f[n], n) ELSE f[k]]
  <2>2. \A k \in 0 .. n : f[k] = IF k = 0 THEN s ELSE Column(f[k - 1], k - 1)
    BY <2>1 DEF IsLoop
  <2>3. \A k \in 0 .. n + 1 : g[k] = IF k = 0 THEN s ELSE Column(g[k - 1], k - 1)
    BY <2>2
  <2>4. g = [k \in 0 .. n + 1 |-> g[k]]
    OBVIOUS
  <2> HIDE DEF g
  <2>5. IsLoop(g, s, n + 1)
    BY <2>3, <2>4 DEF IsLoop
  <2> QED
    BY <2>5
<1> HIDE DEF S
<1>3. \A n \in Nat : n \in S
  BY <1>1, <1>2, ForAllNumbers
<1> QED
  BY <1>3 DEF S

LEMMA LoopGood ==
  ASSUME NEW n \in Nat \ {0}, NEW F \in Tab(n), NEW s, Good(n, F, s, 0), NEW f, IsLoop(f, s, n)
  PROVE  \/ f[n] = Singular /\ HasKernel(n, F)
         \/ f[n] # Singular /\ Good(n, F, f[n], n)
<1> DEFINE P(k) == \/ f[k] = Singular /\ HasKernel(n, F)
                   \/ f[k] # Singular /\ Good(n, F, f[k], k)
           S == {k \in 0 .. n : P(k)}
<1>1. \A k \in 0 .. n : f[k] = IF k = 0 THEN s ELSE Column(f[k - 1], k - 1)
  BY DEF IsLoop
<1>2. 0 \in S
  <2>1. f[0] = s /\ s # Singular
    BY <1>1, LUStateParts DEF Good
  <2> QED
    BY <2>1
<1>3. ASSUME NEW k \in 0 .. n - 1, k \in S
      PROVE  k + 1 \in S
  <2>1. f[k + 1] = Column(f[k], k) /\ k + 1 \in 0 .. n
    BY <1>1
  <2>2. CASE f[k] = Singular
    BY <1>3, <2>1, <2>2 DEF Column
  <2>3. CASE f[k] # Singular
    <3>1. Good(n, F, f[k], k)
      BY <1>3, <2>3
    <3> DEFINE r == f[k]
    <3> HIDE DEF r
    <3>2. \/ Column(r, k) = Singular /\ HasKernel(n, F)
          \/ Column(r, k) # Singular /\ Good(n, F, Column(r, k), k + 1)
      BY <3>1, GoodColumn DEF r
    <3> QED
      BY <2>1, <3>2 DEF r
  <2> QED
    BY <2>2, <2>3
<1> HIDE DEF S, P
<1>4. \A k \in 0 .. n : k \in S
  BY <1>2, <1>3, UpTo
<1>5. P(n)
  BY <1>4 DEF S
<1> QED
  BY <1>5 DEF P

MatrixOf(n) == [rows : {n}, cols : {n}, vals : [0 .. n * n - 1 -> Int]]

\* The fractions of a matrix of integers.
LEMMA FractionsOfIs ==
  ASSUME NEW n \in Nat \ {0}, NEW a \in MatrixOf(n)
  PROVE  /\ FractionsOf(a) \in FracMat(n) /\ a.rows = n
         /\ \A i, j \in 0 .. n - 1 : /\ Table(FractionsOf(a))[i][j] = Whole(Entry(a, i, j))
                                     /\ Entry(a, i, j) \in Int
<1> DEFINE G == [i \in 0 .. n - 1 |-> [j \in 0 .. n - 1 |-> Whole(Entry(a, i, j))]]
<1>1. a.rows = n /\ a.cols = n /\ a.vals \in [0 .. n * n - 1 -> Int]
  BY DEF MatrixOf
<1>2. \A i, j \in 0 .. n - 1 : Entry(a, i, j) \in Int
  BY <1>1, Cell DEF Entry
<1>3. \A i, j \in 0 .. n - 1 : Whole(Entry(a, i, j)) \in Frac
  BY <1>2, WholeValue
<1>4. G \in Tab(n)
  BY <1>3 DEF Tab, Vec
<1>5. \A i, j \in 0 .. n - 1 : G[i][j] = Whole(Entry(a, i, j))
  OBVIOUS
<1>6. FractionsOf(a) = [rows |-> n, cols |-> n,
                        vals |-> [pos \in 0 .. n * n - 1 |-> Whole(Entry(a, pos \div n, pos % n))]]
  BY <1>1 DEF FractionsOf, Mat
<1>7. \A pos \in 0 .. n * n - 1 : Whole(Entry(a, pos \div n, pos % n)) = G[pos \div n][pos % n]
  <2> HIDE DEF G
  <2> QED
    BY <1>5, Cell
<1> HIDE DEF G
<1>8. FractionsOf(a) = [rows |-> n, cols |-> n,
                        vals |-> [pos \in 0 .. n * n - 1 |-> G[pos \div n][pos % n]]]
  BY <1>6, <1>7
<1>9. FractionsOf(a) \in FracMat(n) /\ Table(FractionsOf(a)) = G
  BY <1>4, <1>8, TableOf
<1> QED
  BY <1>1, <1>2, <1>5, <1>9

\* The greatest entry of a row is 0 if all are.
LEMMA BigIs ==
  ASSUME NEW n \in Nat \ {0}, NEW f \in FracMat(n), NEW i \in 0 .. n - 1
  PROVE  /\ Big(f, i) \in Frac /\ Big(f, i).n >= 0
         /\ Big(f, i).n = 0 => \A j \in 0 .. n - 1 : Table(f)[i][j] = Zero
<1> DEFINE v == [j \in 0 .. n - 1 |-> fabs(Entry(f, i, j))]
           g == FirstGreatest(0 .. n - 1, v)
<1>1. Big(f, i) = v[g]
  BY TableIs DEF Big
<1>2. \A j \in 0 .. n - 1 : /\ v[j] = fabs(Entry(f, i, j)) /\ Entry(f, i, j) \in Frac
                            /\ Table(f)[i][j] = Entry(f, i, j)
  BY TableIs
<1> HIDE DEF v
<1>3. \A j \in 0 .. n - 1 : v[j] \in Frac /\ v[j].n >= 0 /\ (v[j].n = 0 <=> Table(f)[i][j] = Zero)
  BY <1>2, FabsIs
<1>4. g \in 0 .. n - 1 /\ \A j \in 0 .. n - 1 : ~ Greater(v[j], v[g])
  BY <1>3, FirstGreatestIs
<1> HIDE DEF g
<1>5. ASSUME v[g].n = 0, NEW j \in 0 .. n - 1
      PROVE  Table(f)[i][j] = Zero
  <2>1. v[j].n \in Int /\ v[j].d \in Nat \ {0} /\ v[g].n \in Int /\ v[g].d \in Nat \ {0}
    BY <1>3, <1>4, FracParts
  <2>2. ~ (v[j].n * v[g].d > 0)
    BY <1>4, <1>5, <2>1 DEF Greater
  <2>3. ~ (v[j].n > 0)
    BY <2>1, <2>2
  <2> QED
    BY <1>3, <2>1, <2>3
<1> QED
  BY <1>1, <1>3, <1>4, <1>5

\* A row of zeros.
HasZeroRow(n, F) == \E i \in 0 .. n - 1 : \A j \in 0 .. n - 1 : F[i][j] = Zero

\* The decomposition is refused only if there is no inverse, and gives what
\* it is meant to otherwise.
LEMMA DecompositionIs ==
  ASSUME NEW n \in Nat \ {0}, NEW a \in MatrixOf(n), NEW F, F = Table(FractionsOf(a))
  PROVE  /\ F \in Tab(n)
         /\ \/ /\ _lu_decomp_mat(a) = Singular
               /\ HasZeroRow(n, F) \/ HasKernel(n, F)
            \/ /\ _lu_decomp_mat(a) # Singular
               /\ Good(n, F, _lu_decomp_mat(a), n)
<1> DEFINE f == FractionsOf(a)
           s == [m |-> f, d |-> 1, indx |-> [i \in 0 .. n - 1 |-> i],
                 vv |-> [i \in 0 .. n - 1 |-> Over(Whole(1), Big(f, i))]]
           L == CHOOSE lu : IsLoop(lu, s, n)
<1>1. f \in FracMat(n) /\ a.rows = n /\ Rows(a) = 0 .. n - 1
  BY FractionsOfIs DEF Rows
<1>2. F \in Tab(n)
  BY <1>1, TableIs
<1>3. _lu_decomp_mat(a)
        = IF \E i \in 0 .. n - 1 : Big(f, i).n = 0 THEN Singular ELSE L[n]
  BY <1>1 DEF _lu_decomp_mat, IsLoop
<1>4. CASE \E i \in 0 .. n - 1 : Big(f, i).n = 0
  <2>1. HasZeroRow(n, F)
    BY <1>1, <1>4, BigIs DEF HasZeroRow
  <2> QED
    BY <1>2, <1>3, <1>4, <2>1
<1>5. CASE ~ \E i \in 0 .. n - 1 : Big(f, i).n = 0
  <2>1. \A i \in 0 .. n - 1 : Over(Whole(1), Big(f, i)) \in Positive
    <3> TAKE i \in 0 .. n - 1
    <3> DEFINE b == Big(f, i)
               o == Over(One, b)
    <3>1. b \in Frac /\ b.n >= 0 /\ b.n # 0 /\ b.n \in Int
      BY <1>1, <1>5, BigIs, FracParts
    <3> HIDE DEF b
    <3>2. b # Zero
      BY <3>1, IsZero
    <3>3. o \in Frac /\ Times(o, b) = One
      BY <3>1, <3>2, Constants, OverTimes
    <3> HIDE DEF o
    <3>4. o.n \in Int /\ o.d \in Nat \ {0} /\ b.d \in Nat \ {0}
      BY <3>1, <3>3, FracParts
    <3>5. Value(One, o.n * b.n, o.d * b.d)
      BY <3>1, <3>3, HasValue, TimesValue
    <3>6. One.n * (o.d * b.d) = (o.n * b.n) * One.d /\ One.n = 1 /\ One.d = 1
      BY <3>5, ValueParts DEF One, Whole
    <3>7. o.d * b.d > 0
      BY <3>4
    <3>8. o.n * b.n > 0
      BY <3>1, <3>4, <3>6, <3>7
    <3>9. o.n > 0
      BY <3>1, <3>4, <3>8
    <3> QED
      BY <3>3, <3>9 DEF Positive, o, b, One
  <2>2. s \in LUState(n)
    <3> HIDE DEF f
    <3> QED
      BY <1>1, <2>1 DEF LUState
  <2>3. \A x \in Vec(n) : \A C :
          IsChain(n, C, Image(n, F, x), s.indx, 0) =>
            \A i \in 0 .. n - 1 : C[0][i] = Right(n, Table(s.m), x, 0, i)
    <3> TAKE x \in Vec(n)
    <3> TAKE C
    <3> HAVE IsChain(n, C, Image(n, F, x), s.indx, 0)
    <3> TAKE i \in 0 .. n - 1
    <3>1. C[0] = Image(n, F, x) /\ Table(s.m) = F
      BY DEF IsChain
    <3>2. C[0][i] = Dot(n, F[i], x, 0)
      BY <3>1 DEF Image
    <3> QED
      BY <1>2, <3>1, <3>2, RightOfNone
  <2>4. Good(n, F, s, 0)
    BY <2>2, <2>3 DEF Good
  <2>5. IsLoop(L, s, n)
    <3>1. \E lu : IsLoop(lu, s, n)
      BY LoopExists
    <3> QED
      BY <3>1
  <2> HIDE DEF s, L, f
  <2>6. \/ L[n] = Singular /\ HasKernel(n, F)
        \/ L[n] # Singular /\ Good(n, F, L[n], n)
    BY <1>2, <2>4, <2>5, LoopGood
  <2> QED
    BY <1>2, <1>3, <1>5, <2>6
<1> QED
  BY <1>4, <1>5

-----------------------------------------------------------------------------
(* Forward substitution.                                                    *)

\* How many places of x are known to be 0.
Skipped(s, k) == IF s.ii = 0 THEN k ELSE s.ii - 1

\* When k rows are done: C are the exchanges of the right-hand side.
Forwarded(n, M, C, s, k) ==
  /\ s = [x |-> s.x, ii |-> s.ii]
  /\ s.x \in Vec(n) /\ s.ii \in 0 .. k
  /\ \A i \in k .. n - 1 : s.x[i] = C[k][i]
  /\ \A i \in 0 .. k - 1 : C[k][i] = Plus(Low(M[i], s.x, i), s.x[i])
  /\ \A j \in 0 .. Skipped(s, k) - 1 : s.x[j] = Zero

\* A step of the forward substitution, the recursion, and what it ends with.
LEMMA ForwardIs ==
  ASSUME NEW n \in Nat \ {0}, NEW lu \in LUState(n), NEW k \in 0 .. n - 1,
         lu.indx[k] \in k .. n - 1,
         NEW M, M = Table(lu.m), NEW C, C[k + 1] = Swapped(n, C[k], k, lu.indx[k]),
         NEW s, Forwarded(n, M, C, s, k)
  PROVE  Forwarded(n, M, C, Forward(lu, s, k), k + 1)
<1> DEFINE ip == lu.indx[k]
           X == s.x
           y == [X EXCEPT ![ip] = X[k]]
           t == [j \in s.ii - 1 .. k - 1 |-> Times(Entry(lu.m, k, j), y[j])]
           u == [j \in 0 .. k - 1 |-> Times(M[k][j], X[j])]
           sum == IF s.ii = 0 THEN X[ip] ELSE Minus(X[ip], SumOf(s.ii - 1, k - 1, t))
           z == [y EXCEPT ![k] = sum]
           ii == IF s.ii = 0 /\ sum.n # 0 THEN k + 1 ELSE s.ii
           r == Forward(lu, s, k)
<1>1. /\ M \in Tab(n)
      /\ \A i, j \in 0 .. n - 1 : M[i][j] = Entry(lu.m, i, j) /\ M[i][j] \in Frac
  <2> DEFINE a == lu.m
  <2>1. a \in FracMat(n) /\ M = Table(a)
    BY LUStateParts
  <2> HIDE DEF a
  <2>2. M \in Tab(n) /\ \A i, j \in 0 .. n - 1 : M[i][j] = Entry(a, i, j) /\ M[i][j] \in Frac
    BY <2>1, TableIs
  <2> QED
    BY <2>2 DEF a
<1>2. r = [x |-> z, ii |-> ii]
  BY DEF Forward
<1>3. /\ X \in Vec(n) /\ s.ii \in 0 .. k
      /\ \A i \in k .. n - 1 : X[i] = C[k][i]
      /\ \A i \in 0 .. k - 1 : C[k][i] = Plus(Low(M[i], X, i), X[i])
      /\ \A j \in 0 .. Skipped(s, k) - 1 : X[j] = Zero
  BY DEF Forwarded
<1>4. ip \in k .. n - 1 /\ ip \in 0 .. n - 1 /\ k \in 0 .. n - 1
  OBVIOUS
<1>5. \A i \in 0 .. n - 1 : X[i] \in Frac
  BY <1>3 DEF Vec
<1>6. \A i \in 0 .. n - 1 : y[i] = IF i = ip THEN X[k] ELSE X[i]
  BY <1>3 DEF Vec
<1>7. \A i \in 0 .. n - 1 : z[i] = IF i = k THEN sum ELSE IF i = ip THEN X[k] ELSE X[i]
  BY <1>3, <1>6 DEF Vec
<1>8. y \in Vec(n)
  BY <1>3, <1>4, <1>5 DEF Vec
<1>9. \A j \in s.ii - 1 .. k - 1 : t[j] = Times(Entry(lu.m, k, j), y[j])
  OBVIOUS
<1>10. \A j \in 0 .. k - 1 : u[j] = Times(M[k][j], X[j])
  OBVIOUS
<1> DEFINE L == Low(M[k], X, k)
<1>11. L \in Frac
  <2> DEFINE q == M[k]
  <2>1. \A j \in 0 .. k - 1 : q[j] \in Frac /\ X[j] \in Frac
    BY <1>1, <1>5
  <2> HIDE DEF q, X
  <2>2. Low(q, X, k) \in Frac
    BY <2>1, LowType
  <2> QED
    BY <2>2 DEF q
<1>12. s.ii = 0 => L = Zero
  <2> HAVE s.ii = 0
  <2>1. \A j \in 0 .. k - 1 : X[j] = Zero
    BY <1>3 DEF Skipped
  <2> DEFINE q == M[k]
  <2>2. \A j \in 0 .. k - 1 : q[j] \in Frac /\ X[j] = Zero
    BY <1>1, <2>1
  <2> HIDE DEF q, X
  <2>3. Low(q, X, k) = Zero
    BY <2>2, LowZero
  <2> QED
    BY <2>3 DEF q
<1>13. s.ii # 0 => SumOf(s.ii - 1, k - 1, t) = L
  <2> HAVE s.ii # 0
  <2> DEFINE m == s.ii - 1
  <2>1. m \in Nat /\ 0 <= m /\ m <= k - 1 /\ Bounds(0, k - 1) /\ Bounds(m, k - 1) /\ m \in Int
    BY <1>3 DEF Bounds
  <2>2. \A j \in 0 .. k - 1 : j < m => X[j] = Zero
    BY <1>3 DEF Skipped
  <2>3. \A j \in m .. k - 1 : t[j] = u[j]
    <3> TAKE j \in m .. k - 1
    <3>1. j \in 0 .. n - 1 /\ j \in 0 .. k - 1 /\ j # ip
      BY <2>1, <1>4
    <3> QED
      BY <3>1, <1>1, <1>6, <1>9, <1>10
  <2> HIDE DEF m, t, u, X
  <2>4. Addends(u, 0, k - 1)
    BY <1>1, <1>5, <1>10, Closed DEF Addends
  <2>5. \A j \in 0 .. k - 1 : j < m => u[j] = Zero
    BY <1>1, <1>10, <2>2, Neutral
  <2>6. SumOf(0, k - 1, u) = SumOf(m, k - 1, u)
    BY <2>1, <2>4, <2>5, SumSkip
  <2>7. SumOf(m, k - 1, t) = SumOf(m, k - 1, u)
    BY <2>1, <2>3, SumSame
  <2> QED
    BY <2>6, <2>7 DEF Low, u, m
<1> HIDE DEF t, u, L
<1>14. sum \in Frac /\ X[ip] = Plus(L, sum)
  <2>1. CASE s.ii = 0
    BY <1>4, <1>5, <1>12, <2>1, Neutral
  <2>2. CASE s.ii # 0
    <3>1. sum = Minus(X[ip], L) /\ X[ip] \in Frac
      BY <1>4, <1>5, <1>13, <2>2
    <3> HIDE DEF sum, X, ip
    <3> QED
      BY <1>11, <3>1, Closed, MinusPlus, PlusComm
  <2> QED
    BY <2>1, <2>2
<1>15. z \in Vec(n)
  <2>1. \A i \in 0 .. n - 1 : z[i] \in Frac
    BY <1>4, <1>5, <1>7, <1>14
  <2>2. DOMAIN z = 0 .. n - 1 /\ z = [i \in DOMAIN z |-> z[i]]
    BY <1>8 DEF Vec
  <2> HIDE DEF z
  <2> QED
    BY <2>1, <2>2 DEF Vec
<1>16. \A j \in 0 .. k - 1 : z[j] = X[j]
  BY <1>4, <1>7
<1>17. z[k] = sum
  BY <1>7
<1>18. ii \in 0 .. k + 1
  BY <1>3
<1>19. \A j \in 0 .. n - 1 : C[k + 1][j] = (CASE j = k -> C[k][ip] [] j = ip -> C[k][k] [] OTHER -> C[k][j])
  BY DEF Swapped
<1>20. \A i \in k + 1 .. n - 1 : z[i] = C[k + 1][i]
  BY <1>3, <1>4, <1>7, <1>19
<1>21. \A i \in 0 .. k + 1 - 1 : C[k + 1][i] = Plus(Low(M[i], z, i), z[i])
  <2> TAKE i \in 0 .. k + 1 - 1
  <2>1. \A j \in 0 .. i - 1 : z[j] = X[j]
    BY <1>16
  <2>2. Low(M[i], z, i) = Low(M[i], X, i)
    <3> HIDE DEF z, X
    <3> QED
      BY <2>1, LowSame
  <2>3. CASE i = k
    <3>1. C[k + 1][k] = X[ip]
      BY <1>3, <1>4, <1>19
    <3> QED
      BY <1>14, <1>17, <2>2, <2>3, <3>1 DEF L
  <2>4. CASE i # k
    <3>1. i \in 0 .. k - 1 /\ C[k + 1][i] = C[k][i] /\ z[i] = X[i]
      BY <1>4, <1>16, <1>19, <2>4
    <3> HIDE DEF z, X
    <3> QED
      BY <1>3, <2>2, <3>1
  <2> QED
    BY <2>3, <2>4
<1>22. r.x = z /\ r.ii = ii
  BY <1>2
<1>23. \A j \in 0 .. Skipped(r, k + 1) - 1 : z[j] = Zero
  <2>1. CASE s.ii # 0
    <3>1. r.ii = s.ii
      BY <1>22, <2>1
    <3> QED
      BY <1>3, <1>16, <2>1, <3>1 DEF Skipped
  <2>2. CASE s.ii = 0 /\ sum.n # 0
    <3>1. r.ii = k + 1
      BY <1>22, <2>2
    <3>2. Skipped(r, k + 1) = k /\ Skipped(s, k) = k
      BY <2>2, <3>1 DEF Skipped
    <3> QED
      BY <1>3, <1>16, <3>2
  <2>3. CASE s.ii = 0 /\ sum.n = 0
    <3>1. r.ii = 0 /\ sum = Zero
      BY <1>14, <1>22, <2>3, IsZero
    <3>2. Skipped(r, k + 1) = k + 1 /\ Skipped(s, k) = k
      BY <2>3, <3>1 DEF Skipped
    <3> QED
      BY <1>3, <1>16, <1>17, <3>1, <3>2
  <2> QED
    BY <2>1, <2>2, <2>3
<1> HIDE DEF z, ii, r
<1> QED
  BY <1>2, <1>15, <1>18, <1>20, <1>21, <1>22, <1>23 DEF Forwarded, r

IsForward(y, lu, b, n) ==
  y = [k \in 0 .. n |-> IF k = 0 THEN [x |-> b, ii |-> 0] ELSE Forward(lu, y[k - 1], k - 1)]

LEMMA ForwardExists ==
  ASSUME NEW lu, NEW b
  PROVE  \A n \in Nat : \E y : IsForward(y, lu, b, n)
<1> DEFINE S == {n \in Nat : \E f : IsForward(f, lu, b, n)}
<1>1. 0 \in S
  <2>1. IsForward([k \in 0 .. 0 |-> [x |-> b, ii |-> 0]], lu, b, 0)
    BY DEF IsForward
  <2> QED
    BY <2>1
<1>2. ASSUME NEW n \in Nat, n \in S
      PROVE  n + 1 \in S
  <2>1. PICK f : IsForward(f, lu, b, n)
    BY <1>2
  <2> DEFINE g == [k \in 0 .. n + 1 |-> IF k = n + 1 THEN Forward(lu, f[n], n) ELSE f[k]]
  <2>2. \A k \in 0 .. n : f[k] = IF k = 0 THEN [x |-> b, ii |-> 0] ELSE Forward(lu, f[k - 1], k - 1)
    BY <2>1 DEF IsForward
  <2>3. \A k \in 0 .. n + 1 :
          g[k] = IF k = 0 THEN [x |-> b, ii |-> 0] ELSE Forward(lu, g[k - 1], k - 1)
    BY <2>2
  <2>4. g = [k \in 0 .. n + 1 |-> g[k]]
    OBVIOUS
  <2> HIDE DEF g
  <2>5. IsForward(g, lu, b, n + 1)
    BY <2>3, <2>4 DEF IsForward
  <2> QED
    BY <2>5
<1> HIDE DEF S
<1>3. \A n \in Nat : n \in S
  BY <1>1, <1>2, ForAllNumbers
<1> QED
  BY <1>3 DEF S

LEMMA ForwardGives ==
  ASSUME NEW n \in Nat \ {0}, NEW lu \in LUState(n),
         \A i \in 0 .. n - 1 : lu.indx[i] \in i .. n - 1,
         NEW M, M = Table(lu.m), NEW b \in Vec(n), NEW C, IsChain(n, C, b, lu.indx, n),
         NEW y, IsForward(y, lu, b, n)
  PROVE  Forwarded(n, M, C, y[n], n)
<1> DEFINE S == {k \in 0 .. n : Forwarded(n, M, C, y[k], k)}
<1>1. \A k \in 0 .. n :
        y[k] = IF k = 0 THEN [x |-> b, ii |-> 0] ELSE Forward(lu, y[k - 1], k - 1)
  BY DEF IsForward
<1>2. 0 \in S
  <2>1. y[0] = [x |-> b, ii |-> 0] /\ C[0] = b
    BY <1>1 DEF IsChain
  <2>2. Forwarded(n, M, C, y[0], 0)
    BY <2>1 DEF Forwarded, Skipped
  <2> QED
    BY <2>2
<1>3. ASSUME NEW k \in 0 .. n - 1, k \in S
      PROVE  k + 1 \in S
  <2>1. y[k + 1] = Forward(lu, y[k], k) /\ k + 1 \in 0 .. n
    BY <1>1
  <2>2. C[k + 1] = Swapped(n, C[k], k, lu.indx[k])
    BY DEF IsChain
  <2>3. Forwarded(n, M, C, y[k], k)
    BY <1>3
  <2> DEFINE s == y[k]
  <2> HIDE DEF s
  <2>4. Forwarded(n, M, C, Forward(lu, s, k), k + 1)
    BY <2>2, <2>3, ForwardIs DEF s
  <2> QED
    BY <2>1, <2>4 DEF s
<1> HIDE DEF S
<1>4. \A k \in 0 .. n : k \in S
  BY <1>2, <1>3, UpTo
<1> QED
  BY <1>4 DEF S

-----------------------------------------------------------------------------
(* Back substitution.                                                       *)

\* When the last k rows are done: Y is what forward substitution ended with.
Backwarded(n, M, Y, X, k) ==
  /\ X \in Vec(n)
  /\ \A i \in n - k .. n - 1 : Dot(n, M[i], X, i) = Y[i]
  /\ \A i \in 0 .. n - k - 1 : X[i] = Y[i]

\* A step of the back substitution, the recursion, and what it ends with.
LEMMA BackwardIs ==
  ASSUME NEW n \in Nat \ {0}, NEW lu \in LUState(n), NEW k \in 0 .. n - 1,
         NEW M, M = Table(lu.m), \A i \in 0 .. n - 1 : M[i][i] # Zero,
         NEW Y, NEW X, Backwarded(n, M, Y, X, k)
  PROVE  Backwarded(n, M, Y, Backward(lu, X, n - (k + 1)), k + 1)
<1> DEFINE i == n - (k + 1)
           t == [j \in i + 1 .. n - 1 |-> Times(Entry(lu.m, i, j), X[j])]
           d == SumOf(i + 1, n - 1, t)
           e == Over(Minus(X[i], d), Entry(lu.m, i, i))
           Z == Backward(lu, X, i)
<1>1. /\ M \in Tab(n) /\ lu.m.rows = n
      /\ \A p, q \in 0 .. n - 1 : M[p][q] = Entry(lu.m, p, q) /\ M[p][q] \in Frac
  BY StateTable
<1>2. i \in 0 .. n - 1 /\ i + 1 = n - k /\ i + 1 \in 0 .. n /\ i = n - k - 1
  OBVIOUS
<1> HIDE DEF i
<1>3. Z = [X EXCEPT ![i] = e]
  BY <1>1 DEF Backward
<1>4. /\ X \in Vec(n)
      /\ \A j \in i + 1 .. n - 1 : Dot(n, M[j], X, j) = Y[j]
      /\ \A j \in 0 .. i : X[j] = Y[j]
  BY <1>2 DEF Backwarded
<1>5. d = Dot(n, M[i], X, i + 1)
  <2> DEFINE u == [l \in i + 1 .. n - 1 |-> Times(M[i][l], X[l])]
  <2>1. \A j \in i + 1 .. n - 1 : t[j] = u[j]
    BY <1>1, <1>2
  <2>2. Bounds(i + 1, n - 1)
    BY <1>2 DEF Bounds
  <2>3. Dot(n, M[i], X, i + 1) = SumOf(i + 1, n - 1, u)
    BY DEF Dot
  <2> HIDE DEF t, u
  <2>4. SumOf(i + 1, n - 1, t) = SumOf(i + 1, n - 1, u)
    BY <2>1, <2>2, SumSame
  <2> QED
    BY <2>3, <2>4
<1> HIDE DEF d, Z
<1>6. M[i] \in Vec(n) /\ M[i][i] \in Frac /\ M[i][i] # Zero /\ X[i] \in Frac /\ M[i][i] = Entry(lu.m, i, i)
  BY <1>1, <1>2, <1>4, TabRows DEF Vec
<1>7. d \in Frac
  BY <1>2, <1>4, <1>5, <1>6, DotType
<1>8. e \in Frac /\ Times(e, M[i][i]) = Minus(X[i], d)
  BY <1>6, <1>7, Closed, OverTimes
<1> HIDE DEF e
<1>9. \A j \in 0 .. n - 1 : Z[j] = IF j = i THEN e ELSE X[j]
  BY <1>3, <1>4 DEF Vec
<1>10. Z \in Vec(n)
  BY <1>3, <1>4, <1>8 DEF Vec
<1>11. Dot(n, M[i], Z, i) = Y[i]
  <2>1. \A j \in i + 1 .. n - 1 : Z[j] = X[j]
    BY <1>2, <1>9
  <2>2. Dot(n, M[i], Z, i + 1) = d
    BY <1>2, <1>5, <2>1, DotSame
  <2>3. Dot(n, M[i], Z, i) = Plus(Times(M[i][i], Z[i]), Dot(n, M[i], Z, i + 1))
    BY <1>2, <1>6, <1>10, DotFirst
  <2>4. Times(M[i][i], Z[i]) = Minus(X[i], d)
    BY <1>2, <1>6, <1>8, <1>9, TimesComm
  <2>5. Plus(Minus(X[i], d), d) = X[i]
    BY <1>6, <1>7, MinusPlus
  <2> QED
    BY <1>2, <1>4, <2>2, <2>3, <2>4, <2>5
<1>12. \A j \in i + 1 .. n - 1 : Dot(n, M[j], Z, j) = Y[j]
  <2> TAKE j \in i + 1 .. n - 1
  <2>1. j \in 0 .. n /\ \A l \in j .. n - 1 : Z[l] = X[l]
    BY <1>2, <1>9
  <2>2. Dot(n, M[j], Z, j) = Dot(n, M[j], X, j)
    BY <2>1, DotSame
  <2> QED
    BY <1>4, <2>2
<1>13. /\ \A j \in n - (k + 1) .. n - 1 : j = i \/ j \in i + 1 .. n - 1
       /\ \A j \in 0 .. n - (k + 1) - 1 : j \in 0 .. i /\ j # i /\ j \in 0 .. n - 1
  BY <1>2 DEF i
<1> QED
  BY <1>4, <1>9, <1>10, <1>11, <1>12, <1>13 DEF Backwarded, Z, i

IsBackward(x, lu, v, n) ==
  x = [k \in 0 .. n |-> IF k = 0 THEN v ELSE Backward(lu, x[k - 1], lu.m.rows - k)]

LEMMA BackwardExists ==
  ASSUME NEW lu, NEW v
  PROVE  \A n \in Nat : \E x : IsBackward(x, lu, v, n)
<1> DEFINE S == {n \in Nat : \E f : IsBackward(f, lu, v, n)}
           r == lu.m.rows
<1>1. 0 \in S
  <2>1. IsBackward([k \in 0 .. 0 |-> v], lu, v, 0)
    BY DEF IsBackward
  <2> QED
    BY <2>1
<1>2. ASSUME NEW n \in Nat, n \in S
      PROVE  n + 1 \in S
  <2>1. PICK f : IsBackward(f, lu, v, n)
    BY <1>2
  <2> DEFINE g == [k \in 0 .. n + 1 |-> IF k = n + 1 THEN Backward(lu, f[n], r - k) ELSE f[k]]
  <2>2. \A k \in 0 .. n : f[k] = IF k = 0 THEN v ELSE Backward(lu, f[k - 1], r - k)
    BY <2>1 DEF IsBackward
  <2> HIDE DEF r
  <2>3. \A k \in 0 .. n + 1 : g[k] = IF k = 0 THEN v ELSE Backward(lu, g[k - 1], r - k)
    BY <2>2
  <2>4. g = [k \in 0 .. n + 1 |-> g[k]]
    OBVIOUS
  <2> HIDE DEF g
  <2>5. IsBackward(g, lu, v, n + 1)
    BY <2>3, <2>4 DEF IsBackward, r
  <2> QED
    BY <2>5
<1> HIDE DEF S
<1>3. \A n \in Nat : n \in S
  BY <1>1, <1>2, ForAllNumbers
<1> QED
  BY <1>3 DEF S

LEMMA BackwardGives ==
  ASSUME NEW n \in Nat \ {0}, NEW lu \in LUState(n),
         NEW M, M = Table(lu.m), \A i \in 0 .. n - 1 : M[i][i] # Zero,
         NEW Y \in Vec(n), NEW x, IsBackward(x, lu, Y, n)
  PROVE  x[n] \in Vec(n) /\ \A i \in 0 .. n - 1 : Dot(n, M[i], x[n], i) = Y[i]
<1> DEFINE S == {k \in 0 .. n : Backwarded(n, M, Y, x[k], k)}
<1>1. lu.m.rows = n
  BY LUStateParts
<1>2. \A k \in 0 .. n : x[k] = IF k = 0 THEN Y ELSE Backward(lu, x[k - 1], n - k)
  BY <1>1 DEF IsBackward
<1>3. 0 \in S
  BY <1>2 DEF Backwarded
<1>4. ASSUME NEW k \in 0 .. n - 1, k \in S
      PROVE  k + 1 \in S
  <2>1. x[k + 1] = Backward(lu, x[k], n - (k + 1)) /\ k + 1 \in 0 .. n
    BY <1>2
  <2>2. Backwarded(n, M, Y, x[k], k)
    BY <1>4
  <2> DEFINE X == x[k]
  <2> HIDE DEF X
  <2>3. Backwarded(n, M, Y, Backward(lu, X, n - (k + 1)), k + 1)
    BY <2>2, BackwardIs DEF X
  <2> QED
    BY <2>1, <2>3 DEF X
<1> HIDE DEF S
<1>5. \A k \in 0 .. n : k \in S
  BY <1>3, <1>4, UpTo
<1>6. Backwarded(n, M, Y, x[n], n) /\ n - n = 0
  BY <1>5 DEF S
<1> QED
  BY <1>6 DEF Backwarded

-----------------------------------------------------------------------------
(* Both.                                                                    *)

\* Row i of the product of all the factors and what is left.
LEMMA RightOfAll ==
  ASSUME NEW n \in Nat, NEW M, NEW x, NEW i \in 0 .. n - 1
  PROVE  Right(n, M, x, n, i) = Plus(Low(M[i], Tails(n, M, x), i), Tails(n, M, x)[i])
<1>1. (IF i < n THEN i ELSE n) = i
  OBVIOUS
<1>2. Tails(n, M, x)[i] = Dot(n, M[i], x, i)
  BY DEF Tails
<1> QED
  BY <1>1, <1>2 DEF Right

\* What is solved for is mapped to the right-hand side.
LEMMA SolveIs ==
  ASSUME NEW n \in Nat \ {0}, NEW F \in Tab(n), NEW lu, Good(n, F, lu, n), NEW b \in Vec(n)
  PROVE  _solve_mat(lu, b) \in Vec(n) /\ Image(n, F, _solve_mat(lu, b)) = b
<1> DEFINE M == Table(lu.m)
           y == CHOOSE f : IsForward(f, lu, b, n)
           x == CHOOSE f : IsBackward(f, lu, y[n].x, n)
<1>1. /\ lu \in LUState(n) /\ M \in Tab(n) /\ lu.m.rows = n
      /\ \A i \in 0 .. n - 1 : lu.indx[i] \in i .. n - 1 /\ M[i][i] # Zero
  BY LUStateParts, TableIs DEF Good
<1>2. _solve_mat(lu, b) = x[n]
  <2>1. y = CHOOSE f : f = [k \in 0 .. lu.m.rows |-> IF k = 0 THEN [x |-> b, ii |-> 0]
                                                      ELSE Forward(lu, f[k - 1], k - 1)]
    BY <1>1 DEF IsForward
  <2>2. x = CHOOSE f : f = [k \in 0 .. lu.m.rows |-> IF k = 0 THEN y[lu.m.rows].x
                                                      ELSE Backward(lu, f[k - 1], lu.m.rows - k)]
    BY <1>1 DEF IsBackward
  <2> HIDE DEF x, y
  <2> QED
    BY <1>1, <2>1, <2>2 DEF _solve_mat
<1>3. IsForward(y, lu, b, n)
  <2>1. \E f : IsForward(f, lu, b, n)
    BY ForwardExists
  <2> QED
    BY <2>1
<1>4. IsBackward(x, lu, y[n].x, n)
  <2>1. \E f : IsBackward(f, lu, y[n].x, n)
    BY BackwardExists
  <2> QED
    BY <2>1
<1> HIDE DEF x, y
<1>5. PICK C : IsChain(n, C, b, lu.indx, n)
  BY ChainExists
<1> DEFINE Y == y[n].x
           X == x[n]
<1>6. /\ Y \in Vec(n)
      /\ \A i \in 0 .. n - 1 : C[n][i] = Plus(Low(M[i], Y, i), Y[i])
  <2>1. M = Table(lu.m)
    OBVIOUS
  <2> HIDE DEF M
  <2>2. Forwarded(n, M, C, y[n], n)
    BY <1>1, <1>3, <1>5, <2>1, ForwardGives
  <2> QED
    BY <2>2 DEF Forwarded
<1>7. X \in Vec(n) /\ \A i \in 0 .. n - 1 : Dot(n, M[i], X, i) = Y[i]
  <2>1. M = Table(lu.m)
    OBVIOUS
  <2> HIDE DEF M
  <2> QED
    BY <1>1, <1>4, <1>6, <2>1, BackwardGives
<1>8. Tails(n, M, X) = Y
  <2> HIDE DEF M, X, Y
  <2> QED
    BY <1>6, <1>7 DEF Tails, Vec
<1>9. PICK D : IsChain(n, D, Image(n, F, X), lu.indx, n)
  BY ChainExists
<1>10. \A i \in 0 .. n - 1 : D[n][i] = Right(n, M, X, n, i)
  BY <1>7, <1>9 DEF Good
<1>11. n \in 0 .. n /\ \A l \in 0 .. n - 1 : lu.indx[l] \in 0 .. n - 1
  BY <1>1
<1>12. Image(n, F, X) \in Vec(n)
  BY <1>7, ImageType
<1>13. C[n] = D[n]
  <2>1. \A i \in 0 .. n - 1 : C[n][i] = D[n][i]
    <3> HIDE DEF M, X, Y
    <3> QED
      BY <1>6, <1>8, <1>10, RightOfAll
  <2>2. C[n] \in Vec(n) /\ D[n] \in Vec(n)
    <3> HIDE DEF X
    <3> QED
      BY <1>5, <1>9, <1>11, <1>12, ChainType
  <2> QED
    BY <2>1, <2>2 DEF Vec
<1>14. Image(n, F, X) = b
  <2> DEFINE c == Image(n, F, X)
             p == lu.indx
  <2>1. c \in Vec(n) /\ IsChain(n, D, c, p, n) /\ IsChain(n, C, b, p, n)
        /\ \A l \in 0 .. n - 1 : p[l] \in 0 .. n - 1
    BY <1>5, <1>9, <1>11, <1>12
  <2> HIDE DEF c, p
  <2>2. b = c
    BY <1>11, <1>13, <2>1, ChainBack
  <2> QED
    BY <2>2 DEF c
<1> QED
  BY <1>2, <1>7, <1>14

\* There is no other solution.
LEMMA SolutionUnique ==
  ASSUME NEW n \in Nat \ {0}, NEW F \in Tab(n), NEW lu, Good(n, F, lu, n),
         NEW z \in Vec(n), NEW w \in Vec(n), Image(n, F, z) = Image(n, F, w)
  PROVE  z = w
<1> DEFINE M == Table(lu.m)
           T == Tails(n, M, z)
           U == Tails(n, M, w)
<1>1. M \in Tab(n) /\ \A i \in 0 .. n - 1 : M[i][i] # Zero
  BY LUStateParts, TableIs DEF Good
<1>2. PICK C : IsChain(n, C, Image(n, F, z), lu.indx, n)
  BY ChainExists
<1>3. \A i \in 0 .. n - 1 : Right(n, M, z, n, i) = Right(n, M, w, n, i)
  BY <1>2 DEF Good
<1> HIDE DEF M
<1>4. \A i \in 0 .. n - 1 : Plus(Low(M[i], T, i), T[i]) = Plus(Low(M[i], U, i), U[i])
  BY <1>3, RightOfAll
<1>5. T \in Vec(n) /\ U \in Vec(n)
  BY <1>1, TailsType
<1> HIDE DEF T, U
<1>6. T = U
  BY <1>1, <1>4, <1>5, LowerUnique
<1>7. \A i \in 0 .. n - 1 : T[i] = Dot(n, M[i], z, i) /\ U[i] = Dot(n, M[i], w, i)
  BY DEF T, U, Tails
<1> QED
  BY <1>1, <1>6, <1>7, UpperUnique

-----------------------------------------------------------------------------
(* Products of matrices.                                                    *)

\* A column of a matrix, the product of two, and the identity.
ColumnOf(n, M, j) == [i \in 0 .. n - 1 |-> M[i][j]]
Times2(n, F, X) ==
  [i \in 0 .. n - 1 |-> [j \in 0 .. n - 1 |-> Dot(n, F[i], ColumnOf(n, X, j), 0)]]
Unit(n, j) == [i \in 0 .. n - 1 |-> IF i = j THEN One ELSE Zero]
Identity(n) == [i \in 0 .. n - 1 |-> Unit(n, i)]

\* Types, and the entries of a product.
LEMMA TableTypes ==
  ASSUME NEW n \in Nat \ {0}, NEW F \in Tab(n), NEW X \in Tab(n)
  PROVE  /\ \A j \in 0 .. n - 1 : ColumnOf(n, F, j) \in Vec(n) /\ Unit(n, j) \in Vec(n)
         /\ Identity(n) \in Tab(n) /\ Times2(n, F, X) \in Tab(n)
         /\ \A i, j \in 0 .. n - 1 : Times2(n, F, X)[i][j] = Image(n, F, ColumnOf(n, X, j))[i]
<1>1. \A j \in 0 .. n - 1 : /\ ColumnOf(n, F, j) \in Vec(n) /\ ColumnOf(n, X, j) \in Vec(n)
                            /\ Unit(n, j) \in Vec(n)
  BY TabRows, Constants DEF ColumnOf, Unit, Vec
<1>2. Identity(n) \in Tab(n)
  BY <1>1 DEF Identity, Tab
<1>3. \A i, j \in 0 .. n - 1 : Dot(n, F[i], ColumnOf(n, X, j), 0) \in Frac
  <2> TAKE i, j \in 0 .. n - 1
  <2>1. F[i] \in Vec(n) /\ ColumnOf(n, X, j) \in Vec(n) /\ 0 \in 0 .. n
    BY <1>1, TabRows
  <2> QED
    BY <2>1, DotType
<1>4. Times2(n, F, X) \in Tab(n)
  BY <1>3 DEF Times2, Tab, Vec
<1>5. \A i, j \in 0 .. n - 1 : Times2(n, F, X)[i][j] = Image(n, F, ColumnOf(n, X, j))[i]
  BY DEF Times2, Image
<1> QED
  BY <1>1, <1>2, <1>4, <1>5

\* A sum with one term that is not zero.
LEMMA OneTerm ==
  ASSUME NEW n \in Nat \ {0}, NEW m \in 0 .. n - 1, NEW t, t[m] \in Frac,
         \A k \in 0 .. n - 1 : k # m => t[k] = Zero
  PROVE  SumOf(0, n - 1, t) = t[m]
<1>1. Bounds(0, n - 1) /\ m \in Int /\ 0 <= m /\ ~ (n - 1 < m)
  BY DEF Bounds
<1>2. SumOf(0, n - 1, t) = IF n - 1 < m THEN Zero ELSE t[m]
  BY <1>1, SumOfOne
<1> QED
  BY <1>1, <1>2

\* The product with a unit vector is a column, and the identity changes
\* nothing.
LEMMA ImageOfUnit ==
  ASSUME NEW n \in Nat \ {0}, NEW F \in Tab(n), NEW j \in 0 .. n - 1
  PROVE  Image(n, F, Unit(n, j)) = ColumnOf(n, F, j)
<1>1. ASSUME NEW i \in 0 .. n - 1
      PROVE  Dot(n, F[i], Unit(n, j), 0) = F[i][j]
  <2> DEFINE t == [k \in 0 .. n - 1 |-> Times(F[i][k], Unit(n, j)[k])]
  <2>1. \A k \in 0 .. n - 1 : t[k] = Times(F[i][k], IF k = j THEN One ELSE Zero) /\ F[i][k] \in Frac
    BY TabRows DEF Unit
  <2>2. Dot(n, F[i], Unit(n, j), 0) = SumOf(0, n - 1, t)
    BY DEF Dot
  <2> HIDE DEF t
  <2>3. t[j] = F[i][j] /\ t[j] \in Frac /\ \A k \in 0 .. n - 1 : k # j => t[k] = Zero
    BY <2>1, Neutral
  <2>4. SumOf(0, n - 1, t) = t[j]
    BY <2>3, OneTerm
  <2> QED
    BY <2>2, <2>3, <2>4
<1> QED
  BY <1>1 DEF Image, ColumnOf

\* The identity maps every vector to itself.
LEMMA ImageOfIdentity ==
  ASSUME NEW n \in Nat \ {0}, NEW v \in Vec(n)
  PROVE  Image(n, Identity(n), v) = v
<1>1. ASSUME NEW i \in 0 .. n - 1
      PROVE  Dot(n, Identity(n)[i], v, 0) = v[i]
  <2> DEFINE t == [k \in 0 .. n - 1 |-> Times(Identity(n)[i][k], v[k])]
  <2>1. \A k \in 0 .. n - 1 : t[k] = Times(IF k = i THEN One ELSE Zero, v[k]) /\ v[k] \in Frac
    BY DEF Identity, Unit, Vec
  <2>2. Dot(n, Identity(n)[i], v, 0) = SumOf(0, n - 1, t)
    BY DEF Dot
  <2> HIDE DEF t
  <2>3. t[i] = v[i] /\ v[i] \in Frac /\ \A k \in 0 .. n - 1 : k # i => t[k] = Zero
    BY <2>1, Neutral
  <2>4. SumOf(0, n - 1, t) = t[i]
    BY <2>3, OneTerm
  <2> QED
    BY <2>2, <2>3, <2>4
<1> QED
  BY <1>1 DEF Image, Vec

\* The product with a product.
LEMMA ImageOfImage ==
  ASSUME NEW n \in Nat \ {0}, NEW F \in Tab(n), NEW X \in Tab(n), NEW v \in Vec(n)
  PROVE  Image(n, F, Image(n, X, v)) = Image(n, Times2(n, F, X), v)
<1> SUFFICES ASSUME NEW i \in 0 .. n - 1
             PROVE  Dot(n, F[i], Image(n, X, v), 0) = Dot(n, Times2(n, F, X)[i], v, 0)
  BY DEF Image
<1> DEFINE r == F[i]
           w == Image(n, X, v)
           G == [k \in 0 .. n - 1 |-> [l \in 0 .. n - 1 |-> Times(r[k], Times(X[k][l], v[l]))]]
           rows == [k \in 0 .. n - 1 |-> Row(G, k, 0, n - 1)]
           cols == [l \in 0 .. n - 1 |-> Col(G, l, 0, n - 1)]
           left == [k \in 0 .. n - 1 |-> Times(r[k], w[k])]
           right == [l \in 0 .. n - 1 |-> Times(Times2(n, F, X)[i][l], v[l])]
<1>1. /\ r \in Vec(n) /\ w \in Vec(n)
      /\ \A k \in 0 .. n - 1 : r[k] \in Frac /\ v[k] \in Frac /\ w[k] = Dot(n, X[k], v, 0)
      /\ \A k, l \in 0 .. n - 1 : X[k][l] \in Frac
  <2>1. r \in Vec(n) /\ \A k, l \in 0 .. n - 1 : X[k][l] \in Frac
    BY TabRows
  <2>2. w \in Vec(n)
    BY ImageType
  <2>3. \A k \in 0 .. n - 1 : w[k] = Dot(n, X[k], v, 0)
    BY DEF Image
  <2> HIDE DEF r, w
  <2> QED
    BY <2>1, <2>2, <2>3 DEF Vec
<1>2. \A k, l \in 0 .. n - 1 : /\ G[k][l] = Times(r[k], Times(X[k][l], v[l]))
                               /\ G[k][l] \in Frac /\ Times(X[k][l], v[l]) \in Frac
  BY <1>1, Closed
<1>3. Bounds(0, n - 1)
  BY DEF Bounds
<1>4. SumOf(0, n - 1, rows) = SumOf(0, n - 1, cols)
  <2> HIDE DEF G
  <2> QED
    BY <1>2, <1>3, SumExchange
<1>5. ASSUME NEW k \in 0 .. n - 1
      PROVE  rows[k] = left[k]
  <2> DEFINE t == [l \in 0 .. n - 1 |-> Times(X[k][l], v[l])]
             g == [l \in 0 .. n - 1 |-> G[k][l]]
  <2>1. \A l \in 0 .. n - 1 : g[l] = Times(r[k], t[l]) /\ t[l] \in Frac
    BY <1>2
  <2>2. rows[k] = SumOf(0, n - 1, g) /\ w[k] = SumOf(0, n - 1, t) /\ left[k] = Times(r[k], w[k])
    <3>1. rows[k] = SumOf(0, n - 1, g) /\ left[k] = Times(r[k], w[k])
      BY DEF Row
    <3>2. w[k] = SumOf(0, n - 1, t)
      BY <1>1 DEF Dot
    <3> QED
      BY <3>1, <3>2
  <2> HIDE DEF t, g, rows, left, w, r, G
  <2>3. Addends(t, 0, n - 1) /\ r[k] \in Frac
    BY <1>1, <2>1 DEF Addends
  <2>4. SumOf(0, n - 1, g) = Times(r[k], SumOf(0, n - 1, t))
    BY <1>3, <2>1, <2>3, SumTimes
  <2> QED
    BY <2>2, <2>4
<1>6. ASSUME NEW l \in 0 .. n - 1
      PROVE  cols[l] = right[l]
  <2> DEFINE x == ColumnOf(n, X, l)
             t == [k \in 0 .. n - 1 |-> Times(r[k], x[k])]
             g == [k \in 0 .. n - 1 |-> G[k][l]]
  <2>1. \A k \in 0 .. n - 1 : x[k] = X[k][l] /\ t[k] = Times(r[k], X[k][l]) /\ t[k] \in Frac
    BY <1>1, Closed DEF ColumnOf
  <2>2. \A k \in 0 .. n - 1 : g[k] = Times(v[l], t[k])
    <3> TAKE k \in 0 .. n - 1
    <3>1. g[k] = Times(r[k], Times(X[k][l], v[l]))
      BY <1>2
    <3>2. r[k] \in Frac /\ X[k][l] \in Frac /\ v[l] \in Frac /\ Times(r[k], X[k][l]) \in Frac
      BY <1>1, Closed
    <3>3. Times(Times(r[k], X[k][l]), v[l]) = Times(r[k], Times(X[k][l], v[l]))
      BY <3>2, TimesAssoc
    <3>4. Times(Times(r[k], X[k][l]), v[l]) = Times(v[l], Times(r[k], X[k][l]))
      BY <3>2, TimesComm
    <3> HIDE DEF t, g
    <3> QED
      BY <2>1, <3>1, <3>3, <3>4
  <2>3. /\ cols[l] = SumOf(0, n - 1, g)
        /\ right[l] = Times(Times2(n, F, X)[i][l], v[l])
        /\ Times2(n, F, X)[i][l] = SumOf(0, n - 1, t)
    <3>1. cols[l] = SumOf(0, n - 1, g) /\ right[l] = Times(Times2(n, F, X)[i][l], v[l])
      BY DEF Col
    <3>2. Times2(n, F, X)[i][l] = SumOf(0, n - 1, t)
      BY DEF Times2, Dot
    <3> QED
      BY <3>1, <3>2
  <2> HIDE DEF t, g, cols, right, x, r, G
  <2>4. Addends(t, 0, n - 1) /\ v[l] \in Frac
    BY <1>1, <2>1 DEF Addends
  <2>5. SumOf(0, n - 1, t) \in Frac /\ SumOf(0, n - 1, g) = Times(v[l], SumOf(0, n - 1, t))
    BY <1>3, <2>2, <2>4, SumTimes
  <2> QED
    BY <2>3, <2>4, <2>5, TimesComm
<1>7. Dot(n, F[i], Image(n, X, v), 0) = SumOf(0, n - 1, left)
  BY DEF Dot
<1>8. Dot(n, Times2(n, F, X)[i], v, 0) = SumOf(0, n - 1, right)
  BY DEF Dot
<1>9. SumOf(0, n - 1, rows) = SumOf(0, n - 1, left) /\ SumOf(0, n - 1, cols) = SumOf(0, n - 1, right)
  <2> HIDE DEF rows, cols, left, right
  <2> QED
    BY <1>3, <1>5, <1>6, SumSame
<1> QED
  BY <1>4, <1>7, <1>8, <1>9

\* Equal columns make equal matrices.
LEMMA SameColumns ==
  ASSUME NEW n \in Nat \ {0}, NEW F \in Tab(n), NEW X \in Tab(n),
         \A j \in 0 .. n - 1 : ColumnOf(n, F, j) = ColumnOf(n, X, j)
  PROVE  F = X
<1>1. \A i, j \in 0 .. n - 1 : F[i][j] = X[i][j]
  <2> TAKE i, j \in 0 .. n - 1
  <2>1. ColumnOf(n, F, j)[i] = ColumnOf(n, X, j)[i]
    OBVIOUS
  <2> QED
    BY <2>1 DEF ColumnOf
<1>2. \A i \in 0 .. n - 1 : F[i] = X[i]
  <2> TAKE i \in 0 .. n - 1
  <2>1. F[i] \in Vec(n) /\ X[i] \in Vec(n)
    BY TabRows
  <2> QED
    BY <1>1, <2>1 DEF Vec
<1> QED
  BY <1>2 DEF Tab

\* The columns of a product and of the identity.
LEMMA ColumnOfProduct ==
  ASSUME NEW n \in Nat \ {0}, NEW F \in Tab(n), NEW X \in Tab(n), NEW j \in 0 .. n - 1
  PROVE  ColumnOf(n, Times2(n, F, X), j) = Image(n, F, ColumnOf(n, X, j))
BY DEF ColumnOf, Times2, Image

LEMMA ColumnOfIdentity ==
  ASSUME NEW n \in Nat \ {0}, NEW j \in 0 .. n - 1
  PROVE  ColumnOf(n, Identity(n), j) = Unit(n, j)
BY DEF ColumnOf, Identity, Unit

\* Zeros are mapped to zeros.
LEMMA ImageOfZeros ==
  ASSUME NEW n \in Nat \ {0}, NEW F \in Tab(n)
  PROVE  Image(n, F, [i \in 0 .. n - 1 |-> Zero]) = [i \in 0 .. n - 1 |-> Zero]
<1> DEFINE O == [i \in 0 .. n - 1 |-> Zero]
<1>1. \A j \in 0 .. n - 1 : O[j] = Zero
  OBVIOUS
<1> HIDE DEF O
<1>2. \A i \in 0 .. n - 1 : Dot(n, F[i], O, 0) = Zero
  <2> TAKE i \in 0 .. n - 1
  <2>1. F[i] \in Vec(n) /\ 0 \in 0 .. n
    BY TabRows
  <2> QED
    BY <1>1, <2>1, DotZero
<1> QED
  BY <1>2 DEF Image, O

\* X inverts F, from both sides.
IsInverse(n, F, X) ==
  X \in Tab(n) /\ Times2(n, F, X) = Identity(n) /\ Times2(n, X, F) = Identity(n)

\* What solving for the columns of the identity gives.
LEMMA SolvedInverse ==
  ASSUME NEW n \in Nat \ {0}, NEW F \in Tab(n), NEW lu, Good(n, F, lu, n), NEW X \in Tab(n),
         \A j \in 0 .. n - 1 : ColumnOf(n, X, j) = _solve_mat(lu, Unit(n, j))
  PROVE  IsInverse(n, F, X)
<1>1. \A j \in 0 .. n - 1 : Image(n, F, ColumnOf(n, X, j)) = Unit(n, j)
  BY TableTypes, SolveIs
<1>2. Times2(n, F, X) = Identity(n)
  <2>1. \A j \in 0 .. n - 1 : ColumnOf(n, Times2(n, F, X), j) = ColumnOf(n, Identity(n), j)
    BY <1>1, ColumnOfProduct, ColumnOfIdentity
  <2> QED
    BY <2>1, TableTypes, SameColumns
<1>3. ASSUME NEW z \in Vec(n)
      PROVE  Image(n, X, Image(n, F, z)) = z
  <2> DEFINE b == Image(n, F, z)
             w == Image(n, X, b)
  <2>1. b \in Vec(n)
    BY ImageType
  <2> HIDE DEF b
  <2>2. w \in Vec(n)
    BY <2>1, ImageType
  <2>3. Image(n, F, w) = Image(n, Times2(n, F, X), b)
    BY <2>1, ImageOfImage
  <2>4. Image(n, F, w) = b
    BY <1>2, <2>1, <2>3, ImageOfIdentity
  <2> HIDE DEF w
  <2>5. w = z
    BY <2>2, <2>4, SolutionUnique DEF b
  <2> QED
    BY <2>5 DEF w, b
<1>4. Times2(n, X, F) = Identity(n)
  <2>1. ASSUME NEW j \in 0 .. n - 1
        PROVE  ColumnOf(n, Times2(n, X, F), j) = ColumnOf(n, Identity(n), j)
    <3>1. Unit(n, j) \in Vec(n)
      BY TableTypes
    <3>2. Image(n, X, Image(n, F, Unit(n, j))) = Unit(n, j)
      BY <1>3, <3>1
    <3>3. Image(n, F, Unit(n, j)) = ColumnOf(n, F, j)
      BY ImageOfUnit
    <3>4. ColumnOf(n, Times2(n, X, F), j) = Image(n, X, ColumnOf(n, F, j))
      BY ColumnOfProduct
    <3> QED
      BY <3>2, <3>3, <3>4, ColumnOfIdentity
  <2>2. Times2(n, X, F) \in Tab(n) /\ Identity(n) \in Tab(n)
    BY TableTypes
  <2> QED
    BY <2>1, <2>2, SameColumns
<1> QED
  BY <1>2, <1>4 DEF IsInverse

\* What has a row of zeros, or maps something to zero, has no inverse.
LEMMA NoInverse ==
  ASSUME NEW n \in Nat \ {0}, NEW F \in Tab(n), NEW X, IsInverse(n, F, X)
  PROVE  ~ HasZeroRow(n, F) /\ ~ HasKernel(n, F)
<1>1. X \in Tab(n)
  BY DEF IsInverse
<1>2. ASSUME HasZeroRow(n, F) PROVE FALSE
  <2>1. PICK i \in 0 .. n - 1 : \A j \in 0 .. n - 1 : F[i][j] = Zero
    BY <1>2 DEF HasZeroRow
  <2> DEFINE x == ColumnOf(n, X, i)
             t == [j \in 0 .. n - 1 |-> Times(F[i][j], x[j])]
  <2>2. \A j \in 0 .. n - 1 : t[j] = Times(Zero, x[j]) /\ x[j] \in Frac
    <3>1. x \in Vec(n)
      BY <1>1, TableTypes
    <3>2. \A j \in 0 .. n - 1 : t[j] = Times(F[i][j], x[j])
      OBVIOUS
    <3> HIDE DEF x, t
    <3> QED
      BY <2>1, <3>1, <3>2 DEF Vec
  <2>3. Dot(n, F[i], x, 0) = SumOf(0, n - 1, t)
    BY DEF Dot
  <2>4. Times2(n, F, X)[i][i] = Dot(n, F[i], x, 0)
    BY DEF Times2
  <2> HIDE DEF t, x
  <2>5. \A j \in 0 .. n - 1 : t[j] = Zero
    BY <2>2, Neutral
  <2>6. Bounds(0, n - 1)
    BY DEF Bounds
  <2>7. SumOf(0, n - 1, t) = Zero
    BY <2>5, <2>6, SumZero
  <2>8. Identity(n)[i][i] = One
    BY DEF Identity, Unit
  <2> QED
    BY <2>3, <2>4, <2>7, <2>8, Constants DEF IsInverse
<1>3. ASSUME HasKernel(n, F) PROVE FALSE
  <2>1. PICK z \in Vec(n) : /\ \E j \in 0 .. n - 1 : z[j] # Zero
                            /\ Image(n, F, z) = [i \in 0 .. n - 1 |-> Zero]
    BY <1>3 DEF HasKernel
  <2>2. Image(n, X, Image(n, F, z)) = [i \in 0 .. n - 1 |-> Zero]
    BY <1>1, <2>1, ImageOfZeros
  <2>3. Image(n, X, Image(n, F, z)) = Image(n, Times2(n, X, F), z)
    BY <1>1, ImageOfImage
  <2>4. Image(n, Times2(n, X, F), z) = z
    BY ImageOfIdentity DEF IsInverse
  <2> QED
    BY <2>1, <2>2, <2>3, <2>4
<1> QED
  BY <1>2, <1>3

-----------------------------------------------------------------------------
(* matinv_default.                                                          *)

\* It gives an inverse, or there is none.
LEMMA MatinvDefaultIs ==
  ASSUME NEW n \in Nat \ {0}, NEW a \in MatrixOf(n), NEW F, F = Table(FractionsOf(a))
  PROVE  LET inv == matinv_default(a)
         IN \/ inv = Singular /\ (HasZeroRow(n, F) \/ HasKernel(n, F))
            \/ inv # Singular /\ inv \in FracMat(n) /\ IsInverse(n, F, Table(inv))
<1> DEFINE lu == _lu_decomp_mat(a)
           column == [j \in 0 .. n - 1 |-> _solve_mat(lu, Unit(n, j))]
           inv == matinv_default(a)
           G == [i \in 0 .. n - 1 |-> [j \in 0 .. n - 1 |-> column[j][i]]]
<1>1. F \in Tab(n)
  BY DecompositionIs
<1>2. a.rows = n /\ Rows(a) = 0 .. n - 1
  BY DEF MatrixOf, Rows
<1>3. CASE lu = Singular
  BY <1>3, DecompositionIs DEF matinv_default
<1>4. CASE lu # Singular
  <2>1. Good(n, F, lu, n)
    BY <1>4, DecompositionIs
  <2>2. \A j \in 0 .. n - 1 : [i \in 0 .. n - 1 |-> Whole(IF i = j THEN 1 ELSE 0)] = Unit(n, j)
    BY DEF Unit, One, Zero
  <2>3. inv = [rows |-> n, cols |-> n,
               vals |-> [pos \in 0 .. n * n - 1 |-> column[pos % n][pos \div n]]]
    <3> DEFINE R == Rows(a)
               r == a.rows
               col == [j \in R |-> _solve_mat(lu, [i \in R |-> Whole(IF i = j THEN 1 ELSE 0)])]
    <3>1. inv = [rows |-> r, cols |-> r,
                 vals |-> [pos \in 0 .. r * r - 1 |-> col[pos % r][pos \div r]]]
      BY <1>4 DEF matinv_default, Mat
    <3>2. R = 0 .. n - 1 /\ r = n
      BY <1>2
    <3> HIDE DEF R, r
    <3>3. col = column
      <4>1. \A j \in R : [i \in R |-> Whole(IF i = j THEN 1 ELSE 0)] = Unit(n, j)
        BY <2>2, <3>2
      <4>2. col = [j \in R |-> _solve_mat(lu, Unit(n, j))]
        BY <4>1
      <4> QED
        BY <3>2, <4>2
    <3> HIDE DEF col, column
    <3> QED
      BY <3>1, <3>2, <3>3
  <2>4. \A j \in 0 .. n - 1 : column[j] = _solve_mat(lu, Unit(n, j)) /\ column[j] \in Vec(n)
    BY <1>1, <2>1, TableTypes, SolveIs
  <2> HIDE DEF column, lu, inv
  <2>5. G \in Tab(n) /\ \A i, j \in 0 .. n - 1 : G[i][j] = column[j][i]
    <3>1. \A i, j \in 0 .. n - 1 : column[j][i] \in Frac
      BY <2>4 DEF Vec
    <3> QED
      BY <3>1 DEF Tab, Vec
  <2>6. inv = [rows |-> n, cols |-> n,
               vals |-> [pos \in 0 .. n * n - 1 |-> G[pos \div n][pos % n]]]
    <3>1. \A pos \in 0 .. n * n - 1 : column[pos % n][pos \div n] = G[pos \div n][pos % n]
      <4> HIDE DEF G
      <4> QED
        BY <2>5, Cell
    <3> HIDE DEF G
    <3> QED
      BY <2>3, <3>1
  <2> HIDE DEF G
  <2>7. inv \in FracMat(n) /\ Table(inv) = G
    BY <2>5, <2>6, TableOf, ZenonT(60)
  <2>8. \A j \in 0 .. n - 1 : ColumnOf(n, G, j) = _solve_mat(lu, Unit(n, j))
    BY <2>4, <2>5 DEF ColumnOf, Vec
  <2>9. IsInverse(n, F, G)
    BY <1>1, <2>1, <2>5, <2>8, SolvedInverse
  <2>10. inv # Singular
    <3>1. "rows" \in DOMAIN inv /\ "rows" \notin DOMAIN Singular
      BY <2>6 DEF Singular
    <3> QED
      BY <3>1
  <2> QED
    BY <2>7, <2>9, <2>10 DEF inv
<1> QED
  BY <1>3, <1>4

\* It is refused exactly when there is no inverse.
LEMMA RefusedIsSingular ==
  ASSUME NEW n \in Nat \ {0}, NEW a \in MatrixOf(n), NEW F, F = Table(FractionsOf(a))
  PROVE  matinv_default(a) = Singular <=> ~ \E X : IsInverse(n, F, X)
<1>1. F \in Tab(n)
  BY DecompositionIs
<1> QED
  BY <1>1, MatinvDefaultIs, NoInverse

-----------------------------------------------------------------------------
(* The determinant.                                                         *)

IsProduct(f, lo, hi, t) ==
  f = [k \in lo - 1 .. hi |-> IF k < lo THEN Whole(1) ELSE Times(f[k - 1], t[k])]

\* The loop that ProductOf stands for.
LEMMA ProductExists ==
  ASSUME NEW lo \in Int, NEW t
  PROVE  \A n \in Nat : \E f : IsProduct(f, lo, lo - 1 + n, t)
<1> DEFINE S == {n \in Nat : \E f : IsProduct(f, lo, lo - 1 + n, t)}
<1>1. 0 \in S
  <2>1. lo - 1 + 0 = lo - 1 /\ \A k \in lo - 1 .. lo - 1 : k < lo
    OBVIOUS
  <2>2. IsProduct([k \in lo - 1 .. lo - 1 |-> Whole(1)], lo, lo - 1, t)
    BY <2>1 DEF IsProduct
  <2> QED
    BY <2>1, <2>2
<1>2. ASSUME NEW n \in Nat, n \in S
      PROVE  n + 1 \in S
  <2> DEFINE hi == lo - 1 + n
  <2>1. PICK f : IsProduct(f, lo, hi, t)
    BY <1>2
  <2> DEFINE g == [k \in lo - 1 .. hi + 1 |-> IF k = hi + 1 THEN Times(f[hi], t[k]) ELSE f[k]]
  <2>2. \A k \in lo - 1 .. hi : f[k] = IF k < lo THEN Whole(1) ELSE Times(f[k - 1], t[k])
    BY <2>1 DEF IsProduct
  <2>3. \A k \in lo - 1 .. hi + 1 : g[k] = IF k < lo THEN Whole(1) ELSE Times(g[k - 1], t[k])
    BY <2>2, Z3
  <2>4. g = [k \in lo - 1 .. hi + 1 |-> g[k]] /\ lo - 1 + (n + 1) = hi + 1
    OBVIOUS
  <2> HIDE DEF g
  <2>5. IsProduct(g, lo, hi + 1, t)
    BY <2>3, <2>4 DEF IsProduct
  <2> QED
    BY <2>4, <2>5
<1>3. \A n \in Nat : n \in S
  <2> HIDE DEF S
  <2> QED
    BY <1>1, <1>2, ForAllNumbers
<1> QED
  BY <1>3

\* A product without a 0 is not 0.
LEMMA ProductNotZero ==
  ASSUME NEW n \in Nat, NEW t, \A k \in 0 .. n - 1 : t[k] \in Frac /\ t[k] # Zero
  PROVE  ProductOf(0, n - 1, t) \in Frac /\ ProductOf(0, n - 1, t) # Zero
<1> DEFINE f == CHOOSE g : IsProduct(g, 0, n - 1, t)
           S == {k \in 0 .. n : f[k - 1] \in Frac /\ f[k - 1] # Zero}
<1>1. IsProduct(f, 0, n - 1, t)
  <2>1. 0 \in Int /\ 0 - 1 + n = n - 1
    OBVIOUS
  <2>2. \E g : IsProduct(g, 0, 0 - 1 + n, t)
    BY <2>1, ProductExists
  <2> QED
    BY <2>1, <2>2
<1>2. ProductOf(0, n - 1, t) = f[n - 1]
  BY DEF ProductOf, IsProduct
<1> HIDE DEF f
<1>3. \A k \in 0 - 1 .. n - 1 : f[k] = IF k < 0 THEN Whole(1) ELSE Times(f[k - 1], t[k])
  BY <1>1 DEF IsProduct
<1>4. 0 \in S
  <2>1. 0 - 1 \in 0 - 1 .. n - 1 /\ 0 - 1 < 0
    OBVIOUS
  <2>2. f[0 - 1] = One
    BY <1>3, <2>1 DEF One
  <2> QED
    BY <2>2, Constants
<1>5. ASSUME NEW k \in 0 .. n - 1, k \in S
      PROVE  k + 1 \in S
  <2> DEFINE x == f[k - 1]
             y == t[k]
  <2>1. x \in Frac /\ x # Zero /\ y \in Frac /\ y # Zero
    BY <1>5
  <2>2. f[k] = Times(x, y)
    BY <1>3
  <2> HIDE DEF x, y
  <2>3. f[k] \in Frac /\ f[k] # Zero
    BY <2>1, <2>2, NoZeroDivisors, Closed
  <2>4. (k + 1) - 1 = k /\ k + 1 \in 0 .. n
    OBVIOUS
  <2> QED
    BY <2>3, <2>4
<1>6. \A k \in 0 .. n : k \in S
  <2> HIDE DEF S
  <2> QED
    BY <1>4, <1>5, UpTo
<1>7. n \in S
  BY <1>6
<1> QED
  BY <1>2, <1>7

\* The determinant is 0 exactly when the decomposition is refused.
LEMMA DeterminantIsZero ==
  ASSUME NEW n \in Nat \ {0}, NEW a \in MatrixOf(n)
  PROVE  matdet_default(a) = Zero <=> matinv_default(a) = Singular
<1> DEFINE lu == _lu_decomp_mat(a)
           F == Table(FractionsOf(a))
<1>1. a.rows = n /\ Rows(a) = 0 .. n - 1
  BY DEF MatrixOf, Rows
<1>2. lu = Singular \/ (lu # Singular /\ Good(n, F, lu, n))
  BY DecompositionIs
<1>3. matinv_default(a) = Singular <=> lu = Singular
  <2>1. ASSUME lu # Singular PROVE matinv_default(a) # Singular
    <3> DEFINE inv == matinv_default(a)
    <3>1. "rows" \in DOMAIN inv
      BY <2>1 DEF matinv_default, Mat
    <3>2. "rows" \notin DOMAIN Singular
      BY DEF Singular
    <3> QED
      BY <3>1, <3>2
  <2>2. ASSUME lu = Singular PROVE matinv_default(a) = Singular
    BY <2>2 DEF matinv_default
  <2> QED
    BY <2>1, <2>2
<1>4. CASE lu = Singular
  <2>1. matdet_default(a) = Zero
    BY <1>4 DEF matdet_default, Zero
  <2> QED
    BY <1>3, <1>4, <2>1
<1>5. CASE lu # Singular
  <2> DEFINE t == [i \in 0 .. n - 1 |-> Entry(lu.m, i, i)]
             d == lu.d
             P == ProductOf(0, n - 1, t)
  <2>1. matdet_default(a) = Times(Whole(d), P)
    BY <1>1, <1>5 DEF matdet_default
  <2>2. lu \in LUState(n) /\ \A i \in 0 .. n - 1 : Table(lu.m)[i][i] # Zero
    BY <1>2, <1>5 DEF Good
  <2> HIDE DEF lu
  <2>3. lu.m \in FracMat(n) /\ d \in {1, -1}
    BY <2>2, LUStateParts
  <2>4. \A i \in 0 .. n - 1 : t[i] \in Frac /\ t[i] # Zero
    BY <2>2, <2>3, TableIs
  <2> HIDE DEF t, d
  <2>5. P \in Frac /\ P # Zero
    BY <2>4, ProductNotZero
  <2>6. Whole(d) \in Frac /\ Whole(d) # Zero
    <3>1. d \in Int /\ d # 0 /\ 0 \in Int
      BY <2>3
    <3> QED
      BY <3>1, WholeValue, WholeSums DEF Zero
  <2> HIDE DEF P
  <2>7. Times(Whole(d), P) # Zero
    BY <2>5, <2>6, NoZeroDivisors
  <2> QED
    BY <1>3, <1>5, <2>1, <2>7
<1> QED
  BY <1>4, <1>5
=============================================================================
