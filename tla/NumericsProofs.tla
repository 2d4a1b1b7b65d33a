--------------------------- MODULE NumericsProofs ---------------------------
(***************************************************************************)
(* What the numerical routines compute, for inputs of any length and size  *)
(* of numbers: sums, inverses in closed form and the fits of order 0 to 2  *)
(* made from them; then the inverses and determinants of the LU            *)
(* decomposition, for matrices of any size, and the generic fit.           *)
(***************************************************************************)
EXTENDS Routines, DecompositionProofs, FiniteSetTheorems

-----------------------------------------------------------------------------
(* Sums.                                                                    *)

\* The recursion by which FoldLeft is defined, over the subsets of D.
IsFold(f, t, D) ==
  f = [s \in SUBSET D |-> IF s = {} THEN 0 ELSE f[s \ {Max(s)}] + t[Max(s)]]

LEMMA MaxOfInterval ==
  ASSUME NEW k \in Nat, NEW s \in SUBSET (1 .. k + 1), k + 1 \in s
  PROVE  Max(s) = k + 1
<1>1. \E x \in s : \A y \in s : x >= y
  OBVIOUS
<1>2. Max(s) \in s /\ \A y \in s : Max(s) >= y
  BY <1>1 DEF Max
<1>3. Max(s) \in 1 .. k + 1 /\ Max(s) >= k + 1
  BY <1>2
<1> QED
  BY <1>3

\* The recursion has a solution, so the fold that is chosen is one.
LEMMA FoldExists ==
  ASSUME NEW t
  PROVE  \A n \in Nat : \E f : IsFold(f, t, 1 .. n)
<1> DEFINE S == {n \in Nat : \E f : IsFold(f, t, 1 .. n)}
<1>1. 0 \in S
  <2>1. 1 .. 0 = {}
    OBVIOUS
  <2>2. IsFold([s \in SUBSET {} |-> 0], t, {})
    BY DEF IsFold
  <2> QED
    BY <2>1, <2>2
<1>2. ASSUME NEW k \in Nat, k \in S
      PROVE  k + 1 \in S
  <2>1. PICK f : IsFold(f, t, 1 .. k)
    BY <1>2
  <2> DEFINE g == [s \in SUBSET (1 .. k + 1) |->
                     IF k + 1 \in s THEN f[s \ {k + 1}] + t[k + 1] ELSE f[s]]
  <2>2. ASSUME NEW s \in SUBSET (1 .. k + 1)
        PROVE  g[s] = IF s = {} THEN 0 ELSE g[s \ {Max(s)}] + t[Max(s)]
    <3>1. CASE k + 1 \in s
      <4>1. Max(s) = k + 1
        BY <3>1, MaxOfInterval
      <4>2. g[s \ {k + 1}] = f[s \ {k + 1}]
        OBVIOUS
      <4> QED
        BY <3>1, <4>1, <4>2
    <3>2. CASE k + 1 \notin s
      <4>1. s \in SUBSET (1 .. k) /\ s \ {Max(s)} \in SUBSET (1 .. k)
        <5>1. \A x \in s : x \in 1 .. k + 1 /\ x # k + 1
          BY <3>2
        <5>2. \A x \in s : x \in 1 .. k
          BY <5>1
        <5> QED
          BY <5>2
      <4>2. f[s] = IF s = {} THEN 0 ELSE f[s \ {Max(s)}] + t[Max(s)]
        BY <2>1, <4>1 DEF IsFold
      <4>3. g[s] = f[s] /\ g[s \ {Max(s)}] = f[s \ {Max(s)}]
        BY <3>2
      <4> QED
        BY <4>2, <4>3
    <3> QED
      BY <3>1, <3>2
  <2>3. g = [s \in SUBSET (1 .. k + 1) |-> g[s]]
    OBVIOUS
  <2> HIDE DEF g
  <2>4. IsFold(g, t, 1 .. k + 1)
    BY <2>2, <2>3 DEF IsFold
  <2> QED
    BY <2>4
<1>3. \A n \in Nat : n \in S
  <2> HIDE DEF S
  <2> QED
    BY <1>1, <1>2, ForAllNumbers
<1> QED
  BY <1>3

\* A total is the last of the running sums that lead to it.
RunningSum(S, t, n) ==
  /\ S \in [0 .. n -> Int]
  /\ S[0] = 0
  /\ \A k \in 0 .. n - 1 : S[k + 1] = S[k] + t[k + 1]
  /\ Total(t) = S[n]

LEMMA TotalIsRunningSum ==
  ASSUME NEW n \in Nat, NEW t \in [1 .. n -> Int]
  PROVE  \E S : RunningSum(S, t, n)
<1> DEFINE f == CHOOSE f : IsFold(f, t, 1 .. n)
           S == [k \in 0 .. n |-> f[1 .. k]]
<1>1. IsFold(f, t, 1 .. n)
  BY FoldExists
<1>2. Total(t) = f[1 .. n]
  BY DEF Total, FoldLeft, MapThenFoldSet, IsFold
<1> HIDE DEF f
<1>3. S[0] = 0
  <2>1. 1 .. 0 = {}
    OBVIOUS
  <2>2. f[{}] = 0
    BY <1>1 DEF IsFold
  <2> QED
    BY <2>1, <2>2
<1>4. ASSUME NEW k \in 0 .. n - 1
      PROVE  S[k + 1] = S[k] + t[k + 1]
  <2>1. 1 .. k + 1 \in SUBSET (1 .. n) /\ 1 .. k + 1 # {}
    OBVIOUS
  <2>2. Max(1 .. k + 1) = k + 1
    BY MaxOfInterval
  <2>3. (1 .. k + 1) \ {k + 1} = 1 .. k
    OBVIOUS
  <2>4. f[1 .. k + 1] = f[(1 .. k + 1) \ {Max(1 .. k + 1)}] + t[Max(1 .. k + 1)]
    BY <1>1, <2>1 DEF IsFold
  <2>5. S[k + 1] = f[1 .. k + 1] /\ S[k] = f[1 .. k]
    OBVIOUS
  <2> HIDE DEF S
  <2> QED
    BY <2>2, <2>3, <2>4, <2>5
<1>5. \A k \in 0 .. n : S[k] \in Int
  <2> DEFINE T == {k \in 0 .. n : S[k] \in Int}
  <2> HIDE DEF S
  <2>1. 0 \in T
    BY <1>3
  <2>2. \A k \in 0 .. n - 1 : k \in T => k + 1 \in T
    BY <1>4
  <2>3. \A k \in 0 .. n : k \in T
    <3> HIDE DEF T
    <3> QED
      BY <2>1, <2>2, UpTo
  <2> QED
    BY <2>3
<1>6. Total(t) = S[n]
  BY <1>2
<1>7. S \in [0 .. n -> Int]
  BY <1>5
<1> HIDE DEF S
<1> QED
  BY <1>3, <1>4, <1>6, <1>7 DEF RunningSum

\* The total of two and of three numbers.
LEMMA TotalOfTwo ==
  ASSUME NEW t \in [1 .. 2 -> Int]
  PROVE  Total(t) = t[1] + t[2]
<1>1. PICK S : RunningSum(S, t, 2)
  BY TotalIsRunningSum
<1>2. S[0] = 0 /\ S[0 + 1] = S[0] + t[0 + 1] /\ S[1 + 1] = S[1] + t[1 + 1] /\ Total(t) = S[2]
  BY <1>1 DEF RunningSum
<1>3. t[1] \in Int /\ t[2] \in Int
  OBVIOUS
<1> QED
  BY <1>2, <1>3

\* The sum over an index of a matrix of size 3.
LEMMA TotalOfThree ==
  ASSUME NEW t \in [1 .. 3 -> Int]
  PROVE  Total(t) = t[1] + t[2] + t[3]
<1>1. PICK S : RunningSum(S, t, 3)
  BY TotalIsRunningSum
<1>2. /\ S[0] = 0 /\ S[0 + 1] = S[0] + t[0 + 1] /\ S[1 + 1] = S[1] + t[1 + 1]
      /\ S[2 + 1] = S[2] + t[2 + 1] /\ Total(t) = S[3]
  BY <1>1 DEF RunningSum
<1>3. t[1] \in Int /\ t[2] \in Int /\ t[3] \in Int
  OBVIOUS
<1> QED
  BY <1>2, <1>3

-----------------------------------------------------------------------------
(* Powers.                                                                  *)

IsPower(f, x, e) == f = [k \in 0 .. e |-> IF k = 0 THEN 1 ELSE f[k - 1] * x]

LEMMA PowerExists ==
  ASSUME NEW x
  PROVE  \A e \in Nat : \E f : IsPower(f, x, e)
<1> DEFINE S == {e \in Nat : \E f : IsPower(f, x, e)}
<1>1. 0 \in S
  <2>1. IsPower([k \in 0 .. 0 |-> 1], x, 0)
    BY DEF IsPower
  <2> QED
    BY <2>1
<1>2. ASSUME NEW e \in Nat, e \in S
      PROVE  e + 1 \in S
  <2>1. PICK f : IsPower(f, x, e)
    BY <1>2
  <2> DEFINE g == [k \in 0 .. e + 1 |-> IF k = e + 1 THEN f[e] * x ELSE f[k]]
  <2>2. \A k \in 0 .. e : f[k] = IF k = 0 THEN 1 ELSE f[k - 1] * x
    BY <2>1 DEF IsPower
  <2>3. \A k \in 0 .. e + 1 : g[k] = IF k = 0 THEN 1 ELSE g[k - 1] * x
    BY <2>2
  <2>4. g = [k \in 0 .. e + 1 |-> g[k]]
    OBVIOUS
  <2> HIDE DEF g
  <2>5. IsPower(g, x, e + 1)
    BY <2>3, <2>4 DEF IsPower
  <2> QED
    BY <2>5
<1>3. \A e \in Nat : e \in S
  <2> HIDE DEF S
  <2> QED
    BY <1>1, <1>2, ForAllNumbers
<1> QED
  BY <1>3

\* The recursion that Power stands for.
LEMMA PowerStep ==
  ASSUME NEW x
  PROVE  /\ Power(x, 0) = 1
         /\ \A e \in Nat : Power(x, e + 1) = Power(x, e) * x
<1> DEFINE P(e) == CHOOSE f : IsPower(f, x, e)
<1>1. \A e \in Nat : IsPower(P(e), x, e) /\ Power(x, e) = P(e)[e]
  <2>1. \A e \in Nat : IsPower(P(e), x, e)
    BY PowerExists
  <2>2. \A e \in Nat : Power(x, e) = P(e)[e]
    BY DEF Power, IsPower
  <2> QED
    BY <2>1, <2>2
<1> HIDE DEF P
<1>2. \A e \in Nat : \A k \in 0 .. e : P(e)[k] = IF k = 0 THEN 1 ELSE P(e)[k - 1] * x
  BY <1>1 DEF IsPower
<1>3. ASSUME NEW e \in Nat
      PROVE  P(e + 1)[e] = P(e)[e]
  <2> DEFINE S == {k \in 0 .. e : P(e + 1)[k] = P(e)[k]}
  <2>1. 0 \in S
    BY <1>2
  <2>2. ASSUME NEW k \in 0 .. e - 1, k \in S
        PROVE  k + 1 \in S
    <3>1. k + 1 \in 0 .. e /\ k + 1 \in 0 .. e + 1 /\ k + 1 # 0 /\ (k + 1) - 1 = k
      OBVIOUS
    <3>2. P(e)[k + 1] = P(e)[k] * x /\ P(e + 1)[k + 1] = P(e + 1)[k] * x
      BY <1>2, <3>1
    <3> QED
      BY <2>2, <3>1, <3>2
  <2>3. \A k \in 0 .. e : k \in S
    <3> HIDE DEF S
    <3> QED
      BY <2>1, <2>2, UpTo
  <2> QED
    BY <2>3
<1>4. Power(x, 0) = 1
  BY <1>1, <1>2
<1>5. ASSUME NEW e \in Nat
      PROVE  Power(x, e + 1) = Power(x, e) * x
  <2>1. e + 1 \in 0 .. e + 1 /\ e + 1 # 0 /\ (e + 1) - 1 = e /\ e + 1 \in Nat
    OBVIOUS
  <2>2. P(e + 1)[e + 1] = P(e + 1)[e] * x
    BY <1>2, <2>1
  <2> QED
    BY <1>1, <1>3, <2>1, <2>2
<1> QED
  BY <1>4, <1>5

LEMMA PowerIsInt ==
  ASSUME NEW x \in Int
  PROVE  \A e \in Nat : Power(x, e) \in Int
<1> DEFINE S == {e \in Nat : Power(x, e) \in Int}
<1>1. 0 \in S
  BY PowerStep
<1>2. ASSUME NEW e \in Nat, e \in S
      PROVE  e + 1 \in S
  <2>1. Power(x, e + 1) = Power(x, e) * x
    BY PowerStep
  <2> QED
    BY <1>2, <2>1
<1>3. \A e \in Nat : e \in S
  <2> HIDE DEF S
  <2> QED
    BY <1>1, <1>2, ForAllNumbers
<1> QED
  BY <1>3

LEMMA LowPowers ==
  ASSUME NEW x \in Int
  PROVE  Power(x, 0) = 1 /\ Power(x, 1) = x /\ Power(x, 2) = x * x
<1>1. Power(x, 0) = 1 /\ Power(x, 0 + 1) = Power(x, 0) * x /\ Power(x, 1 + 1) = Power(x, 1) * x
  BY PowerStep
<1> QED
  BY <1>1

-----------------------------------------------------------------------------
(* The fit of a line.                                                       *)

Ones(ps) == [i \in DOMAIN ps |-> 1]
Xs(ps) == [i \in DOMAIN ps |-> ps[i].x]
Ys(ps) == [i \in DOMAIN ps |-> ps[i].y]
XXs(ps) == [i \in DOMAIN ps |-> ps[i].x * ps[i].x]
XYs(ps) == [i \in DOMAIN ps |-> ps[i].y * ps[i].x]

Points(n) == [1 .. n -> [x : Int, y : Int]]

LEMMA TotalIsInt ==
  ASSUME NEW n \in Nat, NEW t \in [1 .. n -> Int]
  PROVE  Total(t) \in Int
<1>1. PICK S : RunningSum(S, t, n)
  BY TotalIsRunningSum
<1> QED
  BY <1>1 DEF RunningSum

\* The sums of a fit are over integers.
LEMMA PointTotals ==
  ASSUME NEW n \in Nat, NEW ps \in Points(n)
  PROVE  /\ Ones(ps) \in [1 .. n -> Int] /\ Xs(ps) \in [1 .. n -> Int]
         /\ Ys(ps) \in [1 .. n -> Int] /\ XXs(ps) \in [1 .. n -> Int]
         /\ XYs(ps) \in [1 .. n -> Int]
         /\ Total(Ones(ps)) \in Int /\ Total(Xs(ps)) \in Int /\ Total(Ys(ps)) \in Int
         /\ Total(XXs(ps)) \in Int /\ Total(XYs(ps)) \in Int
<1>1. DOMAIN ps = 1 .. n /\ \A i \in 1 .. n : ps[i].x \in Int /\ ps[i].y \in Int
  BY DEF Points
<1>2. \A i \in 1 .. n : ps[i].x * ps[i].x \in Int /\ ps[i].y * ps[i].x \in Int
  BY <1>1
<1>3. /\ Ones(ps) \in [1 .. n -> Int] /\ Xs(ps) \in [1 .. n -> Int]
      /\ Ys(ps) \in [1 .. n -> Int] /\ XXs(ps) \in [1 .. n -> Int]
      /\ XYs(ps) \in [1 .. n -> Int]
  BY <1>1, <1>2 DEF Ones, Xs, Ys, XXs, XYs
<1> QED
  BY <1>3, TotalIsInt

\* The sums that the equations of a line are made of.
LEMMA LineSums ==
  ASSUME NEW n \in Nat, NEW ps \in Points(n)
  PROVE  /\ NormalEquations(ps, 1) =
              [rows |-> 2, cols |-> 2,
               vals |-> [pos \in 0 .. 3 |->
                           CASE pos = 0 -> Total(Ones(ps))
                             [] pos = 3 -> Total(XXs(ps))
                             [] OTHER   -> Total(Xs(ps))]]
         /\ RightHandSide(ps, 1) =
              [rows |-> 2, cols |-> 1,
               vals |-> [pos \in 0 .. 1 |->
                           IF pos = 0 THEN Total(Ys(ps)) ELSE Total(XYs(ps))]]
<1>1. DOMAIN ps = 1 .. n /\ \A i \in 1 .. n : ps[i].x \in Int /\ ps[i].y \in Int
  BY DEF Points
<1>2. /\ [i \in DOMAIN ps |-> Power(ps[i].x, 0)] = Ones(ps)
      /\ [i \in DOMAIN ps |-> Power(ps[i].x, 1)] = Xs(ps)
      /\ [i \in DOMAIN ps |-> Power(ps[i].x, 2)] = XXs(ps)
      /\ [i \in DOMAIN ps |-> ps[i].y * Power(ps[i].x, 0)] = Ys(ps)
      /\ [i \in DOMAIN ps |-> ps[i].y * Power(ps[i].x, 1)] = XYs(ps)
  <2>1. \A i \in DOMAIN ps : /\ Power(ps[i].x, 0) = 1 /\ Power(ps[i].x, 1) = ps[i].x
                             /\ Power(ps[i].x, 2) = ps[i].x * ps[i].x
                             /\ ps[i].y * 1 = ps[i].y
    <3> TAKE i \in DOMAIN ps
    <3>1. ps[i].x \in Int /\ ps[i].y \in Int
      BY <1>1
    <3>2. ps[i].y * 1 = ps[i].y
      BY <3>1
    <3> HIDE <1>1
    <3> QED
      BY <3>1, <3>2, LowPowers
  <2> QED
    BY <2>1 DEF Ones, Xs, Ys, XXs, XYs
<1> DEFINE eqAt(pos) == Total([i \in DOMAIN ps |-> Power(ps[i].x, (pos \div 2) + (pos % 2))])
           acAt(pos) == Total([i \in DOMAIN ps |-> ps[i].y * Power(ps[i].x, pos \div 1)])
<1>3. NormalEquations(ps, 1) =
        [rows |-> 2, cols |-> 2, vals |-> [pos \in 0 .. 3 |-> eqAt(pos)]]
  BY DEF NormalEquations, Mat, SumOver
<1>4. RightHandSide(ps, 1) =
        [rows |-> 2, cols |-> 1, vals |-> [pos \in 0 .. 1 |-> acAt(pos)]]
  BY DEF RightHandSide, Mat, SumOver
<1>5. ASSUME NEW pos \in 0 .. 3
      PROVE  eqAt(pos) = CASE pos = 0 -> Total(Ones(ps))
                           [] pos = 3 -> Total(XXs(ps))
                           [] OTHER   -> Total(Xs(ps))
  <2>1. CASE pos = 0
    <3>1. (pos \div 2) + (pos % 2) = 0
      BY <2>1
    <3> QED
      BY <1>2, <2>1, <3>1
  <2>2. CASE pos = 3
    <3>1. (pos \div 2) + (pos % 2) = 2
      BY <2>2
    <3> QED
      BY <1>2, <2>2, <3>1
  <2>3. CASE pos \in {1, 2}
    <3>1. (pos \div 2) + (pos % 2) = 1
      BY <2>3
    <3> QED
      BY <1>2, <2>3, <3>1
  <2> QED
    BY <2>1, <2>2, <2>3
<1>6. ASSUME NEW pos \in 0 .. 1
      PROVE  acAt(pos) = IF pos = 0 THEN Total(Ys(ps)) ELSE Total(XYs(ps))
  <2>1. pos \div 1 = pos
    OBVIOUS
  <2> QED
    BY <1>2, <2>1
<1> HIDE DEF eqAt, acAt
<1> QED
  BY <1>3, <1>4, <1>5, <1>6

\* The determinant of the equations, and what the coefficients are over it.
LineDet(ps) == Total(Ones(ps)) * Total(XXs(ps)) - Total(Xs(ps)) * Total(Xs(ps))
Constant(ps) == Total(XXs(ps)) * Total(Ys(ps)) - Total(Xs(ps)) * Total(XYs(ps))
Slope(ps) == Total(Ones(ps)) * Total(XYs(ps)) - Total(Xs(ps)) * Total(Ys(ps))

LEMMA LineTypes ==
  ASSUME NEW n \in Nat, NEW ps \in Points(n)
  PROVE  LineDet(ps) \in Int /\ Constant(ps) \in Int /\ Slope(ps) \in Int
BY PointTotals DEF LineDet, Constant, Slope

\* What first_order_least_squares_filter returns.
LEMMA LineIs ==
  ASSUME NEW n \in Nat, NEW ps \in Points(n)
  PROVE  /\ LineDet(ps) = 0 => first_order_least_squares_filter(ps) = Singular
         /\ LineDet(ps) # 0 =>
              first_order_least_squares_filter(ps) =
                [a |-> [pos \in 0 .. 1 |-> IF pos = 0 THEN Constant(ps) ELSE Slope(ps)],
                 div |-> LineDet(ps)]
         /\ LineDet(ps) # 0 => first_order_least_squares_filter(ps) # Singular
<1> DEFINE s0 == Total(Ones(ps))
           s1 == Total(Xs(ps))
           s2 == Total(XXs(ps))
           t0 == Total(Ys(ps))
           t1 == Total(XYs(ps))
           eq == [rows |-> 2, cols |-> 2,
                  vals |-> [pos \in 0 .. 3 |->
                              CASE pos = 0 -> s0 [] pos = 3 -> s2 [] OTHER -> s1]]
           ac == [rows |-> 2, cols |-> 1,
                  vals |-> [pos \in 0 .. 1 |-> IF pos = 0 THEN t0 ELSE t1]]
           num == [rows |-> 2, cols |-> 2,
                   vals |-> [pos \in 0 .. 3 |-> 
                               CASE pos = 0 -> s2 [] pos = 3 -> s0 [] OTHER -> -s1]]
<1>1. s0 \in Int /\ s1 \in Int /\ s2 \in Int /\ t0 \in Int /\ t1 \in Int
  BY PointTotals
<1>2. NormalEquations(ps, 1) = eq /\ RightHandSide(ps, 1) = ac
  BY LineSums
<1> HIDE DEF s0, s1, s2, t0, t1
<1>3. matdet(eq) = s0 * s2 - s1 * s1
  BY <1>1 DEF matdet
<1>4. Numerators(eq) = num
  <2> DEFINE listed == <<s2, -s1, -s1, s0>>
  <2>1. Numerators(eq) = [rows |-> 2, cols |-> 2,
                          vals |-> [pos \in 0 .. 3 |-> listed[(pos % 2) + (pos \div 2) * 2 + 1]]]
    BY DEF Numerators, Mat
  <2>2. \A pos \in 0 .. 3 : (pos % 2) + (pos \div 2) * 2 + 1 = pos + 1
    OBVIOUS
  <2>3. \A pos \in 0 .. 3 : listed[pos + 1] = num.vals[pos]
    BY <1>1
  <2> QED
    BY <2>1, <2>2, <2>3
<1>5. matmul(num, ac).vals = [pos \in 0 .. 1 |-> IF pos = 0 THEN s2 * t0 - s1 * t1
                                                            ELSE s0 * t1 - s1 * t0]
  <2> DEFINE at(pos) == Total([k \in 1 .. 2 |-> num.vals[(k - 1) + (pos \div 1) * 2]
                                                 * ac.vals[(pos % 1) + (k - 1) * 1]])
  <2>1. matmul(num, ac).vals = [pos \in 0 .. 1 |-> at(pos)]
    BY DEF matmul, Mat, Entry
  <2>2. at(0) = s2 * t0 - s1 * t1
    <3>1. [k \in 1 .. 2 |-> num.vals[(k - 1) + (0 \div 1) * 2] * ac.vals[(0 % 1) + (k - 1) * 1]]
            = [k \in 1 .. 2 |-> IF k = 1 THEN s2 * t0 ELSE (-s1) * t1]
      BY <1>1
    <3>2. [k \in 1 .. 2 |-> IF k = 1 THEN s2 * t0 ELSE (-s1) * t1] \in [1 .. 2 -> Int]
      BY <1>1
    <3>3. at(0) = s2 * t0 + (-s1) * t1
      BY <3>1, <3>2, TotalOfTwo
    <3> QED
      BY <1>1, <3>3
  <2>3. at(1) = s0 * t1 - s1 * t0
    <3>1. [k \in 1 .. 2 |-> num.vals[(k - 1) + (1 \div 1) * 2] * ac.vals[(1 % 1) + (k - 1) * 1]]
            = [k \in 1 .. 2 |-> IF k = 1 THEN (-s1) * t0 ELSE s0 * t1]
      BY <1>1
    <3>2. [k \in 1 .. 2 |-> IF k = 1 THEN (-s1) * t0 ELSE s0 * t1] \in [1 .. 2 -> Int]
      BY <1>1
    <3>3. at(1) = (-s1) * t0 + s0 * t1
      BY <3>1, <3>2, TotalOfTwo
    <3> QED
      BY <1>1, <3>3
  <2> HIDE DEF at
  <2> QED
    BY <2>1, <2>2, <2>3
<1> HIDE DEF eq, ac, num
<1>6. LineDet(ps) = s0 * s2 - s1 * s1 /\ Constant(ps) = s2 * t0 - s1 * t1
        /\ Slope(ps) = s0 * t1 - s1 * t0
  BY DEF LineDet, Constant, Slope, s0, s1, s2, t0, t1
<1>7. matinv_safe(eq) = IF LineDet(ps) = 0 THEN Singular
                        ELSE [num |-> num, div |-> LineDet(ps)]
  BY <1>3, <1>4, <1>6 DEF matinv_safe
<1>8. \A x, y : [num |-> x, div |-> y] # Singular /\ [a |-> x, div |-> y] # Singular
  BY DEF Singular
<1>9. first_order_least_squares_filter(ps) =
        IF LineDet(ps) = 0 THEN Singular
        ELSE [a |-> matmul(num, ac).vals, div |-> LineDet(ps)]
  BY <1>2, <1>7, <1>8 DEF first_order_least_squares_filter, SolveNormal
<1> QED
  BY <1>5, <1>6, <1>8, <1>9

-----------------------------------------------------------------------------
(* When there is a line.                                                    *)

LEMMA Squares ==
  ASSUME NEW d \in Int
  PROVE  d * d >= 0 /\ (d * d = 0 => d = 0)
<1>1. CASE d = 0
  BY <1>1
<1>2. CASE d > 0
  <2>1. d * d > 0
    BY <1>2
  <2> QED
    BY <2>1
<1>3. CASE d < 0
  <2>1. d * d > 0
    BY <1>3
  <2> QED
    BY <2>1
<1> QED
  BY <1>1, <1>2, <1>3

\* The determinant of the equations is not negative, and 0 only if all the
\* points are above one place: adding a point adds to it the squared
\* distances of the others from it.
LEMMA LineExists ==
  ASSUME NEW n \in Nat, NEW ps \in Points(n)
  PROVE  /\ LineDet(ps) >= 0
         /\ LineDet(ps) = 0 => \A i, j \in 1 .. n : ps[i].x = ps[j].x
<1>1. /\ DOMAIN ps = 1 .. n
      /\ \A i \in 1 .. n : ps[i].x \in Int /\ ps[i].x * ps[i].x \in Int
  BY DEF Points
<1>2. PICK N : RunningSum(N, Ones(ps), n)
  BY PointTotals, TotalIsRunningSum
<1>3. PICK X : RunningSum(X, Xs(ps), n)
  BY PointTotals, TotalIsRunningSum
<1>4. PICK Q : RunningSum(Q, XXs(ps), n)
  BY PointTotals, TotalIsRunningSum
<1>5. \A k \in 0 .. n : N[k] \in Int /\ X[k] \in Int /\ Q[k] \in Int
  BY <1>2, <1>3, <1>4 DEF RunningSum
<1>6. N[0] = 0 /\ X[0] = 0 /\ Q[0] = 0
  BY <1>2, <1>3, <1>4 DEF RunningSum
<1>7. ASSUME NEW k \in 0 .. n - 1
      PROVE  /\ N[k + 1] = N[k] + 1
             /\ X[k + 1] = X[k] + ps[k + 1].x
             /\ Q[k + 1] = Q[k] + ps[k + 1].x * ps[k + 1].x
  <2>1. k + 1 \in DOMAIN ps
    BY <1>1
  <2> QED
    BY <1>2, <1>3, <1>4, <2>1 DEF RunningSum, Ones, Xs, XXs
\* The sum of the squared distances of the first k points from place x.
<1> DEFINE dist(k, x) == Q[k] - 2 * x * X[k] + N[k] * x * x
<1>8. ASSUME NEW x \in Int
      PROVE  \A k \in 0 .. n :
               dist(k, x) >= 0 /\ (dist(k, x) = 0 => \A i \in 1 .. k : ps[i].x = x)
  <2> DEFINE S == {k \in 0 .. n :
               dist(k, x) >= 0 /\ (dist(k, x) = 0 => \A i \in 1 .. k : ps[i].x = x)}
  <2>1. 0 \in S
    BY <1>6
  <2>2. ASSUME NEW k \in 0 .. n - 1, k \in S
        PROVE  k + 1 \in S
    <3> DEFINE d == ps[k + 1].x - x
    <3>1. d \in Int /\ ps[k + 1].x \in Int /\ N[k] \in Int /\ X[k] \in Int /\ Q[k] \in Int
      BY <1>1, <1>5
    <3>2. dist(k + 1, x) = dist(k, x) + d * d
      <4>1. dist(k + 1, x) = (Q[k] + ps[k + 1].x * ps[k + 1].x) - 2 * x * (X[k] + ps[k + 1].x)
                               + (N[k] + 1) * x * x
        BY <1>7
      <4> QED
        BY <3>1, <4>1
    <3>3. d * d >= 0 /\ (d * d = 0 => d = 0)
      <4> HIDE DEF d
      <4> QED
        BY <3>1, Squares
    <3>4. dist(k, x) \in Int
      BY <3>1
    <3>5. dist(k, x) >= 0 /\ (dist(k, x) = 0 => \A i \in 1 .. k : ps[i].x = x)
      BY <2>2
    <3> HIDE DEF S, dist
    <3>6. dist(k + 1, x) >= 0
      BY <3>1, <3>2, <3>3, <3>4, <3>5
    <3>7. ASSUME dist(k + 1, x) = 0
          PROVE  \A i \in 1 .. k + 1 : ps[i].x = x
      <4>1. dist(k, x) = 0 /\ d * d = 0
        BY <3>1, <3>2, <3>3, <3>4, <3>5, <3>7
      <4>2. ps[k + 1].x = x
        <5>1. d = 0
          BY <3>3, <4>1
        <5> QED
          BY <3>1, <5>1
      <4>3. \A i \in 1 .. k : ps[i].x = x
        BY <3>5, <4>1
      <4> QED
        BY <4>2, <4>3
    <3>8. k + 1 \in 0 .. n
      OBVIOUS
    <3> QED
      BY <3>6, <3>7, <3>8 DEF S
  <2> HIDE DEF S
  <2>3. \A k \in 0 .. n : k \in S
    BY <2>1, <2>2, UpTo
  <2> QED
    BY <2>3 DEF S
<1> DEFINE det(k) == N[k] * Q[k] - X[k] * X[k]
           S == {k \in 0 .. n : /\ det(k) >= 0
                                /\ det(k) = 0 => \A i, j \in 1 .. k : ps[i].x = ps[j].x}
<1>9. 0 \in S
  BY <1>6
<1>10. ASSUME NEW k \in 0 .. n - 1, k \in S
       PROVE  k + 1 \in S
  <2> DEFINE x == ps[k + 1].x
  <2>1. x \in Int /\ N[k] \in Int /\ X[k] \in Int /\ Q[k] \in Int /\ k \in 0 .. n
    BY <1>1, <1>5
  <2>2. det(k + 1) = det(k) + dist(k, x)
    <3>1. det(k + 1) = (N[k] + 1) * (Q[k] + x * x) - (X[k] + x) * (X[k] + x)
      BY <1>7
    <3> HIDE DEF x
    <3> QED
      BY <2>1, <3>1
  <2>3. dist(k, x) >= 0 /\ (dist(k, x) = 0 => \A i \in 1 .. k : ps[i].x = x)
    BY <1>8, <2>1
  <2>4. det(k) \in Int /\ dist(k, x) \in Int
    BY <2>1
  <2> HIDE DEF det, dist
  <2>5. det(k) >= 0
    BY <1>10
  <2>6. det(k + 1) >= 0
    BY <2>2, <2>3, <2>4, <2>5
  <2>7. ASSUME det(k + 1) = 0
        PROVE  \A i, j \in 1 .. k + 1 : ps[i].x = ps[j].x
    <3>1. dist(k, x) = 0
      BY <2>2, <2>3, <2>4, <2>5, <2>7
    <3>2. \A i \in 1 .. k + 1 : ps[i].x = x
      BY <2>3, <3>1
    <3> QED
      BY <3>2
  <2> QED
    BY <2>6, <2>7
<1>11. \A k \in 0 .. n : k \in S
  <2> HIDE DEF S
  <2> QED
    BY <1>9, <1>10, UpTo
<1>12. LineDet(ps) = det(n)
  BY <1>2, <1>3, <1>4 DEF RunningSum, LineDet
<1> QED
  BY <1>11, <1>12

\* The sums of points on a line solve its equations.
LEMMA LineAlgebra ==
  ASSUME NEW n \in Int, NEW x \in Int, NEW q \in Int, NEW y \in Int, NEW w \in Int,
         NEW g \in Int, NEW z \in Int, x = g * y + z * n, q = g * w + z * x
  PROVE  /\ g * (n * w - x * y) = n * q - x * x
         /\ g * (q * y - x * w) = - (z * (n * q - x * x))
<1>1. g * (n * w - x * y) = n * (g * w) - x * (g * y)
  OBVIOUS
<1>2. g * (q * y - x * w) = q * (g * y) - x * (g * w)
  OBVIOUS
<1>3. g * y = x - z * n /\ g * w = q - z * x
  OBVIOUS
<1>4. n * (q - z * x) - x * (x - z * n) = n * q - x * x
  OBVIOUS
<1>5. q * (x - z * n) - x * (q - z * x) = - (z * (n * q - x * x))
  OBVIOUS
<1> QED
  BY <1>1, <1>2, <1>3, <1>4, <1>5, Zenon

\* Points on a line y = (x - z) / g give that line.
LEMMA LineIsExact ==
  ASSUME NEW n \in Nat, NEW ps \in Points(n), NEW g \in Int, NEW z \in Int,
         \A i \in 1 .. n : ps[i].x = g * ps[i].y + z
  PROVE  /\ g * Slope(ps) = LineDet(ps)
         /\ g * Constant(ps) = - (z * LineDet(ps))
<1>1. /\ DOMAIN ps = 1 .. n
      /\ \A i \in 1 .. n : ps[i].x \in Int /\ ps[i].y \in Int
  BY DEF Points
<1>2. PICK N : RunningSum(N, Ones(ps), n)
  BY PointTotals, TotalIsRunningSum
<1>3. PICK X : RunningSum(X, Xs(ps), n)
  BY PointTotals, TotalIsRunningSum
<1>4. PICK Q : RunningSum(Q, XXs(ps), n)
  BY PointTotals, TotalIsRunningSum
<1>5. PICK Y : RunningSum(Y, Ys(ps), n)
  BY PointTotals, TotalIsRunningSum
<1>6. PICK W : RunningSum(W, XYs(ps), n)
  BY PointTotals, TotalIsRunningSum
<1>7. \A k \in 0 .. n : N[k] \in Int /\ X[k] \in Int /\ Q[k] \in Int /\ Y[k] \in Int /\ W[k] \in Int
  BY <1>2, <1>3, <1>4, <1>5, <1>6 DEF RunningSum
<1>8. N[0] = 0 /\ X[0] = 0 /\ Q[0] = 0 /\ Y[0] = 0 /\ W[0] = 0
  BY <1>2, <1>3, <1>4, <1>5, <1>6 DEF RunningSum
<1>9. ASSUME NEW k \in 0 .. n - 1
      PROVE  /\ N[k + 1] = N[k] + 1
             /\ X[k + 1] = X[k] + ps[k + 1].x
             /\ Q[k + 1] = Q[k] + ps[k + 1].x * ps[k + 1].x
             /\ Y[k + 1] = Y[k] + ps[k + 1].y
             /\ W[k + 1] = W[k] + ps[k + 1].y * ps[k + 1].x
  <2>1. k + 1 \in DOMAIN ps
    BY <1>1
  <2> QED
    BY <1>2, <1>3, <1>4, <1>5, <1>6, <2>1 DEF RunningSum, Ones, Xs, XXs, Ys, XYs
<1> DEFINE S == {k \in 0 .. n : X[k] = g * Y[k] + z * N[k] /\ Q[k] = g * W[k] + z * X[k]}
<1>10. 0 \in S
  BY <1>8
<1>11. ASSUME NEW k \in 0 .. n - 1, k \in S
       PROVE  k + 1 \in S
  <2> DEFINE x == ps[k + 1].x
             y == ps[k + 1].y
  <2>1. /\ x \in Int /\ y \in Int /\ x = g * y + z
        /\ N[k] \in Int /\ X[k] \in Int /\ Q[k] \in Int /\ Y[k] \in Int /\ W[k] \in Int
    BY <1>1, <1>7
  <2>2. X[k] = g * Y[k] + z * N[k] /\ Q[k] = g * W[k] + z * X[k]
    BY <1>11
  <2>3. X[k + 1] = g * Y[k + 1] + z * N[k + 1]
    <3>1. X[k + 1] = X[k] + x /\ Y[k + 1] = Y[k] + y /\ N[k + 1] = N[k] + 1
      BY <1>9
    <3> HIDE DEF x, y
    <3> QED
      BY <2>1, <2>2, <3>1
  <2>4. Q[k + 1] = g * W[k + 1] + z * X[k + 1]
    <3>1. Q[k + 1] = Q[k] + x * x /\ W[k + 1] = W[k] + y * x /\ X[k + 1] = X[k] + x
      BY <1>9
    <3> HIDE DEF x, y
    <3>2. x * x = g * (y * x) + z * x
      BY <2>1
    <3>3. y * x \in Int /\ x * x \in Int
      BY <2>1
    <3> QED
      BY <2>1, <2>2, <3>1, <3>2, <3>3
  <2> QED
    BY <2>3, <2>4
<1>12. \A k \in 0 .. n : k \in S
  <2> HIDE DEF S
  <2> QED
    BY <1>10, <1>11, UpTo
<1>13. X[n] = g * Y[n] + z * N[n] /\ Q[n] = g * W[n] + z * X[n]
  BY <1>12
<1>14. /\ LineDet(ps) = N[n] * Q[n] - X[n] * X[n]
       /\ Constant(ps) = Q[n] * Y[n] - X[n] * W[n]
       /\ Slope(ps) = N[n] * W[n] - X[n] * Y[n]
  BY <1>2, <1>3, <1>4, <1>5, <1>6 DEF RunningSum, LineDet, Constant, Slope
<1>15. N[n] \in Int /\ X[n] \in Int /\ Q[n] \in Int /\ Y[n] \in Int /\ W[n] \in Int
  BY <1>7
<1> HIDE DEF S
<1>16. /\ g * (N[n] * W[n] - X[n] * Y[n]) = N[n] * Q[n] - X[n] * X[n]
       /\ g * (Q[n] * Y[n] - X[n] * W[n]) = - (z * (N[n] * Q[n] - X[n] * X[n]))
  <2> DEFINE m == N[n]
             x == X[n]
             q == Q[n]
             y == Y[n]
             w == W[n]
  <2>1. m \in Int /\ x \in Int /\ q \in Int /\ y \in Int /\ w \in Int
    BY <1>15
  <2>2. x = g * y + z * m /\ q = g * w + z * x
    BY <1>13
  <2> HIDE DEF m, x, q, y, w
  <2>3. /\ g * (m * w - x * y) = m * q - x * x
        /\ g * (q * y - x * w) = - (z * (m * q - x * x))
    BY <2>1, <2>2, LineAlgebra
  <2> QED
    BY <2>3 DEF m, x, q, y, w
<1> QED
  BY <1>14, <1>16

-----------------------------------------------------------------------------
(* The inverses in closed form.                                             *)

LEMMA Places3 ==
  \A k \in 1 .. 3 : \A pos \in 0 .. k * k - 1 :
    /\ pos \div k \in 0 .. k - 1 /\ pos % k \in 0 .. k - 1
    /\ (pos % k) + (pos \div k) * k = pos
    /\ (pos \div k) + (pos % k) * k \in 0 .. k * k - 1
<1> TAKE k \in 1 .. 3
<1> TAKE pos \in 0 .. k * k - 1
<1>1. CASE k = 1
  BY <1>1
<1>2. CASE k = 2
  BY <1>2
<1>3. CASE k = 3
  BY <1>3
<1> QED
  BY <1>1, <1>2, <1>3

\* A sum that is accumulated over one term.
LEMMA TotalOfOne ==
  ASSUME NEW t \in [1 .. 1 -> Int]
  PROVE  Total(t) = t[1]
<1>1. PICK S : RunningSum(S, t, 1)
  BY TotalIsRunningSum
<1>2. S[0] = 0 /\ S[0 + 1] = S[0] + t[0 + 1] /\ Total(t) = S[1]
  BY <1>1 DEF RunningSum
<1>3. t[1] \in Int
  OBVIOUS
<1> QED
  BY <1>2, <1>3

\* What is added up for an entry of a product.
Terms(l, r, k, pos) ==
  [j \in 1 .. k |-> l.vals[(j - 1) + (pos \div k) * k] * r.vals[(pos % k) + (j - 1) * k]]

\* matmul, entry by entry.
LEMMA ProductIs ==
  ASSUME NEW k \in 1 .. 3, NEW l \in MatrixOf(k), NEW r \in MatrixOf(k)
  PROVE  /\ matmul(l, r) = [rows |-> k, cols |-> k,
                            vals |-> [pos \in 0 .. k * k - 1 |-> Total(Terms(l, r, k, pos))]]
         /\ \A pos \in 0 .. k * k - 1 : Terms(l, r, k, pos) \in [1 .. k -> Int]
<1>1. l.rows = k /\ l.cols = k /\ r.rows = k /\ r.cols = k
  BY DEF MatrixOf
<1>2. matmul(l, r) = [rows |-> k, cols |-> k,
                      vals |-> [pos \in 0 .. k * k - 1 |-> Total(Terms(l, r, k, pos))]]
  BY <1>1 DEF matmul, Mat, Entry, Terms
<1>3. ASSUME NEW pos \in 0 .. k * k - 1
      PROVE  Terms(l, r, k, pos) \in [1 .. k -> Int]
  <2>1. \A j \in 1 .. k : /\ (j - 1) + (pos \div k) * k \in 0 .. k * k - 1
                          /\ (pos % k) + (j - 1) * k \in 0 .. k * k - 1
    <3>1. CASE k = 1
      BY <3>1
    <3>2. CASE k = 2
      BY <3>2
    <3>3. CASE k = 3
      BY <3>3
    <3> QED
      BY <3>1, <3>2, <3>3
  <2>2. \A i \in 0 .. k * k - 1 : l.vals[i] \in Int /\ r.vals[i] \in Int
    BY DEF MatrixOf
  <2>3. \A x, y \in Int : x * y \in Int
    OBVIOUS
  <2> QED
    BY <2>1, <2>2, <2>3 DEF Terms
<1> QED
  BY <1>2, <1>3

\* The identity times d, and a transposed matrix.
LEMMA ScaledIdentity ==
  ASSUME NEW k \in 1 .. 3, NEW d \in Int
  PROVE  matsca(matidn(k), d) =
           [rows |-> k, cols |-> k,
            vals |-> [pos \in 0 .. k * k - 1 |-> IF pos \div k = pos % k THEN d ELSE 0]]
<1> DEFINE one == [pos \in 0 .. k * k - 1 |-> IF pos \div k = pos % k THEN 1 ELSE 0]
<1>1. matidn(k) = [rows |-> k, cols |-> k, vals |-> one]
  BY DEF matidn, Mat
<1>2. matsca(matidn(k), d) =
        [rows |-> k, cols |-> k,
         vals |-> [pos \in 0 .. k * k - 1 |-> one[(pos % k) + (pos \div k) * k] * d]]
  BY <1>1 DEF matsca, Mat, Entry
<1>3. \A pos \in 0 .. k * k - 1 :
        one[(pos % k) + (pos \div k) * k] * d = IF pos \div k = pos % k THEN d ELSE 0
  <2> TAKE pos \in 0 .. k * k - 1
  <2>1. one[(pos % k) + (pos \div k) * k] = IF pos \div k = pos % k THEN 1 ELSE 0
    BY Places3
  <2>2. 1 * d = d /\ 0 * d = 0
    OBVIOUS
  <2> QED
    BY <2>1, <2>2
<1> HIDE DEF one
<1> QED
  BY <1>2, <1>3

\* mattrn, entry by entry.
LEMMA TransposedIs ==
  ASSUME NEW k \in 1 .. 3, NEW a \in MatrixOf(k)
  PROVE  /\ mattrn(a) = [rows |-> k, cols |-> k,
                         vals |-> [pos \in 0 .. k * k - 1 |-> a.vals[(pos \div k) + (pos % k) * k]]]
         /\ mattrn(a) \in MatrixOf(k)
<1> DEFINE f == [pos \in 0 .. k * k - 1 |-> a.vals[(pos \div k) + (pos % k) * k]]
<1>1. mattrn(a) = [rows |-> k, cols |-> k, vals |-> f]
  BY DEF MatrixOf, mattrn, Mat, Entry
<1>2. \A pos \in 0 .. k * k - 1 : a.vals[(pos \div k) + (pos % k) * k] \in Int
  BY Places3 DEF MatrixOf
<1>3. f \in [0 .. k * k - 1 -> Int]
  BY <1>2
<1>4. [rows |-> k, cols |-> k, vals |-> f] \in MatrixOf(k)
  <2> HIDE DEF f
  <2> QED
    BY <1>3 DEF MatrixOf
<1> QED
  BY <1>1, <1>4

\* Cofactors of the same row or column add up to the determinant, others to 0.
Cofactors(v) ==
  [pos \in 0 .. 8 |->
     CASE pos = 0 -> v[4] * v[8] - v[5] * v[7]
       [] pos = 1 -> v[2] * v[7] - v[1] * v[8]
       [] pos = 2 -> v[1] * v[5] - v[4] * v[2]
       [] pos = 3 -> v[6] * v[5] - v[3] * v[8]
       [] pos = 4 -> v[0] * v[8] - v[6] * v[2]
       [] pos = 5 -> v[3] * v[2] - v[0] * v[5]
       [] pos = 6 -> v[3] * v[7] - v[6] * v[4]
       [] pos = 7 -> v[6] * v[1] - v[0] * v[7]
       [] pos = 8 -> v[0] * v[4] - v[1] * v[3]]
Det3(v) == v[0] * v[4] * v[8] + v[1] * v[5] * v[6] + v[2] * v[3] * v[7]
             - v[2] * v[4] * v[6] - v[1] * v[3] * v[8] - v[0] * v[5] * v[7]

LEMMA CofactorsAre ==
  ASSUME NEW v \in [0 .. 8 -> Int]
  PROVE  /\ Cofactors(v) \in [0 .. 8 -> Int] /\ Det3(v) \in Int
         /\ \A i, j \in 0 .. 2 :
              /\ v[3 * i] * Cofactors(v)[j] + v[3 * i + 1] * Cofactors(v)[j + 3]
                   + v[3 * i + 2] * Cofactors(v)[j + 6] = IF i = j THEN Det3(v) ELSE 0
              /\ Cofactors(v)[3 * i] * v[j] + Cofactors(v)[3 * i + 1] * v[j + 3]
                   + Cofactors(v)[3 * i + 2] * v[j + 6] = IF i = j THEN Det3(v) ELSE 0
<1> DEFINE w == Cofactors(v)
<1>1. /\ v[0] \in Int /\ v[1] \in Int /\ v[2] \in Int /\ v[3] \in Int /\ v[4] \in Int
      /\ v[5] \in Int /\ v[6] \in Int /\ v[7] \in Int /\ v[8] \in Int
  OBVIOUS
<1>2. /\ w[0] = v[4] * v[8] - v[5] * v[7]
      /\ w[1] = v[2] * v[7] - v[1] * v[8]
      /\ w[2] = v[1] * v[5] - v[4] * v[2]
      /\ w[3] = v[6] * v[5] - v[3] * v[8]
      /\ w[4] = v[0] * v[8] - v[6] * v[2]
      /\ w[5] = v[3] * v[2] - v[0] * v[5]
      /\ w[6] = v[3] * v[7] - v[6] * v[4]
      /\ w[7] = v[6] * v[1] - v[0] * v[7]
      /\ w[8] = v[0] * v[4] - v[1] * v[3]
  BY DEF Cofactors
<1>3. \A x, y, z, u \in Int : x * y - z * u \in Int
  OBVIOUS
<1>4. /\ w[0] \in Int /\ w[1] \in Int /\ w[2] \in Int /\ w[3] \in Int /\ w[4] \in Int
      /\ w[5] \in Int /\ w[6] \in Int /\ w[7] \in Int /\ w[8] \in Int
  BY <1>1, <1>2, <1>3
<1>5. w \in [0 .. 8 -> Int]
  <2>1. w = [pos \in 0 .. 8 |-> w[pos]]
    BY DEF Cofactors
  <2>2. \A pos \in 0 .. 8 : w[pos] \in Int
    BY <1>4
  <2> HIDE DEF w
  <2> QED
    BY <2>1, <2>2
<1>6. Det3(v) \in Int
  BY <1>1 DEF Det3
<1> HIDE DEF w
<1>7. /\ v[0] * w[0] + v[1] * w[3] + v[2] * w[6] = Det3(v)
      /\ v[0] * w[1] + v[1] * w[4] + v[2] * w[7] = 0
      /\ v[0] * w[2] + v[1] * w[5] + v[2] * w[8] = 0
      /\ w[0] * v[0] + w[1] * v[3] + w[2] * v[6] = Det3(v)
      /\ w[0] * v[1] + w[1] * v[4] + w[2] * v[7] = 0
      /\ w[0] * v[2] + w[1] * v[5] + w[2] * v[8] = 0
  BY <1>1, <1>2 DEF Det3
<1>8. /\ v[3] * w[0] + v[4] * w[3] + v[5] * w[6] = 0
      /\ v[3] * w[1] + v[4] * w[4] + v[5] * w[7] = Det3(v)
      /\ v[3] * w[2] + v[4] * w[5] + v[5] * w[8] = 0
      /\ w[3] * v[0] + w[4] * v[3] + w[5] * v[6] = 0
      /\ w[3] * v[1] + w[4] * v[4] + w[5] * v[7] = Det3(v)
      /\ w[3] * v[2] + w[4] * v[5] + w[5] * v[8] = 0
  BY <1>1, <1>2 DEF Det3
<1>9. /\ v[6] * w[0] + v[7] * w[3] + v[8] * w[6] = 0
      /\ v[6] * w[1] + v[7] * w[4] + v[8] * w[7] = 0
      /\ v[6] * w[2] + v[7] * w[5] + v[8] * w[8] = Det3(v)
      /\ w[6] * v[0] + w[7] * v[3] + w[8] * v[6] = 0
      /\ w[6] * v[1] + w[7] * v[4] + w[8] * v[7] = 0
      /\ w[6] * v[2] + w[7] * v[5] + w[8] * v[8] = Det3(v)
  BY <1>1, <1>2 DEF Det3
<1>10. \A i, j \in 0 .. 2 :
         /\ v[3 * i] * w[j] + v[3 * i + 1] * w[j + 3] + v[3 * i + 2] * w[j + 6]
              = IF i = j THEN Det3(v) ELSE 0
         /\ w[3 * i] * v[j] + w[3 * i + 1] * v[j + 3] + w[3 * i + 2] * v[j + 6]
              = IF i = j THEN Det3(v) ELSE 0
  <2> TAKE i, j \in 0 .. 2
  <2>1. i \in {0, 1, 2} /\ j \in {0, 1, 2}
    OBVIOUS
  <2>2. CASE i = 0
    BY <1>7, <2>1, <2>2
  <2>3. CASE i = 1
    BY <1>8, <2>1, <2>3
  <2>4. CASE i = 2
    BY <1>9, <2>1, <2>4
  <2> QED
    BY <2>1, <2>2, <2>3, <2>4
<1> QED
  BY <1>5, <1>6, <1>10 DEF w

\* What matinv_safe is made of, size by size.
LEMMA InverseOfOne ==
  ASSUME NEW a \in MatrixOf(1)
  PROVE  /\ matdet(a) = a.vals[0]
         /\ Numerators(a) = [rows |-> 1, cols |-> 1, vals |-> [pos \in 0 .. 0 |-> 1]]
<1>1. a.rows = 1 /\ a.cols = 1
  BY DEF MatrixOf
<1>2. matdet(a) = a.vals[0]
  BY <1>1 DEF matdet
<1>3. Numerators(a) = [rows |-> 1, cols |-> 1,
                       vals |-> [pos \in 0 .. 1 * 1 - 1 |->
                                   <<1>>[(pos % 1) + (pos \div 1) * 1 + 1]]]
  BY <1>1 DEF Numerators, Mat
<1>4. \A pos \in 0 .. 0 : <<1>>[(pos % 1) + (pos \div 1) * 1 + 1] = 1
  <2> TAKE pos \in 0 .. 0
  <2>1. (pos % 1) + (pos \div 1) * 1 + 1 = 1
    OBVIOUS
  <2> QED
    BY <2>1
<1> QED
  BY <1>2, <1>3, <1>4

\* What matinv_safe makes of a matrix of size 2 (numerical_basics.c 191-203).
LEMMA InverseOfTwo ==
  ASSUME NEW a \in MatrixOf(2)
  PROVE  /\ matdet(a) = a.vals[0] * a.vals[3] - a.vals[1] * a.vals[2]
         /\ Numerators(a) =
              [rows |-> 2, cols |-> 2,
               vals |-> [pos \in 0 .. 3 |-> CASE pos = 0 -> a.vals[3]
                                              [] pos = 1 -> - a.vals[1]
                                              [] pos = 2 -> - a.vals[2]
                                              [] pos = 3 -> a.vals[0]]]
<1> DEFINE v == a.vals
           listed == <<v[3], - v[1], - v[2], v[0]>>
           w == [pos \in 0 .. 3 |-> CASE pos = 0 -> v[3] [] pos = 1 -> - v[1]
                                      [] pos = 2 -> - v[2] [] pos = 3 -> v[0]]
<1>1. a.rows = 2 /\ a.cols = 2
  BY DEF MatrixOf
<1>2. matdet(a) = v[0] * v[3] - v[1] * v[2]
  BY <1>1 DEF matdet
<1>3. Numerators(a) = [rows |-> 2, cols |-> 2,
                       vals |-> [pos \in 0 .. 3 |-> listed[(pos % 2) + (pos \div 2) * 2 + 1]]]
  BY <1>1 DEF Numerators, Mat
<1>4. /\ listed[1] = v[3] /\ listed[2] = - v[1] /\ listed[3] = - v[2] /\ listed[4] = v[0]
      /\ w[0] = v[3] /\ w[1] = - v[1] /\ w[2] = - v[2] /\ w[3] = v[0]
  <2> HIDE DEF v
  <2> QED
    OBVIOUS
<1>5. w = [pos \in 0 .. 3 |-> w[pos]]
  OBVIOUS
<1> HIDE DEF listed, w
<1>6. \A pos \in 0 .. 3 : listed[(pos % 2) + (pos \div 2) * 2 + 1] = w[pos]
  <2> TAKE pos \in 0 .. 3
  <2>1. (pos % 2) + (pos \div 2) * 2 + 1 = pos + 1 /\ pos \in {0, 1, 2, 3}
    OBVIOUS
  <2>2. listed[pos + 1] = w[pos]
    BY <1>4, <2>1
  <2> QED
    BY <2>1, <2>2
<1>7. Numerators(a) = [rows |-> 2, cols |-> 2, vals |-> w]
  BY <1>3, <1>5, <1>6
<1> QED
  BY <1>2, <1>7 DEF w

\* What matinv_safe makes of a matrix of size 3 are its cofactors.
LEMMA InverseOfThree ==
  ASSUME NEW a \in MatrixOf(3)
  PROVE  /\ matdet(a) = Det3(a.vals)
         /\ Numerators(a) = [rows |-> 3, cols |-> 3, vals |-> Cofactors(a.vals)]
<1> DEFINE v == a.vals
           w == Cofactors(v)
           listed == <<v[4] * v[8] - v[5] * v[7],
                       v[2] * v[7] - v[1] * v[8],
                       v[1] * v[5] - v[4] * v[2],
                       v[6] * v[5] - v[3] * v[8],
                       v[0] * v[8] - v[6] * v[2],
                       v[3] * v[2] - v[0] * v[5],
                       v[3] * v[7] - v[6] * v[4],
                       v[6] * v[1] - v[0] * v[7],
                       v[0] * v[4] - v[1] * v[3]>>
<1>1. a.rows = 3 /\ a.cols = 3
  BY DEF MatrixOf
<1>2. matdet(a) = Det3(v)
  BY <1>1 DEF matdet, Det3
<1>3. Numerators(a) = [rows |-> 3, cols |-> 3,
                       vals |-> [pos \in 0 .. 8 |-> listed[(pos % 3) + (pos \div 3) * 3 + 1]]]
  BY <1>1 DEF Numerators, Mat
<1>4. /\ w[0] = listed[1] /\ w[1] = listed[2] /\ w[2] = listed[3] /\ w[3] = listed[4]
      /\ w[4] = listed[5] /\ w[5] = listed[6] /\ w[6] = listed[7] /\ w[7] = listed[8]
      /\ w[8] = listed[9]
  <2> HIDE DEF v
  <2> QED
    BY DEF Cofactors
<1>5. w = [pos \in 0 .. 8 |-> w[pos]]
  BY DEF Cofactors
<1> HIDE DEF listed, w
<1>6. \A pos \in 0 .. 8 : listed[(pos % 3) + (pos \div 3) * 3 + 1] = w[pos]
  <2> TAKE pos \in 0 .. 8
  <2>1. (pos % 3) + (pos \div 3) * 3 + 1 = pos + 1 /\ pos \in {0, 1, 2, 3, 4, 5, 6, 7, 8}
    OBVIOUS
  <2>2. listed[pos + 1] = w[pos]
    BY <1>4, <2>1
  <2> QED
    BY <2>1, <2>2
<1>7. Numerators(a) = [rows |-> 3, cols |-> 3, vals |-> w]
  BY <1>3, <1>5, <1>6
<1> QED
  BY <1>2, <1>7 DEF w

\* What InverseIsExact says of a matrix and its numerators.
Inverts(a) ==
  /\ matmul(a, Numerators(a)) = matsca(matidn(a.rows), matdet(a))
  /\ matmul(Numerators(a), a) = matsca(matidn(a.rows), matdet(a))
  /\ matdet(mattrn(a)) = matdet(a)
  /\ Numerators(mattrn(a)) = mattrn(Numerators(a))

LEMMA IsScaledIdentity ==
  ASSUME NEW k \in 1 .. 3, NEW l \in MatrixOf(k), NEW r \in MatrixOf(k), NEW d \in Int,
         \A pos \in 0 .. k * k - 1 :
           Total(Terms(l, r, k, pos)) = IF pos \div k = pos % k THEN d ELSE 0
  PROVE  matmul(l, r) = matsca(matidn(k), d)
<1>1. matmul(l, r) = [rows |-> k, cols |-> k,
                      vals |-> [pos \in 0 .. k * k - 1 |-> Total(Terms(l, r, k, pos))]]
  BY ProductIs
<1> QED
  BY <1>1, ScaledIdentity

LEMMA InvertsOne ==
  ASSUME NEW a \in MatrixOf(1)
  PROVE  Inverts(a)
<1> DEFINE d == a.vals[0]
           num == Numerators(a)
<1>1. /\ a.rows = 1 /\ d \in Int /\ matdet(a) = d
      /\ num = [rows |-> 1, cols |-> 1, vals |-> [pos \in 0 .. 0 |-> 1]]
  BY InverseOfOne DEF MatrixOf
<1>2. num \in MatrixOf(1)
  BY <1>1 DEF MatrixOf
<1>3. /\ mattrn(a) = [rows |-> 1, cols |-> 1, vals |-> [pos \in 0 .. 0 |-> a.vals[0]]]
      /\ mattrn(a) \in MatrixOf(1)
      /\ mattrn(num) = [rows |-> 1, cols |-> 1, vals |-> [pos \in 0 .. 0 |-> 1]]
  <2>1. \A pos \in 0 .. 0 : (pos \div 1) + (pos % 1) * 1 = 0
    OBVIOUS
  <2>2. num.vals[0] = 1
    BY <1>1
  <2> HIDE DEF num, d
  <2> QED
    BY <1>2, <2>1, <2>2, TransposedIs
<1>4. matdet(mattrn(a)) = d /\ Numerators(mattrn(a)) = mattrn(num)
  BY <1>3, InverseOfOne
<1>5. ASSUME NEW l \in MatrixOf(1), NEW r \in MatrixOf(1), l.vals[0] * r.vals[0] = d
      PROVE  matmul(l, r) = matsca(matidn(1), d)
  <2>1. ASSUME NEW pos \in 0 .. 0
        PROVE  Total(Terms(l, r, 1, pos)) = d
    <3>1. (1 - 1) + (pos \div 1) * 1 = 0 /\ (pos % 1) + (1 - 1) * 1 = 0
      OBVIOUS
    <3>2. Terms(l, r, 1, pos)[1] = l.vals[0] * r.vals[0]
      BY <3>1 DEF Terms
    <3>3. Terms(l, r, 1, pos) \in [1 .. 1 -> Int]
      BY ProductIs
    <3> QED
      BY <1>5, <3>2, <3>3, TotalOfOne
  <2>2. \A pos \in 0 .. 1 * 1 - 1 :
          Total(Terms(l, r, 1, pos)) = IF pos \div 1 = pos % 1 THEN d ELSE 0
    BY <2>1
  <2> HIDE DEF d
  <2> QED
    BY <1>1, <2>2, IsScaledIdentity
<1>6. num.vals[0] = 1 /\ d * 1 = d /\ 1 * d = d
  BY <1>1
<1>7. matmul(a, num) = matsca(matidn(1), d) /\ matmul(num, a) = matsca(matidn(1), d)
  <2> HIDE DEF num
  <2> QED
    BY <1>2, <1>5, <1>6
<1> QED
  BY <1>1, <1>4, <1>7 DEF Inverts

LEMMA InvertsTwo ==
  ASSUME NEW a \in MatrixOf(2)
  PROVE  Inverts(a)
<1> DEFINE v == a.vals
           d == v[0] * v[3] - v[1] * v[2]
           num == Numerators(a)
           adj(u) == [pos \in 0 .. 3 |-> CASE pos = 0 -> u[3] [] pos = 1 -> - u[1]
                                           [] pos = 2 -> - u[2] [] pos = 3 -> u[0]]
           w == adj(v)
<1>1. /\ a.rows = 2 /\ v \in [0 .. 3 -> Int]
      /\ v[0] \in Int /\ v[1] \in Int /\ v[2] \in Int /\ v[3] \in Int
  BY DEF MatrixOf
<1>2. matdet(a) = d /\ num = [rows |-> 2, cols |-> 2, vals |-> w]
  BY InverseOfTwo
<1>3. w[0] = v[3] /\ w[1] = - v[1] /\ w[2] = - v[2] /\ w[3] = v[0]
  <2> HIDE DEF v
  <2> QED
    OBVIOUS
<1>4. w \in [0 .. 3 -> Int] /\ d \in Int
  <2> HIDE DEF v
  <2>1. - v[1] \in Int /\ - v[2] \in Int /\ v[0] * v[3] \in Int /\ v[1] * v[2] \in Int
    BY <1>1
  <2>2. w \in [0 .. 3 -> Int]
    BY <1>1, <2>1
  <2>3. d \in Int
    BY <2>1
  <2> QED
    BY <2>2, <2>3
<1> HIDE DEF w, v
<1>5. num \in MatrixOf(2)
  BY <1>2, <1>4 DEF MatrixOf
<1>6. \A pos \in 0 .. 3 : /\ pos \in {0, 1, 2, 3}
                          /\ (pos = 0 => (pos \div 2) + (pos % 2) * 2 = 0)
                          /\ (pos = 1 => (pos \div 2) + (pos % 2) * 2 = 2)
                          /\ (pos = 2 => (pos \div 2) + (pos % 2) * 2 = 1)
                          /\ (pos = 3 => (pos \div 2) + (pos % 2) * 2 = 3)
  OBVIOUS
<1> DEFINE t == [pos \in 0 .. 3 |-> v[(pos \div 2) + (pos % 2) * 2]]
<1>7. /\ mattrn(a) = [rows |-> 2, cols |-> 2, vals |-> t] /\ mattrn(a) \in MatrixOf(2)
      /\ t[0] = v[0] /\ t[1] = v[2] /\ t[2] = v[1] /\ t[3] = v[3]
  <2>1. mattrn(a) = [rows |-> 2, cols |-> 2, vals |-> t] /\ mattrn(a) \in MatrixOf(2)
    BY TransposedIs DEF v
  <2>2. t[0] = v[0] /\ t[1] = v[2] /\ t[2] = v[1] /\ t[3] = v[3]
    BY <1>6
  <2> QED
    BY <2>1, <2>2
<1>8. mattrn(num) = [rows |-> 2, cols |-> 2,
                     vals |-> [pos \in 0 .. 3 |-> w[(pos \div 2) + (pos % 2) * 2]]]
  <2>1. num.vals = w
    BY <1>2
  <2> HIDE DEF num
  <2> QED
    BY <1>5, <2>1, TransposedIs
<1>9. /\ matdet(mattrn(a)) = t[0] * t[3] - t[1] * t[2]
      /\ Numerators(mattrn(a)) = [rows |-> 2, cols |-> 2, vals |-> adj(t)]
  <2>1. mattrn(a).vals = t
    BY <1>7
  <2> HIDE DEF t
  <2> QED
    BY <1>7, <2>1, InverseOfTwo
<1>10. matdet(mattrn(a)) = d
  <2>1. v[0] * v[3] - v[2] * v[1] = v[0] * v[3] - v[1] * v[2]
    BY <1>1
  <2> QED
    BY <1>7, <1>9, <2>1
<1>11. Numerators(mattrn(a)) = mattrn(num)
  <2>1. \A pos \in 0 .. 3 : adj(t)[pos] = w[(pos \div 2) + (pos % 2) * 2]
    <3> TAKE pos \in 0 .. 3
    <3> HIDE DEF t
    <3>1. pos = 0 \/ pos = 1 \/ pos = 2 \/ pos = 3
      OBVIOUS
    <3>2. adj(t)[0] = v[3] /\ adj(t)[1] = - v[2] /\ adj(t)[2] = - v[1] /\ adj(t)[3] = v[0]
      BY <1>7
    <3> HIDE DEF adj
    <3> QED
      BY <1>3, <1>6, <3>1, <3>2
  <2>2. adj(t) = [pos \in 0 .. 3 |-> w[(pos \div 2) + (pos % 2) * 2]]
    <3> HIDE DEF t, w
    <3> QED
      BY <2>1
  <2> QED
    BY <1>8, <1>9, <2>2
<1>12. ASSUME NEW l \in MatrixOf(2), NEW r \in MatrixOf(2),
              \A pos \in 0 .. 3 :
                l.vals[0 + (pos \div 2) * 2] * r.vals[(pos % 2) + 0]
                  + l.vals[1 + (pos \div 2) * 2] * r.vals[(pos % 2) + 2]
                  = IF pos \div 2 = pos % 2 THEN d ELSE 0
       PROVE  matmul(l, r) = matsca(matidn(2), d)
  <2>1. ASSUME NEW pos \in 0 .. 3
        PROVE  Total(Terms(l, r, 2, pos)) = IF pos \div 2 = pos % 2 THEN d ELSE 0
    <3>1. (1 - 1) = 0 /\ (2 - 1) = 1 /\ (1 - 1) * 2 = 0 /\ (2 - 1) * 2 = 2
      OBVIOUS
    <3>2. /\ Terms(l, r, 2, pos)[1] = l.vals[0 + (pos \div 2) * 2] * r.vals[(pos % 2) + 0]
          /\ Terms(l, r, 2, pos)[2] = l.vals[1 + (pos \div 2) * 2] * r.vals[(pos % 2) + 2]
      BY <3>1 DEF Terms
    <3>3. Terms(l, r, 2, pos) \in [1 .. 2 -> Int]
      BY ProductIs
    <3>4. Total(Terms(l, r, 2, pos)) = Terms(l, r, 2, pos)[1] + Terms(l, r, 2, pos)[2]
      BY <3>3, TotalOfTwo
    <3> QED
      BY <1>12, <3>2, <3>4
  <2>2. \A pos \in 0 .. 2 * 2 - 1 :
          Total(Terms(l, r, 2, pos)) = IF pos \div 2 = pos % 2 THEN d ELSE 0
    BY <2>1
  <2> HIDE DEF d
  <2> QED
    BY <1>4, <2>2, IsScaledIdentity
<1>13. \A pos \in 0 .. 3 :
         \/ pos = 0 /\ pos \div 2 = 0 /\ pos % 2 = 0
         \/ pos = 1 /\ pos \div 2 = 0 /\ pos % 2 = 1
         \/ pos = 2 /\ pos \div 2 = 1 /\ pos % 2 = 0
         \/ pos = 3 /\ pos \div 2 = 1 /\ pos % 2 = 1
  OBVIOUS
<1>14. /\ num.vals = w /\ a.vals = v
       /\ 0 + 0 * 2 = 0 /\ 0 + 1 * 2 = 2 /\ 1 + 0 * 2 = 1 /\ 1 + 1 * 2 = 3
       /\ 0 + 0 = 0 /\ 1 + 0 = 1 /\ 0 + 2 = 2 /\ 1 + 2 = 3
  BY <1>2 DEF v
<1>15. /\ v[0] * v[3] + v[1] * (- v[2]) = d /\ v[0] * (- v[1]) + v[1] * v[0] = 0
       /\ v[2] * v[3] + v[3] * (- v[2]) = 0 /\ v[2] * (- v[1]) + v[3] * v[0] = d
       /\ v[3] * v[0] + (- v[1]) * v[2] = d /\ v[3] * v[1] + (- v[1]) * v[3] = 0
       /\ (- v[2]) * v[0] + v[0] * v[2] = 0 /\ (- v[2]) * v[1] + v[0] * v[3] = d
  BY <1>1
<1> HIDE DEF num, d
<1>16. matmul(a, num) = matsca(matidn(2), d)
  <2>1. \A pos \in 0 .. 3 :
          a.vals[0 + (pos \div 2) * 2] * num.vals[(pos % 2) + 0]
            + a.vals[1 + (pos \div 2) * 2] * num.vals[(pos % 2) + 2]
            = IF pos \div 2 = pos % 2 THEN d ELSE 0
    BY <1>3, <1>13, <1>14, <1>15
  <2> QED
    BY <1>5, <1>12, <2>1
<1>17. matmul(num, a) = matsca(matidn(2), d)
  <2>1. \A pos \in 0 .. 3 :
          num.vals[0 + (pos \div 2) * 2] * a.vals[(pos % 2) + 0]
            + num.vals[1 + (pos \div 2) * 2] * a.vals[(pos % 2) + 2]
            = IF pos \div 2 = pos % 2 THEN d ELSE 0
    BY <1>3, <1>13, <1>14, <1>15
  <2> QED
    BY <1>5, <1>12, <2>1
<1> QED
  BY <1>1, <1>2, <1>10, <1>11, <1>16, <1>17 DEF Inverts, num

LEMMA InvertsThree ==
  ASSUME NEW a \in MatrixOf(3)
  PROVE  Inverts(a)
<1> DEFINE v == a.vals
           w == Cofactors(v)
           d == Det3(v)
           num == Numerators(a)
           flip(pos) == (pos \div 3) + (pos % 3) * 3
           t == [pos \in 0 .. 8 |-> v[flip(pos)]]
<1>1. a.rows = 3 /\ v \in [0 .. 8 -> Int]
  BY DEF MatrixOf
<1>2. matdet(a) = d /\ num = [rows |-> 3, cols |-> 3, vals |-> w]
  BY InverseOfThree
<1>3. w \in [0 .. 8 -> Int] /\ d \in Int
  BY <1>1, CofactorsAre
<1>4. num \in MatrixOf(3) /\ num.vals = w /\ a.vals = v
  <2> HIDE DEF w
  <2> QED
    BY <1>2, <1>3 DEF MatrixOf
<1>5. /\ mattrn(a) = [rows |-> 3, cols |-> 3, vals |-> t] /\ mattrn(a) \in MatrixOf(3)
      /\ mattrn(num) = [rows |-> 3, cols |-> 3, vals |-> [pos \in 0 .. 8 |-> w[flip(pos)]]]
  <2> HIDE DEF num, v, w
  <2> QED
    BY <1>4, TransposedIs DEF v
<1>6. /\ matdet(mattrn(a)) = Det3(t)
      /\ Numerators(mattrn(a)) = [rows |-> 3, cols |-> 3, vals |-> Cofactors(t)]
  <2>1. mattrn(a).vals = t
    BY <1>5
  <2> HIDE DEF t
  <2> QED
    BY <1>5, <2>1, InverseOfThree
<1>7. \A pos \in 0 .. 8 :
        /\ pos \in {0, 1, 2, 3, 4, 5, 6, 7, 8}
        /\ (pos = 0 => flip(pos) = 0) /\ (pos = 1 => flip(pos) = 3)
        /\ (pos = 2 => flip(pos) = 6) /\ (pos = 3 => flip(pos) = 1)
        /\ (pos = 4 => flip(pos) = 4) /\ (pos = 5 => flip(pos) = 7)
        /\ (pos = 6 => flip(pos) = 2) /\ (pos = 7 => flip(pos) = 5)
        /\ (pos = 8 => flip(pos) = 8)
  OBVIOUS
<1>8. /\ t[0] = v[0] /\ t[1] = v[3] /\ t[2] = v[6] /\ t[3] = v[1] /\ t[4] = v[4]
      /\ t[5] = v[7] /\ t[6] = v[2] /\ t[7] = v[5] /\ t[8] = v[8]
  <2> HIDE DEF flip, v
  <2> QED
    BY <1>7
<1>9. /\ v[0] \in Int /\ v[1] \in Int /\ v[2] \in Int /\ v[3] \in Int /\ v[4] \in Int
      /\ v[5] \in Int /\ v[6] \in Int /\ v[7] \in Int /\ v[8] \in Int
  BY <1>1
<1>10. matdet(mattrn(a)) = d
  <2> HIDE DEF v, t
  <2> QED
    BY <1>6, <1>8, <1>9 DEF Det3
<1>11. Numerators(mattrn(a)) = mattrn(num)
  <2> DEFINE u == Cofactors(t)
  <2>1. /\ u[0] = w[0] /\ u[1] = w[3] /\ u[2] = w[6] /\ u[3] = w[1] /\ u[4] = w[4]
        /\ u[5] = w[7] /\ u[6] = w[2] /\ u[7] = w[5] /\ u[8] = w[8]
    <3> HIDE DEF v, t
    <3> QED
      BY <1>8, <1>9 DEF Cofactors
  <2>2. u = [pos \in 0 .. 8 |-> u[pos]]
    BY DEF Cofactors
  <2> HIDE DEF u, w, flip
  <2>3. \A pos \in 0 .. 8 : u[pos] = w[flip(pos)]
    BY <1>7, <2>1
  <2>4. u = [pos \in 0 .. 8 |-> w[flip(pos)]]
    BY <2>2, <2>3
  <2> QED
    BY <1>5, <1>6, <2>4 DEF u
<1> HIDE DEF v, w, d, num, flip, t
<1>12. ASSUME NEW l \in MatrixOf(3), NEW r \in MatrixOf(3),
              \A i, j \in 0 .. 2 :
                l.vals[3 * i] * r.vals[j] + l.vals[3 * i + 1] * r.vals[j + 3]
                  + l.vals[3 * i + 2] * r.vals[j + 6] = IF i = j THEN d ELSE 0
       PROVE  matmul(l, r) = matsca(matidn(3), d)
  <2>1. ASSUME NEW pos \in 0 .. 8
        PROVE  Total(Terms(l, r, 3, pos)) = IF pos \div 3 = pos % 3 THEN d ELSE 0
    <3> DEFINE i == pos \div 3
               j == pos % 3
    <3>1. i \in 0 .. 2 /\ j \in 0 .. 2
      OBVIOUS
    <3> HIDE DEF i, j
    <3>2. /\ (1 - 1) + i * 3 = 3 * i /\ (2 - 1) + i * 3 = 3 * i + 1
          /\ (3 - 1) + i * 3 = 3 * i + 2
          /\ j + (1 - 1) * 3 = j /\ j + (2 - 1) * 3 = j + 3 /\ j + (3 - 1) * 3 = j + 6
      BY <3>1
    <3>3. Terms(l, r, 3, pos) =
            [n \in 1 .. 3 |-> l.vals[(n - 1) + i * 3] * r.vals[j + (n - 1) * 3]]
      BY DEF Terms, i, j
    <3>4. /\ Terms(l, r, 3, pos)[1] = l.vals[3 * i] * r.vals[j]
          /\ Terms(l, r, 3, pos)[2] = l.vals[3 * i + 1] * r.vals[j + 3]
          /\ Terms(l, r, 3, pos)[3] = l.vals[3 * i + 2] * r.vals[j + 6]
      BY <3>2, <3>3
    <3>5. Terms(l, r, 3, pos) \in [1 .. 3 -> Int]
      BY ProductIs
    <3>6. Total(Terms(l, r, 3, pos)) =
            Terms(l, r, 3, pos)[1] + Terms(l, r, 3, pos)[2] + Terms(l, r, 3, pos)[3]
      BY <3>5, TotalOfThree
    <3>7. Total(Terms(l, r, 3, pos)) = IF i = j THEN d ELSE 0
      BY <1>12, <3>1, <3>4, <3>6
    <3> QED
      BY <3>7 DEF i, j
  <2>2. \A pos \in 0 .. 3 * 3 - 1 :
          Total(Terms(l, r, 3, pos)) = IF pos \div 3 = pos % 3 THEN d ELSE 0
    BY <2>1
  <2> QED
    BY <1>3, <2>2, IsScaledIdentity
<1>13. /\ \A i, j \in 0 .. 2 :
            a.vals[3 * i] * num.vals[j] + a.vals[3 * i + 1] * num.vals[j + 3]
              + a.vals[3 * i + 2] * num.vals[j + 6] = IF i = j THEN d ELSE 0
       /\ \A i, j \in 0 .. 2 :
            num.vals[3 * i] * a.vals[j] + num.vals[3 * i + 1] * a.vals[j + 3]
              + num.vals[3 * i + 2] * a.vals[j + 6] = IF i = j THEN d ELSE 0
  BY <1>1, <1>4, CofactorsAre DEF d, w
<1>14. matmul(a, num) = matsca(matidn(3), d) /\ matmul(num, a) = matsca(matidn(3), d)
  BY <1>4, <1>12, <1>13
<1> QED
  BY <1>1, <1>2, <1>10, <1>11, <1>14 DEF Inverts, num

\* The inverse is one, for each of the three sizes.
LEMMA SmallInverts ==
  ASSUME NEW k \in 1 .. 3, NEW a \in MatrixOf(k)
  PROVE  Inverts(a)
<1>1. CASE k = 1
  BY <1>1, InvertsOne
<1>2. CASE k = 2
  BY <1>2, InvertsTwo
<1>3. CASE k = 3
  BY <1>3, InvertsThree
<1> QED
  BY <1>1, <1>2, <1>3

-----------------------------------------------------------------------------
(* The calls.                                                               *)

\* The result is that of the call.
Called ==
  result # Nothing =>
    /\ IsMatrix => result = matinv_safe(input.matrix)
    /\ IsLarge => result = [inverse |-> matinv_default(input.large),
                            det     |-> matdet_default(input.large)]
    /\ IsFit /\ input.order < 3 => result = least_squares_filter(input.points, input.order)
    /\ IsFit /\ input.order >= 3 => result = generic_filter(input.points, input.order)

\* A state has one of the inputs, and what was made of it.
RoutinesInv ==
  /\ \/ input \in [matrix : Matrices]
     \/ input \in [large : LargeMatrices \cup Matrices]
     \/ input \in [points : PointLists, order : 0 .. 2]
     \/ input \in [points : CubicLists, order : {3}]
  /\ Called

\* What the theorems below need to know of the states of Routines.  It says
\* nothing of what the routines compute.
LEMMA RoutinesInvHolds == RoutinesSpec => []RoutinesInv
<1>1. RoutinesInit => RoutinesInv
  BY DEF RoutinesInit, RoutinesInv, Called
<1>2. RoutinesInv /\ [RoutinesNext]_routineVars => RoutinesInv'
  <2> SUFFICES ASSUME RoutinesInv, [RoutinesNext]_routineVars
               PROVE  RoutinesInv'
    OBVIOUS
  <2>1. CASE Invert
    BY <2>1 DEF Invert, Call, RoutinesInv, Called, IsMatrix, IsFit, IsLarge
  <2>2. CASE Decompose
    BY <2>2 DEF Decompose, Call, RoutinesInv, Called, IsMatrix, IsFit, IsLarge
  <2>3. CASE Fit
    BY <2>3 DEF Fit, Call, RoutinesInv, Called, IsMatrix, IsFit, IsLarge
  <2>4. CASE FitCubic
    BY <2>4 DEF FitCubic, Call, RoutinesInv, Called, IsMatrix, IsFit, IsLarge
  <2>5. CASE UNCHANGED routineVars
    BY <2>5 DEF routineVars, RoutinesInv, Called, IsMatrix, IsFit, IsLarge
  <2> QED
    BY <2>1, <2>2, <2>3, <2>4, <2>5 DEF RoutinesNext
<1> QED
  BY <1>1, <1>2, PTL DEF RoutinesSpec

\* matinv_safe inverts every integer matrix of size 1 to 3 that it does not
\* refuse (numerical_basics.c 177-236).
THEOREM InversesAreExact == RoutinesSpec => []InverseIsExact
<1>1. RoutinesInv => InverseIsExact
  <2> SUFFICES ASSUME RoutinesInv, IsMatrix, result # Nothing, result # Singular
               PROVE  /\ result.div # 0
                      /\ matmul(input.matrix, result.num)
                           = matsca(matidn(input.matrix.rows), result.div)
                      /\ matmul(result.num, input.matrix)
                           = matsca(matidn(input.matrix.rows), result.div)
                      /\ matinv_safe(mattrn(input.matrix))
                           = [num |-> mattrn(result.num), div |-> result.div]
    BY DEF InverseIsExact
  <2> DEFINE a == input.matrix
  <2>1. input \in [matrix : Matrices] /\ result = matinv_safe(a)
    BY DEF RoutinesInv, Called, IsMatrix
  <2>2. PICK k \in 1 .. 3 : a \in MatrixOf(k)
    <3>1. a \in Matrices
      BY <2>1
    <3>2. PICK k \in 1 .. 3 : a \in Square(k)
      BY <3>1 DEF Matrices
    <3>3. \A f \in [0 .. k * k - 1 -> Entries] : f \in [0 .. k * k - 1 -> Int]
      BY RoutinesAssumption
    <3>4. a \in MatrixOf(k)
      BY <3>2, <3>3 DEF Square, MatrixOf
    <3> QED
      BY <3>4
  <2> HIDE DEF a
  <2>3. Inverts(a)
    BY <2>2, SmallInverts
  <2>4. matdet(a) # 0 /\ result = [num |-> Numerators(a), div |-> matdet(a)]
    BY <2>1 DEF matinv_safe
  <2>5. matinv_safe(mattrn(a)) = [num |-> mattrn(Numerators(a)), div |-> matdet(a)]
    BY <2>3, <2>4 DEF Inverts, matinv_safe
  <2> QED
    BY <2>3, <2>4, <2>5 DEF Inverts, a
<1> QED
  BY <1>1, RoutinesInvHolds, PTL

-----------------------------------------------------------------------------
(* Totals of sequences that are made of others.                             *)

LEMMA Distribute ==
  ASSUME NEW a \in Int, NEW b \in Int, NEW c \in Int, NEW d \in Int,
         NEW F \in Int, NEW G \in Int, NEW H \in Int, NEW E \in Int,
         NEW f \in Int, NEW g \in Int, NEW h \in Int, NEW e \in Int
  PROVE  (a * F + b * G + c * H + d * E) + (a * f + b * g + c * h + d * e) =
           a * (F + f) + b * (G + g) + c * (H + h) + d * (E + e)
OBVIOUS

\* The sequence t is made of f, g, h and e.
Combined(n, t, a, f, b, g, c, h, d, e) ==
  /\ n \in Nat /\ t \in [1 .. n -> Int]
  /\ a \in Int /\ f \in [1 .. n -> Int] /\ b \in Int /\ g \in [1 .. n -> Int]
  /\ c \in Int /\ h \in [1 .. n -> Int] /\ d \in Int /\ e \in [1 .. n -> Int]
  /\ \A i \in 1 .. n : t[i] = a * f[i] + b * g[i] + c * h[i] + d * e[i]

\* A total is as linear as its terms are.
LEMMA TotalCombines ==
  ASSUME NEW n, NEW t, NEW a, NEW f, NEW b, NEW g, NEW c, NEW h, NEW d, NEW e,
         Combined(n, t, a, f, b, g, c, h, d, e)
  PROVE  Total(t) = a * Total(f) + b * Total(g) + c * Total(h) + d * Total(e)
<1>0. /\ n \in Nat /\ t \in [1 .. n -> Int]
      /\ a \in Int /\ f \in [1 .. n -> Int] /\ b \in Int /\ g \in [1 .. n -> Int]
      /\ c \in Int /\ h \in [1 .. n -> Int] /\ d \in Int /\ e \in [1 .. n -> Int]
      /\ \A i \in 1 .. n : t[i] = a * f[i] + b * g[i] + c * h[i] + d * e[i]
  BY DEF Combined
<1> USE <1>0
<1>1. PICK F : RunningSum(F, f, n)
  BY TotalIsRunningSum
<1>2. PICK G : RunningSum(G, g, n)
  BY TotalIsRunningSum
<1>3. PICK H : RunningSum(H, h, n)
  BY TotalIsRunningSum
<1>4. PICK E : RunningSum(E, e, n)
  BY TotalIsRunningSum
<1>5. PICK T : RunningSum(T, t, n)
  BY TotalIsRunningSum
<1> DEFINE S == {k \in 0 .. n : T[k] = a * F[k] + b * G[k] + c * H[k] + d * E[k]}
<1>6. 0 \in S
  BY <1>1, <1>2, <1>3, <1>4, <1>5 DEF RunningSum
<1>7. ASSUME NEW k \in 0 .. n - 1, k \in S
      PROVE  k + 1 \in S
  <2>1. /\ F[k + 1] = F[k] + f[k + 1] /\ G[k + 1] = G[k] + g[k + 1]
        /\ H[k + 1] = H[k] + h[k + 1] /\ E[k + 1] = E[k] + e[k + 1]
        /\ T[k + 1] = T[k] + t[k + 1]
    BY <1>1, <1>2, <1>3, <1>4, <1>5 DEF RunningSum
  <2>2. k \in 0 .. n /\ k + 1 \in 0 .. n /\ k + 1 \in 1 .. n
    OBVIOUS
  <2>3. /\ F[k] \in Int /\ G[k] \in Int /\ H[k] \in Int /\ E[k] \in Int
        /\ f[k + 1] \in Int /\ g[k + 1] \in Int /\ h[k + 1] \in Int /\ e[k + 1] \in Int
    BY <1>1, <1>2, <1>3, <1>4, <2>2 DEF RunningSum
  <2>4. T[k] = a * F[k] + b * G[k] + c * H[k] + d * E[k]
    BY <1>7
  <2>5. t[k + 1] = a * f[k + 1] + b * g[k + 1] + c * h[k + 1] + d * e[k + 1]
    BY <2>2
  <2> HIDE <1>7
  <2> DEFINE F0 == F[k]
             G0 == G[k]
             H0 == H[k]
             E0 == E[k]
             f1 == f[k + 1]
             g1 == g[k + 1]
             h1 == h[k + 1]
             e1 == e[k + 1]
  <2>6. /\ F0 \in Int /\ G0 \in Int /\ H0 \in Int /\ E0 \in Int
        /\ f1 \in Int /\ g1 \in Int /\ h1 \in Int /\ e1 \in Int
    BY <2>3
  <2>7. T[k + 1] = (a * F0 + b * G0 + c * H0 + d * E0) + (a * f1 + b * g1 + c * h1 + d * e1)
    BY <2>1, <2>4, <2>5
  <2>8. /\ F[k + 1] = F0 + f1 /\ G[k + 1] = G0 + g1
        /\ H[k + 1] = H0 + h1 /\ E[k + 1] = E0 + e1
    BY <2>1
  <2> HIDE DEF F0, G0, H0, E0, f1, g1, h1, e1
  <2>9. (a * F0 + b * G0 + c * H0 + d * E0) + (a * f1 + b * g1 + c * h1 + d * e1) =
          a * (F0 + f1) + b * (G0 + g1) + c * (H0 + h1) + d * (E0 + e1)
    BY <2>6, Distribute
  <2>10. T[k + 1] = a * F[k + 1] + b * G[k + 1] + c * H[k + 1] + d * E[k + 1]
    BY <2>7, <2>8, <2>9
  <2> QED
    BY <2>2, <2>10
<1>8. \A k \in 0 .. n : k \in S
  <2> HIDE DEF S
  <2> QED
    BY <1>6, <1>7, UpTo
<1>9. T[n] = a * F[n] + b * G[n] + c * H[n] + d * E[n]
  BY <1>8
<1> QED
  BY <1>1, <1>2, <1>3, <1>4, <1>5, <1>9 DEF RunningSum

\* A total of larger terms is not smaller.
LEMMA TotalIsMonotone ==
  ASSUME NEW n \in Nat, NEW f \in [1 .. n -> Int], NEW g \in [1 .. n -> Int],
         \A i \in 1 .. n : f[i] <= g[i]
  PROVE  Total(f) <= Total(g)
<1>1. PICK F : RunningSum(F, f, n)
  BY TotalIsRunningSum
<1>2. PICK G : RunningSum(G, g, n)
  BY TotalIsRunningSum
<1> DEFINE S == {k \in 0 .. n : F[k] <= G[k]}
<1>3. 0 \in S
  BY <1>1, <1>2 DEF RunningSum
<1>4. ASSUME NEW k \in 0 .. n - 1, k \in S
      PROVE  k + 1 \in S
  <2>1. F[k + 1] = F[k] + f[k + 1] /\ G[k + 1] = G[k] + g[k + 1]
    BY <1>1, <1>2 DEF RunningSum
  <2>2. k \in 0 .. n /\ k + 1 \in 0 .. n /\ k + 1 \in 1 .. n
    OBVIOUS
  <2>3. F[k] \in Int /\ G[k] \in Int /\ f[k + 1] \in Int /\ g[k + 1] \in Int
    BY <1>1, <1>2, <2>2 DEF RunningSum
  <2>4. F[k] <= G[k] /\ f[k + 1] <= g[k + 1]
    BY <1>4, <2>2
  <2>5. F[k + 1] <= G[k + 1]
    BY <2>1, <2>3, <2>4
  <2> QED
    BY <2>2, <2>5
<1>5. \A k \in 0 .. n : k \in S
  <2> HIDE DEF S
  <2> QED
    BY <1>3, <1>4, UpTo
<1> QED
  BY <1>1, <1>2, <1>5 DEF RunningSum

\* Numbers that are not negative add up to 0 only if they all are.
LEMMA TotalOfNone ==
  ASSUME NEW n \in Nat, NEW f \in [1 .. n -> Int], \A i \in 1 .. n : f[i] >= 0,
         Total(f) = 0
  PROVE  \A i \in 1 .. n : f[i] = 0
<1>1. PICK F : RunningSum(F, f, n)
  BY TotalIsRunningSum
<1> DEFINE S == {k \in 0 .. n : F[k] >= 0 /\ (F[k] = 0 => \A i \in 1 .. k : f[i] = 0)}
<1>2. 0 \in S
  BY <1>1 DEF RunningSum
<1>3. ASSUME NEW k \in 0 .. n - 1, k \in S
      PROVE  k + 1 \in S
  <2>1. F[k + 1] = F[k] + f[k + 1] /\ k \in 0 .. n /\ k + 1 \in 0 .. n /\ k + 1 \in 1 .. n
    BY <1>1 DEF RunningSum
  <2>2. F[k] \in Int /\ f[k + 1] \in Int /\ f[k + 1] >= 0
    BY <1>1, <2>1 DEF RunningSum
  <2>3. F[k] >= 0 /\ (F[k] = 0 => \A i \in 1 .. k : f[i] = 0)
    BY <1>3
  <2>4. F[k + 1] >= 0 /\ (F[k + 1] = 0 => F[k] = 0 /\ f[k + 1] = 0)
    BY <2>1, <2>2, <2>3
  <2>5. F[k + 1] = 0 => \A i \in 1 .. k + 1 : f[i] = 0
    BY <2>3, <2>4
  <2> QED
    BY <2>1, <2>4, <2>5
<1>4. \A k \in 0 .. n : k \in S
  <2> HIDE DEF S
  <2> QED
    BY <1>2, <1>3, UpTo
<1>5. F[n] = 0
  BY <1>1 DEF RunningSum
<1> QED
  BY <1>4, <1>5

LEMMA TotalOfOnes ==
  ASSUME NEW n \in Nat
  PROVE  Total([i \in 1 .. n |-> 1]) = n
<1> DEFINE f == [i \in 1 .. n |-> 1]
<1>1. PICK F : RunningSum(F, f, n)
  BY TotalIsRunningSum
<1> DEFINE S == {k \in 0 .. n : F[k] = k}
<1>2. 0 \in S
  BY <1>1 DEF RunningSum
<1>3. ASSUME NEW k \in 0 .. n - 1, k \in S
      PROVE  k + 1 \in S
  <2>1. F[k + 1] = F[k] + f[k + 1] /\ k + 1 \in 1 .. n
    BY <1>1 DEF RunningSum
  <2> QED
    BY <1>3, <2>1
<1>4. \A k \in 0 .. n : k \in S
  <2> HIDE DEF S
  <2> QED
    BY <1>2, <1>3, UpTo
<1> QED
  BY <1>1, <1>4 DEF RunningSum

-----------------------------------------------------------------------------
(* What a polynomial leaves of the points.                                  *)

Pow(ps, j) == [i \in DOMAIN ps |-> Power(ps[i].x, j)]
Mom(ps, j) == [i \in DOMAIN ps |-> ps[i].y * Power(ps[i].x, j)]

Quadratic(c, x) == c[1] + c[2] * x + c[3] * (x * x)
Rest(ps, div, c) == [i \in DOMAIN ps |-> div * ps[i].y - Quadratic(c, ps[i].x)]
RestPow(ps, div, c, j) == [i \in DOMAIN ps |-> Rest(ps, div, c)[i] * Power(ps[i].x, j)]

\* What is left, times a power of x, as the equations have it.
Equation(ps, div, c, j) ==
  div * Total(Mom(ps, j)) + (- c[1]) * Total(Pow(ps, j))
    + (- c[2]) * Total(Pow(ps, j + 1)) + (- c[3]) * Total(Pow(ps, j + 2))

Coefficients == [1 .. 3 -> Int]

LEMMA PowersAre ==
  ASSUME NEW n \in Nat, NEW ps \in Points(n), NEW j \in Nat
  PROVE  /\ Pow(ps, j) \in [1 .. n -> Int] /\ Mom(ps, j) \in [1 .. n -> Int]
         /\ Total(Pow(ps, j)) \in Int /\ Total(Mom(ps, j)) \in Int
<1>1. DOMAIN ps = 1 .. n /\ \A i \in 1 .. n : ps[i].x \in Int /\ ps[i].y \in Int
  BY DEF Points
<1>2. \A i \in 1 .. n : Power(ps[i].x, j) \in Int
  BY <1>1, PowerIsInt
<1>3. \A x, y \in Int : x * y \in Int
  OBVIOUS
<1>4. Pow(ps, j) \in [1 .. n -> Int] /\ Mom(ps, j) \in [1 .. n -> Int]
  BY <1>1, <1>2, <1>3 DEF Pow, Mom
<1> QED
  BY <1>4, TotalIsInt

LEMMA RestTimesPower ==
  ASSUME NEW d \in Int, NEW y \in Int, NEW x \in Int, NEW p \in Int,
         NEW a \in Int, NEW b \in Int, NEW c \in Int
  PROVE  (d * y - (a + b * x + c * (x * x))) * p =
           d * (y * p) + (- a) * p + (- b) * (p * x) + (- c) * ((p * x) * x)
OBVIOUS

\* The products of what is left of the points with a power of x are sums
\* that the normal equations are made of.
LEMMA RestIs ==
  ASSUME NEW n \in Nat, NEW ps \in Points(n), NEW div \in Int, NEW c \in Coefficients,
         NEW j \in Nat
  PROVE  /\ Rest(ps, div, c) \in [1 .. n -> Int]
         /\ RestPow(ps, div, c, j) \in [1 .. n -> Int]
         /\ Total(RestPow(ps, div, c, j)) = Equation(ps, div, c, j)
<1>1. DOMAIN ps = 1 .. n /\ \A i \in 1 .. n : ps[i].x \in Int /\ ps[i].y \in Int
  BY DEF Points
<1>2. c[1] \in Int /\ c[2] \in Int /\ c[3] \in Int
  BY DEF Coefficients
<1>3. j + 1 \in Nat /\ j + 2 \in Nat /\ j + 2 = (j + 1) + 1
  OBVIOUS
<1>4. ASSUME NEW i \in 1 .. n
      PROVE  /\ Rest(ps, div, c)[i] \in Int /\ RestPow(ps, div, c, j)[i] \in Int
             /\ RestPow(ps, div, c, j)[i] =
                  div * Mom(ps, j)[i] + (- c[1]) * Pow(ps, j)[i]
                    + (- c[2]) * Pow(ps, j + 1)[i] + (- c[3]) * Pow(ps, j + 2)[i]
  <2> DEFINE x == ps[i].x
             y == ps[i].y
             p == Power(x, j)
             r == div * y - Quadratic(c, x)
  <2>1. x \in Int /\ y \in Int /\ i \in DOMAIN ps
    BY <1>1
  <2>2. p \in Int /\ Power(x, j + 1) = p * x /\ Power(x, j + 2) = (p * x) * x
    BY <1>3, <2>1, PowerIsInt, PowerStep
  <2>3. /\ Mom(ps, j)[i] = y * p /\ Pow(ps, j)[i] = p
        /\ Pow(ps, j + 1)[i] = p * x /\ Pow(ps, j + 2)[i] = (p * x) * x
    BY <2>1, <2>2 DEF Mom, Pow
  <2>4. Rest(ps, div, c)[i] = r
    BY <2>1 DEF Rest
  <2>5. RestPow(ps, div, c, j)[i] = r * p
    BY <2>1, <2>4 DEF RestPow
  <2>6. r = div * y - (c[1] + c[2] * x + c[3] * (x * x))
    BY DEF Quadratic
  <2> HIDE DEF x, y, p, r
  <2>7. r \in Int
    BY <1>2, <2>1, <2>6
  <2>8. r * p \in Int
    BY <2>2, <2>7
  <2>9. r * p = div * (y * p) + (- c[1]) * p + (- c[2]) * (p * x) + (- c[3]) * ((p * x) * x)
    BY <1>2, <2>1, <2>2, <2>6, RestTimesPower
  <2> QED
    BY <2>3, <2>4, <2>5, <2>7, <2>8, <2>9
<1>5. Rest(ps, div, c) \in [1 .. n -> Int]
  BY <1>1, <1>4 DEF Rest
<1>6. RestPow(ps, div, c, j) \in [1 .. n -> Int]
  BY <1>1, <1>4 DEF RestPow
<1>7. - c[1] \in Int /\ - c[2] \in Int /\ - c[3] \in Int
  BY <1>2
<1>8. /\ Mom(ps, j) \in [1 .. n -> Int] /\ Pow(ps, j) \in [1 .. n -> Int]
      /\ Pow(ps, j + 1) \in [1 .. n -> Int] /\ Pow(ps, j + 2) \in [1 .. n -> Int]
  BY <1>3, PowersAre
<1>9. Total(RestPow(ps, div, c, j)) = Equation(ps, div, c, j)
  <2> DEFINE t == RestPow(ps, div, c, j)
             f == Mom(ps, j)
             g == Pow(ps, j)
             h == Pow(ps, j + 1)
             e == Pow(ps, j + 2)
             a == - c[1]
             b == - c[2]
             d == - c[3]
  <2>1. \A i \in 1 .. n : t[i] = div * f[i] + a * g[i] + b * h[i] + d * e[i]
    BY <1>4
  <2>2. /\ t \in [1 .. n -> Int] /\ f \in [1 .. n -> Int] /\ g \in [1 .. n -> Int]
        /\ h \in [1 .. n -> Int] /\ e \in [1 .. n -> Int]
        /\ a \in Int /\ b \in Int /\ d \in Int
    BY <1>6, <1>7, <1>8
  <2> HIDE DEF t, f, g, h, e, a, b, d
  <2>3. Combined(n, t, div, f, a, g, b, h, d, e)
    BY <2>1, <2>2 DEF Combined
  <2>4. Total(t) = div * Total(f) + a * Total(g) + b * Total(h) + d * Total(e)
    BY <2>3, TotalCombines
  <2> QED
    BY <2>4 DEF Equation, t, f, g, h, e, a, b, d
<1> QED
  BY <1>5, <1>6, <1>9

LEMMA SquareOfLess ==
  ASSUME NEW e \in Int, NEW x \in Int, NEW a \in Int, NEW b \in Int, NEW c \in Int
  PROVE  (e - (a + b * x + c * (x * x))) * (e - (a + b * x + c * (x * x))) =
           e * e + (-2) * (a * e + b * (e * x) + c * (e * (x * x)))
             + (a + b * x + c * (x * x)) * (a + b * x + c * (x * x))
OBVIOUS

\* f is the squared error with the coefficients c, g with those varied by d,
\* and what is left is orthogonal to the powers that are varied.
Varied(n, ps, div, c, d, f, g) ==
  /\ n \in Nat /\ ps \in Points(n) /\ div \in Int
  /\ c \in Coefficients /\ d \in Coefficients
  /\ f \in [1 .. n -> Int] /\ g \in [1 .. n -> Int]
  /\ \A i \in 1 .. n : /\ f[i] = Rest(ps, div, c)[i] * Rest(ps, div, c)[i]
                       /\ g[i] = (Rest(ps, div, c)[i] - Quadratic(d, ps[i].x))
                                   * (Rest(ps, div, c)[i] - Quadratic(d, ps[i].x))
  /\ d[1] * Equation(ps, div, c, 0) = 0
  /\ d[2] * Equation(ps, div, c, 1) = 0
  /\ d[3] * Equation(ps, div, c, 2) = 0

\* Then varying them does not make the squared error smaller.
LEMMA NoBetter ==
  ASSUME NEW n, NEW ps, NEW div, NEW c, NEW d, NEW f, NEW g,
         Varied(n, ps, div, c, d, f, g)
  PROVE  Total(f) <= Total(g)
<1>a. /\ n \in Nat /\ ps \in Points(n) /\ div \in Int
      /\ c \in Coefficients /\ d \in Coefficients
      /\ f \in [1 .. n -> Int] /\ g \in [1 .. n -> Int]
      /\ \A i \in 1 .. n : /\ f[i] = Rest(ps, div, c)[i] * Rest(ps, div, c)[i]
                           /\ g[i] = (Rest(ps, div, c)[i] - Quadratic(d, ps[i].x))
                                       * (Rest(ps, div, c)[i] - Quadratic(d, ps[i].x))
      /\ d[1] * Equation(ps, div, c, 0) = 0
      /\ d[2] * Equation(ps, div, c, 1) = 0
      /\ d[3] * Equation(ps, div, c, 2) = 0
  BY DEF Varied
<1> USE <1>a
<1> DEFINE e == Rest(ps, div, c)
           e0 == RestPow(ps, div, c, 0)
           e1 == RestPow(ps, div, c, 1)
           e2 == RestPow(ps, div, c, 2)
           d1 == d[1]
           d2 == d[2]
           d3 == d[3]
           a1 == (-2) * d1
           a2 == (-2) * d2
           a3 == (-2) * d3
           m == [i \in 1 .. n |-> 1 * f[i] + a1 * e0[i] + a2 * e1[i] + a3 * e2[i]]
<1>1. DOMAIN ps = 1 .. n /\ \A i \in 1 .. n : ps[i].x \in Int
  BY DEF Points
<1>2. /\ e \in [1 .. n -> Int] /\ e0 \in [1 .. n -> Int]
      /\ e1 \in [1 .. n -> Int] /\ e2 \in [1 .. n -> Int]
      /\ Total(e0) = Equation(ps, div, c, 0) /\ Total(e1) = Equation(ps, div, c, 1)
      /\ Total(e2) = Equation(ps, div, c, 2)
  BY RestIs
<1>3. d1 \in Int /\ d2 \in Int /\ d3 \in Int
  BY DEF Coefficients
<1>0. /\ d1 * Equation(ps, div, c, 0) = 0 /\ d2 * Equation(ps, div, c, 1) = 0
      /\ d3 * Equation(ps, div, c, 2) = 0
      /\ \A x : Quadratic(d, x) = d1 + d2 * x + d3 * (x * x)
  BY DEF Quadratic
<1> HIDE DEF d1, d2, d3
<1>4. a1 \in Int /\ a2 \in Int /\ a3 \in Int
  BY <1>3
<1>5. /\ e0 = [i \in 1 .. n |-> e[i] * Power(ps[i].x, 0)]
      /\ e1 = [i \in 1 .. n |-> e[i] * Power(ps[i].x, 1)]
      /\ e2 = [i \in 1 .. n |-> e[i] * Power(ps[i].x, 2)]
  BY <1>1 DEF RestPow
<1>6. /\ Total(e0) \in Int /\ Total(e1) \in Int /\ Total(e2) \in Int /\ Total(f) \in Int
      /\ Total(g) \in Int
  BY <1>2, TotalIsInt
<1>7. a1 * Total(e0) = 0 /\ a2 * Total(e1) = 0 /\ a3 * Total(e2) = 0
  <2>1. ASSUME NEW x \in Int, NEW y \in Int, x * y = 0
        PROVE  ((-2) * x) * y = 0
    <3>1. ((-2) * x) * y = (-2) * (x * y)
      OBVIOUS
    <3> QED
      BY <2>1, <3>1
  <2> DEFINE E0 == Total(e0)
             E1 == Total(e1)
             E2 == Total(e2)
  <2>2. d1 * E0 = 0 /\ d2 * E1 = 0 /\ d3 * E2 = 0
    BY <1>0, <1>2
  <2>3. E0 \in Int /\ E1 \in Int /\ E2 \in Int
    BY <1>6
  <2> HIDE DEF E0, E1, E2
  <2>4. a1 * E0 = 0 /\ a2 * E1 = 0 /\ a3 * E2 = 0
    BY <1>3, <2>1, <2>2, <2>3
  <2> QED
    BY <2>4 DEF E0, E1, E2
<1> HIDE DEF e, e0, e1, e2, a1, a2, a3
<1>8. ASSUME NEW i \in 1 .. n
      PROVE  1 * f[i] + a1 * e0[i] + a2 * e1[i] + a3 * e2[i] \in Int
             /\ 1 * f[i] + a1 * e0[i] + a2 * e1[i] + a3 * e2[i] <= g[i]
  <2> DEFINE x == ps[i].x
             r == e[i]
             q == d1 + d2 * x + d3 * (x * x)
             z == d1 * r + d2 * (r * x) + d3 * (r * (x * x))
             u0 == a1 * r
             u1 == a2 * (r * x)
             u2 == a3 * (r * (x * x))
  <2>1. x \in Int /\ r \in Int
    BY <1>1, <1>2
  <2>2. e0[i] = r /\ e1[i] = r * x /\ e2[i] = r * (x * x)
    <3>1. e0[i] = r * Power(x, 0) /\ e1[i] = r * Power(x, 1) /\ e2[i] = r * Power(x, 2)
      BY <1>5
    <3>2. Power(x, 0) = 1 /\ Power(x, 1) = x /\ Power(x, 2) = x * x
      BY <2>1, LowPowers
    <3>3. r * 1 = r
      BY <2>1
    <3> QED
      BY <3>1, <3>2, <3>3
  <2>3. f[i] = r * r /\ g[i] = (r - q) * (r - q)
    BY <1>0 DEF e
  <2> HIDE DEF x, r
  <2>4. (r - q) * (r - q) = r * r + (-2) * z + q * q
    BY <1>3, <2>1, SquareOfLess
  <2>5. u0 + u1 + u2 = (-2) * z
    <3>1. r * x \in Int /\ r * (x * x) \in Int
      BY <2>1
    <3> DEFINE y1 == r * x
               y2 == r * (x * x)
    <3> HIDE DEF y1, y2
    <3>2. ((-2) * d1) * r + ((-2) * d2) * y1 + ((-2) * d3) * y2 =
            (-2) * (d1 * r + d2 * y1 + d3 * y2)
      BY <1>3, <2>1, <3>1 DEF y1, y2
    <3> QED
      BY <3>2 DEF a1, a2, a3, y1, y2
  <2>6. q \in Int /\ z \in Int /\ r * r \in Int
    <3>1. x * x \in Int /\ r * x \in Int /\ r * r \in Int /\ d2 * x \in Int /\ d1 * r \in Int
      BY <1>3, <2>1
    <3>2. d3 * (x * x) \in Int /\ r * (x * x) \in Int /\ d2 * (r * x) \in Int
      BY <1>3, <2>1, <3>1
    <3>3. d3 * (r * (x * x)) \in Int
      BY <1>3, <3>2
    <3> DEFINE v1 == d2 * x
               v2 == d3 * (x * x)
               v3 == d1 * r
               v4 == d2 * (r * x)
               v5 == d3 * (r * (x * x))
    <3>4. v1 \in Int /\ v2 \in Int /\ v3 \in Int /\ v4 \in Int /\ v5 \in Int
      BY <3>1, <3>2, <3>3
    <3> HIDE DEF v1, v2, v3, v4, v5
    <3>5. d1 + v1 + v2 \in Int /\ v3 + v4 + v5 \in Int
      BY <1>3, <3>4
    <3> QED
      BY <3>1, <3>5, Zenon DEF v1, v2, v3, v4, v5
  <2>7. q * q \in Int /\ q * q >= 0
    <3> HIDE DEF q
    <3>1. q * q \in Int
      BY <2>6
    <3> QED
      BY <2>6, <3>1, Squares
  <2>8. u0 \in Int /\ u1 \in Int /\ u2 \in Int
    <3>1. r * x \in Int /\ x * x \in Int
      BY <2>1
    <3>2. r * (x * x) \in Int
      BY <2>1, <3>1
    <3> QED
      BY <1>4, <2>1, <3>1, <3>2
  <2>9. 1 * f[i] = r * r
    BY <2>3, <2>6
  <2>10. a1 * e0[i] = u0 /\ a2 * e1[i] = u1 /\ a3 * e2[i] = u2
    BY <2>2
  <2> DEFINE rr == r * r
             qq == q * q
  <2>11. rr \in Int /\ qq \in Int /\ qq >= 0
    BY <2>6, <2>7
  <2>12. g[i] = rr + (-2) * z + qq
    BY <2>3, <2>4
  <2>13. 1 * f[i] + a1 * e0[i] + a2 * e1[i] + a3 * e2[i] = rr + (u0 + u1 + u2)
    <3>1. 1 * f[i] = rr /\ a1 * e0[i] = u0 /\ a2 * e1[i] = u1 /\ a3 * e2[i] = u2
      BY <2>9, <2>10
    <3> HIDE DEF u0, u1, u2, rr
    <3>2. rr + u0 + u1 + u2 = rr + (u0 + u1 + u2)
      BY <2>8, <2>11
    <3> QED
      BY <3>1, <3>2
  <2> HIDE DEF q, z, u0, u1, u2, rr, qq
  <2> QED
    BY <2>5, <2>6, <2>11, <2>12, <2>13, SMTT(20)
<1>9. m \in [1 .. n -> Int] /\ \A i \in 1 .. n : m[i] <= g[i]
  BY <1>8
<1>10. Total(m) = 1 * Total(f) + a1 * Total(e0) + a2 * Total(e1) + a3 * Total(e2)
  <2>1. \A i \in 1 .. n : m[i] = 1 * f[i] + a1 * e0[i] + a2 * e1[i] + a3 * e2[i]
    OBVIOUS
  <2>2. 1 \in Int
    OBVIOUS
  <2> HIDE DEF m
  <2>3. /\ m \in [1 .. n -> Int] /\ e0 \in [1 .. n -> Int] /\ e1 \in [1 .. n -> Int]
        /\ e2 \in [1 .. n -> Int] /\ a1 \in Int /\ a2 \in Int /\ a3 \in Int
    BY <1>2, <1>4, <1>9
  <2>4. Combined(n, m, 1, f, a1, e0, a2, e1, a3, e2)
    BY <2>1, <2>2, <2>3 DEF Combined
  <2> QED
    BY <2>4, TotalCombines
<1> HIDE DEF m
<1>11. Total(m) <= Total(g)
  BY <1>9, TotalIsMonotone
<1> QED
  BY <1>6, <1>7, <1>10, <1>11

-----------------------------------------------------------------------------
(* A fit of order 0 to 2 as one with three coefficients.                    *)

ThreeOf(a, n) == [i \in 1 .. 3 |-> IF i <= n + 1 THEN a[i - 1] ELSE 0]

LEMMA ThreeOfIs ==
  ASSUME NEW n \in 0 .. 2, NEW a \in [0 .. n -> Int]
  PROVE  ThreeOf(a, n) \in Coefficients
<1>1. \A i \in 1 .. 3 : i <= n + 1 => i - 1 \in 0 .. n
  OBVIOUS
<1> QED
  BY <1>1 DEF ThreeOf, Coefficients

\* A polynomial of order 0 to 2 is one of order 2 with zeros.
LEMMA PolynomialIs ==
  ASSUME NEW n \in 0 .. 2, NEW a \in [0 .. n -> Int], NEW x \in Int
  PROVE  Polynomial(a, n, x) = Quadratic(ThreeOf(a, n), x)
<1> DEFINE t == [i \in 1 .. n + 1 |-> a[i - 1] * Power(x, i - 1)]
           c == ThreeOf(a, n)
<1>1. Polynomial(a, n, x) = Total(t)
  BY DEF Polynomial
<1>2. Power(x, 0) = 1 /\ Power(x, 1) = x /\ Power(x, 2) = x * x
  BY LowPowers
<1>3. \A y, z \in Int : y * z \in Int
  OBVIOUS
<1>4. \A i \in 0 .. n : a[i] \in Int
  OBVIOUS
<1>5. CASE n = 0
  <2>1. a[0] \in Int
    BY <1>4, <1>5
  <2>2. t = [i \in 1 .. 1 |-> a[i - 1] * Power(x, i - 1)]
    BY <1>5
  <2>3. t[1] = a[0] * 1
    BY <1>2, <2>2
  <2>4. a[0] * 1 = a[0]
    BY <2>1
  <2>5. t \in [1 .. 1 -> Int]
    <3>1. \A i \in 1 .. 1 : a[i - 1] * Power(x, i - 1) \in Int
      BY <1>2, <1>3, <2>1
    <3> QED
      BY <2>2, <3>1
  <2>6. Total(t) = a[0]
    <3> HIDE DEF t
    <3> QED
      BY <2>3, <2>4, <2>5, TotalOfOne
  <2>7. c[1] = a[0] /\ c[2] = 0 /\ c[3] = 0
    BY <1>5 DEF ThreeOf
  <2>8. 0 * x = 0 /\ 0 * (x * x) = 0
    BY <1>3
  <2> HIDE DEF t, c
  <2>9. Quadratic(c, x) = a[0]
    BY <2>1, <2>7, <2>8 DEF Quadratic
  <2> QED
    BY <1>1, <2>6, <2>9 DEF c
<1>6. CASE n = 1
  <2>1. a[0] \in Int /\ a[1] \in Int
    BY <1>4, <1>6
  <2>2. t = [i \in 1 .. 2 |-> a[i - 1] * Power(x, i - 1)]
    BY <1>6
  <2>3. t[1] = a[0] * 1 /\ t[2] = a[1] * x
    <3> HIDE DEF t
    <3>1. t[1] = a[1 - 1] * Power(x, 1 - 1) /\ t[2] = a[2 - 1] * Power(x, 2 - 1)
      <4>1. 1 \in 1 .. 2 /\ 2 \in 1 .. 2
        OBVIOUS
      <4> QED
        BY <2>2, <4>1, Zenon
    <3>2. 1 - 1 = 0 /\ 2 - 1 = 1
      OBVIOUS
    <3> QED
      BY <1>2, <3>1, <3>2
  <2>4. a[0] * 1 = a[0]
    BY <2>1
  <2>5. t \in [1 .. 2 -> Int]
    <3>1. \A i \in 1 .. 2 : a[i - 1] * Power(x, i - 1) \in Int
      BY <1>2, <1>3, <2>1
    <3> QED
      BY <2>2, <3>1
  <2>6. Total(t) = a[0] + a[1] * x
    <3> HIDE DEF t
    <3> QED
      BY <2>3, <2>4, <2>5, TotalOfTwo
  <2>7. c[1] = a[0] /\ c[2] = a[1] /\ c[3] = 0
    BY <1>6 DEF ThreeOf
  <2>8. 0 * (x * x) = 0 /\ a[1] * x \in Int
    BY <1>3, <2>1
  <2> HIDE DEF t, c
  <2>9. Quadratic(c, x) = a[0] + a[1] * x
    <3> DEFINE u == a[1] * x
    <3>1. Quadratic(c, x) = a[0] + u + 0
      BY <2>7, <2>8 DEF Quadratic
    <3>2. u \in Int
      BY <2>8
    <3> HIDE DEF u
    <3>3. a[0] + u + 0 = a[0] + u
      BY <2>1, <3>2
    <3> QED
      BY <3>1, <3>3 DEF u
  <2> QED
    BY <1>1, <2>6, <2>9 DEF c
<1>7. CASE n = 2
  <2>1. a[0] \in Int /\ a[1] \in Int /\ a[2] \in Int
    BY <1>4, <1>7
  <2>2. t = [i \in 1 .. 3 |-> a[i - 1] * Power(x, i - 1)]
    BY <1>7
  <2>3. t[1] = a[0] * 1 /\ t[2] = a[1] * x /\ t[3] = a[2] * (x * x)
    <3> HIDE DEF t
    <3>1. /\ t[1] = a[1 - 1] * Power(x, 1 - 1) /\ t[2] = a[2 - 1] * Power(x, 2 - 1)
          /\ t[3] = a[3 - 1] * Power(x, 3 - 1)
      <4>1. 1 \in 1 .. 3 /\ 2 \in 1 .. 3 /\ 3 \in 1 .. 3
        OBVIOUS
      <4> QED
        BY <2>2, <4>1, Zenon
    <3>2. 1 - 1 = 0 /\ 2 - 1 = 1 /\ 3 - 1 = 2
      OBVIOUS
    <3> QED
      BY <1>2, <3>1, <3>2
  <2>4. a[0] * 1 = a[0]
    BY <2>1
  <2>5. t \in [1 .. 3 -> Int]
    <3>1. \A i \in 1 .. 3 : a[i - 1] * Power(x, i - 1) \in Int
      BY <1>2, <1>3, <2>1
    <3> QED
      BY <2>2, <3>1
  <2>6. Total(t) = a[0] + a[1] * x + a[2] * (x * x)
    <3> HIDE DEF t
    <3> QED
      BY <2>3, <2>4, <2>5, TotalOfThree
  <2>7. c[1] = a[0] /\ c[2] = a[1] /\ c[3] = a[2]
    BY <1>7 DEF ThreeOf
  <2> HIDE DEF t, c
  <2>8. Quadratic(c, x) = a[0] + a[1] * x + a[2] * (x * x)
    BY <2>7 DEF Quadratic
  <2> QED
    BY <1>1, <2>6, <2>8 DEF c
<1> QED
  BY <1>5, <1>6, <1>7

\* The error as what is left of the points.
LEMMA LossIs ==
  ASSUME NEW N \in Nat, NEW ps \in Points(N), NEW div \in Int,
         NEW n \in 0 .. 2, NEW a \in [0 .. n -> Int]
  PROVE  Loss(ps, a, n, div) =
           Total([i \in 1 .. N |-> (div * ps[i].y - Quadratic(ThreeOf(a, n), ps[i].x))
                                     * (div * ps[i].y - Quadratic(ThreeOf(a, n), ps[i].x))])
<1>1. DOMAIN ps = 1 .. N /\ \A i \in 1 .. N : ps[i].x \in Int
  BY DEF Points
<1>2. \A i \in 1 .. N : Polynomial(a, n, ps[i].x) = Quadratic(ThreeOf(a, n), ps[i].x)
  BY <1>1, PolynomialIs
<1>3. Loss(ps, a, n, div) =
        Total([i \in 1 .. N |-> (div * ps[i].y - Polynomial(a, n, ps[i].x))
                                  * (div * ps[i].y - Polynomial(a, n, ps[i].x))])
  BY <1>1 DEF Loss, SumOver, Error
<1> QED
  BY <1>2, <1>3

LEMMA EquationIsInt ==
  ASSUME NEW n \in Nat, NEW ps \in Points(n), NEW div \in Int, NEW c \in Coefficients
  PROVE  \A j \in Nat : Equation(ps, div, c, j) \in Int
<1> TAKE j \in Nat
<1>1. /\ RestPow(ps, div, c, j) \in [1 .. n -> Int]
      /\ Total(RestPow(ps, div, c, j)) = Equation(ps, div, c, j)
  BY RestIs
<1> QED
  BY <1>1, TotalIsInt

\* Coefficients that solve the equations are not beaten by others.
LEMMA FitIsBest ==
  ASSUME NEW N \in Nat, NEW ps \in Points(N), NEW div \in Int,
         NEW n \in 0 .. 2, NEW a \in [0 .. n -> Int], NEW d \in [0 .. n -> Int],
         \A j \in 0 .. n : Equation(ps, div, ThreeOf(a, n), j) = 0
  PROVE  Loss(ps, a, n, div) <= Loss(ps, [i \in 0 .. n |-> a[i] + d[i]], n, div)
<1> DEFINE b == [i \in 0 .. n |-> a[i] + d[i]]
           c == ThreeOf(a, n)
           dd == ThreeOf(d, n)
           bb == ThreeOf(b, n)
           r(i) == Rest(ps, div, c)[i]
           f == [i \in 1 .. N |-> r(i) * r(i)]
           g == [i \in 1 .. N |-> (r(i) - Quadratic(dd, ps[i].x)) * (r(i) - Quadratic(dd, ps[i].x))]
<1>1. DOMAIN ps = 1 .. N /\ \A i \in 1 .. N : ps[i].x \in Int /\ ps[i].y \in Int
  BY DEF Points
<1>2. b \in [0 .. n -> Int]
  OBVIOUS
<1>3. c \in Coefficients /\ dd \in Coefficients /\ bb \in Coefficients
  <2> HIDE DEF b
  <2> QED
    BY <1>2, ThreeOfIs
<1>4. bb[1] = c[1] + dd[1] /\ bb[2] = c[2] + dd[2] /\ bb[3] = c[3] + dd[3]
  BY DEF ThreeOf
<1>5. \A i \in 1 .. N : r(i) = div * ps[i].y - Quadratic(c, ps[i].x) /\ r(i) \in Int
  <2>1. Rest(ps, div, c) \in [1 .. N -> Int]
    <3>1. 0 \in Nat
      OBVIOUS
    <3> HIDE DEF c
    <3> QED
      BY <1>3, <3>1, RestIs
  <2>2. \A i \in 1 .. N : r(i) = div * ps[i].y - Quadratic(c, ps[i].x)
    BY <1>1 DEF Rest
  <2>3. \A i \in 1 .. N : r(i) \in Int
    <3> HIDE DEF c
    <3> QED
      BY <2>1
  <2> QED
    BY <2>2, <2>3
<1>6. \A i \in 1 .. N : Quadratic(bb, ps[i].x) = Quadratic(c, ps[i].x) + Quadratic(dd, ps[i].x)
  <2> TAKE i \in 1 .. N
  <2> DEFINE x == ps[i].x
             c1 == c[1]
             c2 == c[2]
             c3 == c[3]
             d1 == dd[1]
             d2 == dd[2]
             d3 == dd[3]
  <2>1. x \in Int /\ c1 \in Int /\ c2 \in Int /\ c3 \in Int /\ d1 \in Int /\ d2 \in Int /\ d3 \in Int
    BY <1>1, <1>3 DEF Coefficients
  <2>2. /\ Quadratic(bb, x) = (c1 + d1) + (c2 + d2) * x + (c3 + d3) * (x * x)
        /\ Quadratic(c, x) = c1 + c2 * x + c3 * (x * x)
        /\ Quadratic(dd, x) = d1 + d2 * x + d3 * (x * x)
    BY <1>4 DEF Quadratic
  <2> HIDE DEF x, c1, c2, c3, d1, d2, d3
  <2>3. (c1 + d1) + (c2 + d2) * x + (c3 + d3) * (x * x) =
          (c1 + c2 * x + c3 * (x * x)) + (d1 + d2 * x + d3 * (x * x))
    BY <2>1
  <2> QED
    BY <2>2, <2>3 DEF x
<1>7. \A cc \in Coefficients, x \in Int : Quadratic(cc, x) \in Int
  <2> TAKE cc \in Coefficients, x \in Int
  <2> DEFINE c1 == cc[1]
             c2 == cc[2]
             c3 == cc[3]
  <2>1. c1 \in Int /\ c2 \in Int /\ c3 \in Int
    BY DEF Coefficients
  <2>2. Quadratic(cc, x) = c1 + c2 * x + c3 * (x * x)
    BY DEF Quadratic
  <2> HIDE DEF c1, c2, c3
  <2>3. c1 + c2 * x + c3 * (x * x) \in Int
    BY <2>1
  <2> QED
    BY <2>2, <2>3
<1>8. \A i \in 1 .. N : div * ps[i].y - Quadratic(bb, ps[i].x) = r(i) - Quadratic(dd, ps[i].x)
  <2> TAKE i \in 1 .. N
  <2> DEFINE u == div * ps[i].y
             q == Quadratic(c, ps[i].x)
             p == Quadratic(dd, ps[i].x)
  <2>1. u \in Int /\ q \in Int /\ p \in Int
    <3>1. ps[i].y \in Int /\ ps[i].x \in Int
      BY <1>1
    <3>2. u \in Int
      BY <3>1
    <3> HIDE DEF c, dd, u
    <3> QED
      BY <1>3, <1>7, <3>1, <3>2
  <2>2. r(i) = u - q /\ Quadratic(bb, ps[i].x) = q + p
    BY <1>5, <1>6
  <2> HIDE DEF u, q, p, c, dd, bb, r
  <2>3. u - (q + p) = (u - q) - p
    BY <2>1
  <2> QED
    BY <2>2, <2>3 DEF u, p
<1>9. f \in [1 .. N -> Int] /\ g \in [1 .. N -> Int]
  <2>1. ASSUME NEW i \in 1 .. N
        PROVE  r(i) * r(i) \in Int
               /\ (r(i) - Quadratic(dd, ps[i].x)) * (r(i) - Quadratic(dd, ps[i].x)) \in Int
    <3> DEFINE p == Quadratic(dd, ps[i].x)
               s == r(i)
    <3>1. s \in Int /\ p \in Int
      <4> HIDE DEF c, dd, r
      <4> QED
        BY <1>1, <1>3, <1>5, <1>7
    <3> HIDE DEF p, s
    <3>2. s * s \in Int /\ (s - p) * (s - p) \in Int
      BY <3>1
    <3> QED
      BY <3>2 DEF p, s
  <2> HIDE DEF r, dd
  <2> QED
    BY <2>1
<1>10. Loss(ps, a, n, div) = Total(f)
  <2>1. f = [i \in 1 .. N |-> (div * ps[i].y - Quadratic(c, ps[i].x))
                               * (div * ps[i].y - Quadratic(c, ps[i].x))]
    <3> HIDE DEF r
    <3> QED
      BY <1>5
  <2> HIDE DEF f
  <2> QED
    BY <2>1, LossIs
<1>11. Loss(ps, b, n, div) = Total(g)
  <2>1. g = [i \in 1 .. N |-> (div * ps[i].y - Quadratic(bb, ps[i].x))
                               * (div * ps[i].y - Quadratic(bb, ps[i].x))]
    <3> HIDE DEF r, bb, dd
    <3> QED
      BY <1>8
  <2> HIDE DEF g, b
  <2> QED
    BY <1>2, <2>1, LossIs
<1>12. /\ dd[1] * Equation(ps, div, c, 0) = 0 /\ dd[2] * Equation(ps, div, c, 1) = 0
       /\ dd[3] * Equation(ps, div, c, 2) = 0
  <2>1. dd[1] \in Int /\ dd[2] \in Int /\ dd[3] \in Int
    BY <1>3 DEF Coefficients
  <2>2. \A i \in 0 .. 2 : Equation(ps, div, c, i) \in Int
    <3>1. \A i \in Nat : Equation(ps, div, c, i) \in Int
      <4> HIDE DEF c
      <4> QED
        BY <1>3, EquationIsInt
    <3> HIDE DEF c
    <3> QED
      BY <3>1
  <2>3. \A i \in 0 .. 2 : i > n => dd[i + 1] = 0
    BY DEF ThreeOf
  <2>4. \A i \in 0 .. 2 : Equation(ps, div, c, i) = 0 \/ dd[i + 1] = 0
    <3> TAKE i \in 0 .. 2
    <3>1. CASE i \in 0 .. n
      BY <3>1
    <3>2. CASE i \notin 0 .. n
      BY <2>3, <3>2
    <3> QED
      BY <3>1, <3>2
  <2>5. \A z \in Int : z * 0 = 0 /\ 0 * z = 0
    OBVIOUS
  <2> HIDE DEF c, dd
  <2>6. 0 \in 0 .. 2 /\ 1 \in 0 .. 2 /\ 2 \in 0 .. 2 /\ 0 + 1 = 1 /\ 1 + 1 = 2 /\ 2 + 1 = 3
    OBVIOUS
  <2>7. (Equation(ps, div, c, 0) = 0 \/ dd[1] = 0) /\ (Equation(ps, div, c, 1) = 0 \/ dd[2] = 0)
        /\ (Equation(ps, div, c, 2) = 0 \/ dd[3] = 0)
    BY <2>4, <2>6
  <2> QED
    BY <2>1, <2>2, <2>5, <2>6, <2>7, Zenon
<1>13. \A i \in 1 .. N :
         /\ f[i] = Rest(ps, div, c)[i] * Rest(ps, div, c)[i]
         /\ g[i] = (Rest(ps, div, c)[i] - Quadratic(dd, ps[i].x))
                     * (Rest(ps, div, c)[i] - Quadratic(dd, ps[i].x))
  <2> HIDE DEF c, dd
  <2> QED
    OBVIOUS
<1> HIDE DEF b, c, dd, bb, f, g
<1>14. Total(f) <= Total(g)
  <2>1. Varied(N, ps, div, c, dd, f, g)
    BY <1>3, <1>9, <1>12, <1>13, Zenon DEF Varied
  <2> QED
    BY <2>1, NoBetter
<1> QED
  BY <1>10, <1>11, <1>14 DEF b

-----------------------------------------------------------------------------
(* How many different places the points are at.                             *)

LEMMA FewElements ==
  ASSUME NEW S, IsFiniteSet(S), S # {}
  PROVE  /\ Cardinality(S) \in Nat /\ ~ (Cardinality(S) <= 0)
         /\ Cardinality(S) <= 1 <=> \A x, y \in S : x = y
         /\ Cardinality(S) <= 2 <=> \A x, y, z \in S : x = y \/ y = z \/ x = z
<1>1. Cardinality(S) \in Nat /\ Cardinality(S) # 0
  BY FS_CardinalityType, FS_EmptySet
<1>2. PICK x \in S : TRUE
  OBVIOUS
<1>3. IsFiniteSet({x}) /\ Cardinality({x}) = 1
  BY FS_Singleton
<1>4. CASE S = {x}
  <2>1. Cardinality(S) = 1 /\ \A y \in S : y = x
    BY <1>3, <1>4
  <2> QED
    BY <2>1
<1>5. CASE S # {x}
  <2>1. PICK y \in S : y # x
    BY <1>2, <1>5
  <2>2. IsFiniteSet({x} \cup {y}) /\ Cardinality({x} \cup {y}) = 2
    <3>1. y \notin {x}
      BY <2>1
    <3>2. /\ IsFiniteSet({x} \cup {y})
          /\ Cardinality({x} \cup {y}) = IF y \in {x} THEN Cardinality({x}) ELSE Cardinality({x}) + 1
      BY <1>3, FS_AddElement
    <3> QED
      BY <1>3, <3>1, <3>2
  <2>3. Cardinality(S) >= 2 /\ ~ (\A a, b \in S : a = b)
    <3>1. {x} \cup {y} \in SUBSET S
      BY <1>2, <2>1
    <3>2. Cardinality({x} \cup {y}) <= Cardinality(S)
      BY <3>1, FS_Subset
    <3> QED
      BY <1>1, <1>2, <2>1, <2>2, <3>2
  <2>4. CASE S = {x} \cup {y}
    <3>1. Cardinality(S) = 2
      BY <2>2, <2>4
    <3>2. \A a, b, c \in S : a = b \/ b = c \/ a = c
      BY <2>4
    <3> QED
      BY <2>3, <3>1, <3>2
  <2>5. CASE S # {x} \cup {y}
    <3> DEFINE D == {x} \cup {y}
    <3>1. PICK z \in S : z # x /\ z # y
      BY <1>2, <2>1, <2>5
    <3>2. z \notin D /\ D \cup {z} \in SUBSET S
      BY <1>2, <2>1, <3>1
    <3> HIDE DEF D
    <3>3. /\ IsFiniteSet(D \cup {z})
          /\ Cardinality(D \cup {z}) = IF z \in D THEN Cardinality(D) ELSE Cardinality(D) + 1
      BY <2>2, FS_AddElement DEF D
    <3>4. Cardinality(D \cup {z}) = 3
      BY <2>2, <3>2, <3>3 DEF D
    <3>5. Cardinality(D \cup {z}) <= Cardinality(S)
      BY <3>2, FS_Subset
    <3>6. ~ (Cardinality(S) <= 2)
      BY <1>1, <3>4, <3>5
    <3>7. ~ (\A a, b, c \in S : a = b \/ b = c \/ a = c)
      BY <1>2, <2>1, <3>1
    <3> QED
      BY <1>1, <2>3, <3>6, <3>7
  <2> QED
    BY <2>4, <2>5
<1> QED
  BY <1>4, <1>5

\* How many places there are, said with points.
LEMMA PlacesAre ==
  ASSUME NEW N \in Nat \ {0}, NEW ps \in Points(N)
  PROVE  /\ ~ (Places(ps) <= 0)
         /\ Places(ps) <= 1 <=> \A i, j \in 1 .. N : ps[i].x = ps[j].x
         /\ Places(ps) <= 2 <=>
              \A i, j, k \in 1 .. N :
                ps[i].x = ps[j].x \/ ps[j].x = ps[k].x \/ ps[i].x = ps[k].x
<1> DEFINE S == {ps[i].x : i \in 1 .. N}
           f == [i \in 1 .. N |-> ps[i].x]
<1>1. Places(ps) = Cardinality(S)
  BY DEF Places, Points
<1>2. f \in Surjection(1 .. N, S)
  BY DEF Surjection
<1>3. IsFiniteSet(S)
  <2>1. IsFiniteSet(1 .. N)
    BY FS_Interval
  <2> HIDE DEF S, f
  <2> QED
    BY <1>2, <2>1, FS_Surjection
<1>4. S # {}
  <2>1. 1 \in 1 .. N
    OBVIOUS
  <2> QED
    BY <2>1
<1>5. (\A x, y \in S : x = y) <=> \A i, j \in 1 .. N : ps[i].x = ps[j].x
  BY Zenon
<1>6. (\A x, y, z \in S : x = y \/ y = z \/ x = z) <=>
        \A i, j, k \in 1 .. N :
          ps[i].x = ps[j].x \/ ps[j].x = ps[k].x \/ ps[i].x = ps[k].x
  <2>1. ASSUME \A i, j, k \in 1 .. N :
                 ps[i].x = ps[j].x \/ ps[j].x = ps[k].x \/ ps[i].x = ps[k].x,
               NEW x \in S, NEW y \in S, NEW z \in S
        PROVE  x = y \/ y = z \/ x = z
    <3>1. PICK i \in 1 .. N : x = ps[i].x
      OBVIOUS
    <3>2. PICK j \in 1 .. N : y = ps[j].x
      OBVIOUS
    <3>3. PICK k \in 1 .. N : z = ps[k].x
      OBVIOUS
    <3> QED
      BY <2>1, <3>1, <3>2, <3>3
  <2>2. ASSUME \A x, y, z \in S : x = y \/ y = z \/ x = z,
               NEW i \in 1 .. N, NEW j \in 1 .. N, NEW k \in 1 .. N
        PROVE  ps[i].x = ps[j].x \/ ps[j].x = ps[k].x \/ ps[i].x = ps[k].x
    <3>1. ps[i].x \in S /\ ps[j].x \in S /\ ps[k].x \in S
      OBVIOUS
    <3> HIDE DEF S
    <3> QED
      BY <2>2, <3>1
  <2> HIDE DEF S
  <2> QED
    BY <2>1, <2>2
<1> HIDE DEF S
<1> QED
  BY <1>1, <1>3, <1>4, <1>5, <1>6, FewElements

-----------------------------------------------------------------------------
(* The fits of order 0 and 1.                                               *)

\* The sums of the equations under the names of the line's.
LEMMA LowTotals ==
  ASSUME NEW N \in Nat, NEW ps \in Points(N)
  PROVE  /\ Pow(ps, 0) = Ones(ps) /\ Pow(ps, 1) = Xs(ps) /\ Pow(ps, 2) = XXs(ps)
         /\ Mom(ps, 0) = Ys(ps) /\ Mom(ps, 1) = XYs(ps)
<1>1. DOMAIN ps = 1 .. N /\ \A i \in 1 .. N : ps[i].x \in Int /\ ps[i].y \in Int
  BY DEF Points
<1>2. \A i \in 1 .. N : /\ Power(ps[i].x, 0) = 1 /\ Power(ps[i].x, 1) = ps[i].x
                        /\ Power(ps[i].x, 2) = ps[i].x * ps[i].x
  BY <1>1, LowPowers
<1>3. \A i \in 1 .. N : ps[i].y * 1 = ps[i].y
  BY <1>1
<1>4. Pow(ps, 0) = Ones(ps) /\ Pow(ps, 1) = Xs(ps) /\ Pow(ps, 2) = XXs(ps)
  BY <1>1, <1>2 DEF Pow, Ones, Xs, XXs
<1>5. Mom(ps, 0) = Ys(ps) /\ Mom(ps, 1) = XYs(ps)
  BY <1>1, <1>2, <1>3 DEF Mom, Ys, XYs
<1> QED
  BY <1>4, <1>5

\* What is to be shown of a fit.
Fits(ps, n, fit) ==
  /\ fit = Singular <=> Places(ps) <= n
  /\ fit # Singular =>
       /\ fit.a \in [0 .. n -> Int] /\ fit.div \in Int
       /\ \A j \in 0 .. n : Equation(ps, fit.div, ThreeOf(fit.a, n), j) = 0

\* The mean is there for any points.
LEMMA FitsZero ==
  ASSUME NEW N \in Nat \ {0}, NEW ps \in Points(N)
  PROVE  Fits(ps, 0, zero_order_least_squares_filter(ps))
<1> DEFINE t == Total(Ys(ps))
           a == [i \in {0} |-> t]
           fit == [a |-> a, div |-> N]
           c == ThreeOf(a, 0)
<1>1. DOMAIN ps = 1 .. N /\ Len(ps) = N /\ N \in Nat /\ N \in Int
  BY DEF Points
<1>2. t \in Int /\ Total(Ones(ps)) = N
  BY <1>1, PointTotals, TotalOfOnes DEF Ones
<1>3. zero_order_least_squares_filter(ps) = fit
  BY <1>1 DEF zero_order_least_squares_filter, SumOver, Ys
<1>4. fit # Singular
  <2>1. DOMAIN fit = {"a", "div"} /\ DOMAIN Singular = {"singular"}
    BY DEF Singular
  <2> HIDE DEF fit
  <2>2. "div" \in DOMAIN fit /\ "div" \notin DOMAIN Singular
    BY <2>1
  <2> QED
    BY <2>2
<1>5. a \in [0 .. 0 -> Int]
  <2>1. 0 .. 0 = {0}
    OBVIOUS
  <2> HIDE DEF t
  <2> QED
    BY <1>2, <2>1
<1>6. c[1] = t /\ c[2] = 0 /\ c[3] = 0
  BY DEF ThreeOf
<1>7. Equation(ps, N, c, 0) = 0
  <2> DEFINE s1 == Total(Pow(ps, 0 + 1))
             s2 == Total(Pow(ps, 0 + 2))
  <2>1. s1 \in Int /\ s2 \in Int
    BY <1>1, PowersAre
  <2>2. Total(Mom(ps, 0)) = t /\ Total(Pow(ps, 0)) = N
    BY <1>1, <1>2, LowTotals
  <2>3. Equation(ps, N, c, 0) = N * t + (- t) * N + (- 0) * s1 + (- 0) * s2
    <3> HIDE DEF c, t
    <3> QED
      BY <1>6, <2>2 DEF Equation
  <2> HIDE DEF t, s1, s2
  <2>4. N * t + (- t) * N + (- 0) * s1 + (- 0) * s2 = 0
    BY <1>1, <1>2, <2>1
  <2> QED
    BY <2>3, <2>4
<1>8. ~ (Places(ps) <= 0)
  BY PlacesAre
<1>9. \A j \in 0 .. 0 : Equation(ps, N, c, j) = 0
  <2> HIDE DEF c
  <2> QED
    BY <1>7
<1>10. fit.a = a /\ fit.div = N
  OBVIOUS
<1> HIDE DEF fit, a, t
<1> QED
  BY <1>1, <1>3, <1>4, <1>5, <1>8, <1>9, <1>10 DEF Fits

\* The sequence t is made of f and g.
OfBoth(n, t, a, f, b, g) ==
  /\ n \in Nat /\ t \in [1 .. n -> Int]
  /\ a \in Int /\ f \in [1 .. n -> Int] /\ b \in Int /\ g \in [1 .. n -> Int]
  /\ \A i \in 1 .. n : t[i] = a * f[i] + b * g[i]

LEMMA TotalOfBoth ==
  ASSUME NEW n, NEW t, NEW a, NEW f, NEW b, NEW g, OfBoth(n, t, a, f, b, g)
  PROVE  Total(t) = a * Total(f) + b * Total(g)
<1>0. /\ n \in Nat /\ t \in [1 .. n -> Int]
      /\ a \in Int /\ f \in [1 .. n -> Int] /\ b \in Int /\ g \in [1 .. n -> Int]
      /\ \A i \in 1 .. n : t[i] = a * f[i] + b * g[i]
  BY DEF OfBoth
<1> USE <1>0
<1>1. ASSUME NEW x \in Int, NEW y \in Int
      PROVE  a * x + b * y + 0 * x + 0 * y = a * x + b * y
  OBVIOUS
<1>2. \A i \in 1 .. n : f[i] \in Int /\ g[i] \in Int
  OBVIOUS
<1>3. \A i \in 1 .. n : t[i] = a * f[i] + b * g[i] + 0 * f[i] + 0 * g[i]
  BY <1>1, <1>2
<1>4. Combined(n, t, a, f, b, g, 0, f, 0, g)
  BY <1>3 DEF Combined
<1>5. Total(t) = a * Total(f) + b * Total(g) + 0 * Total(f) + 0 * Total(g)
  BY <1>4, TotalCombines
<1>6. Total(f) \in Int /\ Total(g) \in Int
  BY TotalIsInt
<1> QED
  BY <1>1, <1>5, <1>6

\* Every x is a root of x * x = u * x + w.
AreRoots(N, ps, u, w) ==
  /\ N \in Nat /\ ps \in Points(N) /\ u \in Int /\ w \in Int
  /\ \A i \in 1 .. N : ps[i].x * ps[i].x = u * ps[i].x + w * 1

\* Then the sums of the powers follow the same equation.
LEMMA PowersRecur ==
  ASSUME NEW N, NEW ps, NEW u, NEW w, AreRoots(N, ps, u, w)
  PROVE  \A j \in Nat : Total(Pow(ps, j + 2)) = u * Total(Pow(ps, j + 1)) + w * Total(Pow(ps, j))
<1>0. /\ N \in Nat /\ ps \in Points(N) /\ u \in Int /\ w \in Int
      /\ \A i \in 1 .. N : ps[i].x * ps[i].x = u * ps[i].x + w * 1
  BY DEF AreRoots
<1> USE <1>0
<1> TAKE j \in Nat
<1>1. DOMAIN ps = 1 .. N /\ \A i \in 1 .. N : ps[i].x \in Int
  BY DEF Points
<1>2. /\ Pow(ps, j) \in [1 .. N -> Int] /\ Pow(ps, j + 1) \in [1 .. N -> Int]
      /\ Pow(ps, j + 2) \in [1 .. N -> Int]
  <2>1. j + 1 \in Nat /\ j + 2 \in Nat
    OBVIOUS
  <2> QED
    BY <2>1, PowersAre
<1>3. \A i \in 1 .. N : Pow(ps, j + 2)[i] = u * Pow(ps, j + 1)[i] + w * Pow(ps, j)[i]
  <2> TAKE i \in 1 .. N
  <2> DEFINE x == ps[i].x
             p == Power(x, j)
  <2>1. x \in Int /\ x * x = u * x + w * 1
    BY <1>1
  <2>2. p \in Int /\ Power(x, j + 1) = p * x /\ Power(x, j + 2) = (p * x) * x
    <3>1. j + 1 \in Nat /\ j + 2 = (j + 1) + 1
      OBVIOUS
    <3>2. p \in Int
      BY <2>1, PowerIsInt
    <3>3. Power(x, j + 1) = p * x
      BY PowerStep
    <3>4. Power(x, (j + 1) + 1) = Power(x, j + 1) * x
      BY <3>1, PowerStep
    <3> QED
      BY <3>1, <3>2, <3>3, <3>4
  <2>3. Pow(ps, j)[i] = p /\ Pow(ps, j + 1)[i] = p * x /\ Pow(ps, j + 2)[i] = (p * x) * x
    BY <1>1, <2>2 DEF Pow
  <2> HIDE DEF x, p
  <2>4. (p * x) * x = p * (x * x)
    BY <2>1, <2>2
  <2>5. p * (u * x + w * 1) = u * (p * x) + w * p
    BY <2>1, <2>2
  <2> QED
    BY <2>1, <2>3, <2>4, <2>5
<1>4. OfBoth(N, Pow(ps, j + 2), u, Pow(ps, j + 1), w, Pow(ps, j))
  BY <1>2, <1>3 DEF OfBoth
<1> QED
  BY <1>4, TotalOfBoth

\* The line.
LEMMA FitsOne ==
  ASSUME NEW N \in Nat \ {0}, NEW ps \in Points(N)
  PROVE  Fits(ps, 1, first_order_least_squares_filter(ps))
<1> DEFINE fit == first_order_least_squares_filter(ps)
           s0 == Total(Ones(ps))
           s1 == Total(Xs(ps))
           s2 == Total(XXs(ps))
           t0 == Total(Ys(ps))
           t1 == Total(XYs(ps))
           d == LineDet(ps)
           a == [pos \in 0 .. 1 |-> IF pos = 0 THEN Constant(ps) ELSE Slope(ps)]
           c == ThreeOf(a, 1)
<1>1. N \in Nat /\ s0 \in Int /\ s1 \in Int /\ s2 \in Int /\ t0 \in Int /\ t1 \in Int
  BY PointTotals
<1>2. d = s0 * s2 - s1 * s1 /\ Constant(ps) = s2 * t0 - s1 * t1 /\ Slope(ps) = s0 * t1 - s1 * t0
  BY DEF LineDet, Constant, Slope
<1>3. d \in Int /\ Constant(ps) \in Int /\ Slope(ps) \in Int
  BY <1>1, LineTypes
<1>4. /\ Total(Pow(ps, 0)) = s0 /\ Total(Pow(ps, 1)) = s1 /\ Total(Pow(ps, 2)) = s2
      /\ Total(Mom(ps, 0)) = t0 /\ Total(Mom(ps, 1)) = t1
  BY <1>1, LowTotals
<1>5. d = 0 <=> Places(ps) <= 1
  <2>1. ASSUME d = 0
        PROVE  \A i, j \in 1 .. N : ps[i].x = ps[j].x
    BY <1>1, <2>1, LineExists
  <2>2. ASSUME \A i, j \in 1 .. N : ps[i].x = ps[j].x
        PROVE  d = 0
    <3> DEFINE p == ps[1].x
    <3>1. p \in Int /\ 1 \in 1 .. N
      BY DEF Points
    <3>2. \A i \in 1 .. N : ps[i].x = p
      BY <2>2, <3>1
    <3> HIDE DEF p
    <3>3. Xs(ps) \in [1 .. N -> Int] /\ XXs(ps) \in [1 .. N -> Int] /\ Ones(ps) \in [1 .. N -> Int]
      BY <1>1, PointTotals
    <3>4. p * p = p * p + 0 /\ p = p * 1 + 0 * 1 /\ p * p = (p * p) * 1 + 0 * 1 /\ p * p \in Int
      BY <3>1
    <3>5. DOMAIN ps = 1 .. N
      BY DEF Points
    <3>6. \A i \in 1 .. N : /\ Xs(ps)[i] = p * Ones(ps)[i] + 0 * Ones(ps)[i]
                            /\ XXs(ps)[i] = (p * p) * Ones(ps)[i] + 0 * Ones(ps)[i]
      BY <3>2, <3>4, <3>5 DEF Xs, XXs, Ones
    <3>7. s1 = p * s0 + 0 * s0
      <4>1. OfBoth(N, Xs(ps), p, Ones(ps), 0, Ones(ps))
        <5>1. 0 \in Int
          OBVIOUS
        <5> QED
          BY <1>1, <3>1, <3>3, <3>6, <5>1, Zenon DEF OfBoth
      <4> QED
        BY <4>1, TotalOfBoth
    <3>8. s2 = (p * p) * s0 + 0 * s0
      <4> DEFINE pp == p * p
      <4>1. pp \in Int /\ \A i \in 1 .. N : XXs(ps)[i] = pp * Ones(ps)[i] + 0 * Ones(ps)[i]
        BY <3>4, <3>6
      <4> HIDE DEF pp
      <4>2. OfBoth(N, XXs(ps), pp, Ones(ps), 0, Ones(ps))
        BY <1>1, <3>3, <4>1 DEF OfBoth
      <4>3. s2 = pp * s0 + 0 * s0
        BY <4>2, TotalOfBoth
      <4> QED
        BY <4>3 DEF pp
    <3> HIDE DEF s0, s1, s2, d
    <3>9. s0 * ((p * p) * s0 + 0 * s0) - (p * s0 + 0 * s0) * (p * s0 + 0 * s0) = 0
      BY <1>1, <3>1
    <3> QED
      BY <1>2, <3>7, <3>8, <3>9
  <2> HIDE DEF d
  <2> QED
    BY <2>1, <2>2, PlacesAre
<1>6. d = 0 => fit = Singular
  BY <1>1, LineIs
<1>7. d # 0 => fit = [a |-> a, div |-> d] /\ fit # Singular
  BY <1>1, LineIs
<1>8. a \in [0 .. 1 -> Int]
  BY <1>3
<1>9. c[1] = Constant(ps) /\ c[2] = Slope(ps) /\ c[3] = 0
  BY DEF ThreeOf
<1>10. \A j \in 0 .. 1 : Equation(ps, d, c, j) = 0
  <2> DEFINE s3 == Total(Pow(ps, 1 + 2))
             c0 == Constant(ps)
             c1 == Slope(ps)
  <2>1. s3 \in Int
    BY <1>1, PowersAre
  <2>2. /\ Equation(ps, d, c, 0) = d * t0 + (- c0) * s0 + (- c1) * s1 + (- 0) * s2
        /\ Equation(ps, d, c, 1) = d * t1 + (- c0) * s1 + (- c1) * s2 + (- 0) * s3
    <3>1. 0 + 1 = 1 /\ 0 + 2 = 2 /\ 1 + 1 = 2
      OBVIOUS
    <3> HIDE DEF c, d, s0, s1, s2, s3, t0, t1
    <3> QED
      BY <1>4, <1>9, <3>1 DEF Equation, s3
  <2> HIDE DEF c, d, s0, s1, s2, s3, t0, t1, c0, c1
  <2>3. d * t0 + (- c0) * s0 + (- c1) * s1 + (- 0) * s2 = 0
    <3>1. (s0 * s2 - s1 * s1) * t0 + (- (s2 * t0 - s1 * t1)) * s0
            + (- (s0 * t1 - s1 * t0)) * s1 + (- 0) * s2 = 0
      BY <1>1
    <3> QED
      BY <1>2, <3>1 DEF c0, c1
  <2>4. d * t1 + (- c0) * s1 + (- c1) * s2 + (- 0) * s3 = 0
    <3>1. (s0 * s2 - s1 * s1) * t1 + (- (s2 * t0 - s1 * t1)) * s1
            + (- (s0 * t1 - s1 * t0)) * s2 + (- 0) * s3 = 0
      BY <1>1, <2>1
    <3> QED
      BY <1>2, <3>1 DEF c0, c1
  <2>5. \A j \in 0 .. 1 : j = 0 \/ j = 1
    OBVIOUS
  <2> QED
    BY <2>2, <2>3, <2>4, <2>5
<1> HIDE DEF fit, a, d
<1>11. d # 0 => fit.a = a /\ fit.div = d
  BY <1>7
<1> QED
  BY <1>3, <1>5, <1>6, <1>7, <1>8, <1>10, <1>11 DEF Fits, fit

-----------------------------------------------------------------------------
(* The fit of order 2.                                                      *)

\* The coefficients of the equations, row after row.
Square3(ps) == [pos \in 0 .. 8 |-> Total(Pow(ps, (pos \div 3) + (pos % 3)))]

\* The equations of a parabola hold sums over the points.
LEMMA ParabolaSums ==
  ASSUME NEW N \in Nat, NEW ps \in Points(N)
  PROVE  /\ NormalEquations(ps, 2) = [rows |-> 3, cols |-> 3, vals |-> Square3(ps)]
         /\ RightHandSide(ps, 2) =
              [rows |-> 3, cols |-> 1, vals |-> [pos \in 0 .. 2 |-> Total(Mom(ps, pos))]]
         /\ Square3(ps) \in [0 .. 8 -> Int]
         /\ \A i \in 0 .. 2 :
              /\ Square3(ps)[3 * i] = Total(Pow(ps, i))
              /\ Square3(ps)[3 * i + 1] = Total(Pow(ps, i + 1))
              /\ Square3(ps)[3 * i + 2] = Total(Pow(ps, i + 2))
<1>1. NormalEquations(ps, 2) = [rows |-> 3, cols |-> 3, vals |-> Square3(ps)]
  BY DEF NormalEquations, Mat, SumOver, Square3, Pow
<1>2. RightHandSide(ps, 2) =
        [rows |-> 3, cols |-> 1, vals |-> [pos \in 0 .. 2 |-> Total(Mom(ps, pos \div 1))]]
  BY DEF RightHandSide, Mat, SumOver, Mom
<1>3. \A pos \in 0 .. 2 : pos \div 1 = pos
  OBVIOUS
<1>4. Square3(ps) \in [0 .. 8 -> Int]
  <2>1. \A pos \in 0 .. 8 : (pos \div 3) + (pos % 3) \in Nat
    OBVIOUS
  <2>2. \A j \in Nat : Total(Pow(ps, j)) \in Int
    BY PowersAre
  <2> QED
    BY <2>1, <2>2 DEF Square3
<1>5. ASSUME NEW i \in 0 .. 2
      PROVE  /\ Square3(ps)[3 * i] = Total(Pow(ps, i))
             /\ Square3(ps)[3 * i + 1] = Total(Pow(ps, i + 1))
             /\ Square3(ps)[3 * i + 2] = Total(Pow(ps, i + 2))
  <2>1. /\ 3 * i \in 0 .. 8 /\ 3 * i + 1 \in 0 .. 8 /\ 3 * i + 2 \in 0 .. 8
        /\ ((3 * i) \div 3) + ((3 * i) % 3) = i
        /\ ((3 * i + 1) \div 3) + ((3 * i + 1) % 3) = i + 1
        /\ ((3 * i + 2) \div 3) + ((3 * i + 2) % 3) = i + 2
    OBVIOUS
  <2> QED
    BY <2>1 DEF Square3
<1> QED
  BY <1>1, <1>2, <1>3, <1>4, <1>5

\* The numerators of the coefficients.
Numerator(ps, i) ==
  Cofactors(Square3(ps))[3 * i] * Total(Mom(ps, 0))
    + Cofactors(Square3(ps))[3 * i + 1] * Total(Mom(ps, 1))
    + Cofactors(Square3(ps))[3 * i + 2] * Total(Mom(ps, 2))

\* What second_order_least_squares_filter returns.
LEMMA ParabolaIs ==
  ASSUME NEW N \in Nat, NEW ps \in Points(N)
  PROVE  second_order_least_squares_filter(ps) =
           IF Det3(Square3(ps)) = 0 THEN Singular
           ELSE [a |-> [i \in 0 .. 2 |-> Numerator(ps, i)], div |-> Det3(Square3(ps))]
<1> DEFINE v == Square3(ps)
           w == Cofactors(v)
           d == Det3(v)
           m == [pos \in 0 .. 2 |-> Total(Mom(ps, pos))]
           eq == [rows |-> 3, cols |-> 3, vals |-> v]
           ac == [rows |-> 3, cols |-> 1, vals |-> m]
           num == [rows |-> 3, cols |-> 3, vals |-> w]
           term(pos) == [k \in 1 .. 3 |-> w[(k - 1) + (pos \div 1) * 3] * m[(pos % 1) + (k - 1) * 1]]
<1>1. NormalEquations(ps, 2) = eq /\ RightHandSide(ps, 2) = ac /\ v \in [0 .. 8 -> Int]
  BY ParabolaSums
<1>2. m \in [0 .. 2 -> Int]
  <2>1. \A j \in Nat : Total(Mom(ps, j)) \in Int
    BY PowersAre
  <2> QED
    BY <2>1
<1> HIDE DEF v
<1>3. eq \in MatrixOf(3) /\ eq.vals = v
  BY <1>1 DEF MatrixOf
<1>4. matdet(eq) = d /\ Numerators(eq) = num
  <2> HIDE DEF eq
  <2> QED
    BY <1>3, InverseOfThree
<1>5. w \in [0 .. 8 -> Int]
  BY <1>1, CofactorsAre
<1>6. second_order_least_squares_filter(ps) =
        IF d = 0 THEN Singular ELSE [a |-> matmul(num, ac).vals, div |-> d]
  <2>1. matinv_safe(eq) = IF d = 0 THEN Singular ELSE [num |-> num, div |-> d]
    <3> HIDE DEF eq, d, num
    <3> QED
      BY <1>4 DEF matinv_safe
  <2>2. [num |-> num, div |-> d] # Singular
    <3> DEFINE r == [num |-> num, div |-> d]
    <3>1. "div" \in DOMAIN r /\ "div" \notin DOMAIN Singular
      BY DEF Singular
    <3> HIDE DEF r
    <3> QED
      BY <3>1
  <2> HIDE DEF eq, ac, d, num
  <2>3. second_order_least_squares_filter(ps) =
          IF matinv_safe(eq) = Singular THEN Singular
          ELSE [a |-> matmul(matinv_safe(eq).num, ac).vals, div |-> matinv_safe(eq).div]
    BY <1>1 DEF second_order_least_squares_filter, SolveNormal
  <2> QED
    BY <2>1, <2>2, <2>3
<1>7. matmul(num, ac).vals = [pos \in 0 .. 2 |-> Total(term(pos))]
  <2> HIDE DEF w, m
  <2> QED
    BY DEF matmul, Mat, Entry
<1>8. ASSUME NEW pos \in 0 .. 2
      PROVE  Total(term(pos)) = w[3 * pos] * m[0] + w[3 * pos + 1] * m[1] + w[3 * pos + 2] * m[2]
  <2> DEFINE t == term(pos)
  <2>1. /\ pos \div 1 = pos /\ pos % 1 = 0
        /\ (1 - 1) + pos * 3 = 3 * pos /\ (2 - 1) + pos * 3 = 3 * pos + 1
        /\ (3 - 1) + pos * 3 = 3 * pos + 2
        /\ 0 + (1 - 1) * 1 = 0 /\ 0 + (2 - 1) * 1 = 1 /\ 0 + (3 - 1) * 1 = 2
    OBVIOUS
  <2> HIDE DEF w, m
  <2>2. t = [k \in 1 .. 3 |-> w[(k - 1) + pos * 3] * m[0 + (k - 1) * 1]]
    BY <2>1
  <2>3. t[1] = w[3 * pos] * m[0] /\ t[2] = w[3 * pos + 1] * m[1] /\ t[3] = w[3 * pos + 2] * m[2]
    <3> HIDE DEF t
    <3>1. /\ t[1] = w[(1 - 1) + pos * 3] * m[0 + (1 - 1) * 1]
          /\ t[2] = w[(2 - 1) + pos * 3] * m[0 + (2 - 1) * 1]
          /\ t[3] = w[(3 - 1) + pos * 3] * m[0 + (3 - 1) * 1]
      <4>1. 1 \in 1 .. 3 /\ 2 \in 1 .. 3 /\ 3 \in 1 .. 3
        OBVIOUS
      <4> QED
        BY <2>2, <4>1, Zenon
    <3> QED
      BY <2>1, <3>1
  <2>4. t \in [1 .. 3 -> Int]
    <3>1. \A k \in 1 .. 3 : (k - 1) + pos * 3 \in 0 .. 8 /\ 0 + (k - 1) * 1 \in 0 .. 2
      OBVIOUS
    <3>2. \A x, y \in Int : x * y \in Int
      OBVIOUS
    <3>3. \A k \in 1 .. 3 : w[(k - 1) + pos * 3] * m[0 + (k - 1) * 1] \in Int
      BY <1>2, <1>5, <3>1, <3>2
    <3> HIDE DEF t
    <3> QED
      BY <2>2, <3>3
  <2>5. Total(t) = t[1] + t[2] + t[3]
    <3> HIDE DEF t
    <3> QED
      BY <2>4, TotalOfThree
  <2> QED
    BY <2>3, <2>5
<1>9. m[0] = Total(Mom(ps, 0)) /\ m[1] = Total(Mom(ps, 1)) /\ m[2] = Total(Mom(ps, 2))
  OBVIOUS
<1>10. matmul(num, ac).vals = [i \in 0 .. 2 |-> Numerator(ps, i)]
  <2>1. \A pos \in 0 .. 2 : Total(term(pos)) = Numerator(ps, pos)
    <3> HIDE DEF term, m
    <3> QED
      BY <1>8, <1>9 DEF Numerator, w, v
  <2> HIDE DEF term
  <2> QED
    BY <1>7, <2>1
<1> QED
  BY <1>6, <1>10 DEF d, v

LEMMA Regroup ==
  ASSUME NEW v0 \in Int, NEW v1 \in Int, NEW v2 \in Int,
         NEW w0 \in Int, NEW w1 \in Int, NEW w2 \in Int, NEW w3 \in Int, NEW w4 \in Int,
         NEW w5 \in Int, NEW w6 \in Int, NEW w7 \in Int, NEW w8 \in Int,
         NEW m0 \in Int, NEW m1 \in Int, NEW m2 \in Int
  PROVE  (- (w0 * m0 + w1 * m1 + w2 * m2)) * v0 + (- (w3 * m0 + w4 * m1 + w5 * m2)) * v1
           + (- (w6 * m0 + w7 * m1 + w8 * m2)) * v2 =
           - ((v0 * w0 + v1 * w3 + v2 * w6) * m0 + (v0 * w1 + v1 * w4 + v2 * w7) * m1
                + (v0 * w2 + v1 * w5 + v2 * w8) * m2)
OBVIOUS

\* Points at two places make the third column one of the other two.
LEMMA Dependent ==
  ASSUME NEW u \in Int, NEW w \in Int, NEW a \in Int, NEW b \in Int, NEW c \in Int,
         NEW d \in Int, NEW e \in Int, NEW f \in Int
  PROVE  a * d * (u * f + w * e) + b * (u * d + w * c) * e + (u * b + w * a) * c * f
           - (u * b + w * a) * d * e - b * c * (u * f + w * e) - a * (u * d + w * c) * f = 0
OBVIOUS

\* A polynomial of order 2 has no three roots, if it is one.
LEMMA TwoRoots ==
  ASSUME NEW a \in Int, NEW b \in Int, NEW c \in Int, c # 0,
         NEW x \in Int, NEW y \in Int, NEW z \in Int,
         a + b * x + c * (x * x) = 0,
         a + b * y + c * (y * y) = 0,
         a + b * z + c * (z * z) = 0
  PROVE  x = y \/ y = z \/ x = z
<1>1. \A p, q \in Int : p * q = 0 => p = 0 \/ q = 0
  OBVIOUS
<1>2. (y - x) * (b + c * (x + y)) = (a + b * y + c * (y * y)) - (a + b * x + c * (x * x))
  OBVIOUS
<1>3. (z - x) * (b + c * (x + z)) = (a + b * z + c * (z * z)) - (a + b * x + c * (x * x))
  OBVIOUS
<1> DEFINE g == b + c * (x + y)
           h == b + c * (x + z)
<1>4. g \in Int /\ h \in Int /\ y - x \in Int /\ z - x \in Int
  OBVIOUS
<1>5. g - h = c * (y - z)
  OBVIOUS
<1>6. (y - x) * g = 0 /\ (z - x) * h = 0
  BY <1>2, <1>3
<1> HIDE DEF g, h
<1>7. (x = y \/ g = 0) /\ (x = z \/ h = 0)
  <2>1. (y - x = 0 \/ g = 0) /\ (z - x = 0 \/ h = 0)
    BY <1>1, <1>4, <1>6, Zenon
  <2> QED
    BY <2>1
<1>8. g = 0 /\ h = 0 => y = z
  <2> SUFFICES ASSUME g = 0, h = 0 PROVE y = z
    OBVIOUS
  <2>1. c * (y - z) = 0
    BY <1>5
  <2>2. y - z \in Int
    OBVIOUS
  <2>3. y - z = 0
    BY <1>1, <2>1, <2>2, Zenon
  <2> QED
    BY <2>3
<1> QED
  BY <1>7, <1>8

\* The determinant of the equations is 0 exactly if there are at most two
\* places: a column that is made of the others is a polynomial that is 0 at
\* every place, as the sum of its squares is 0.
LEMMA FewPlacesIfZero ==
  ASSUME NEW N \in Nat \ {0}, NEW ps \in Points(N), Det3(Square3(ps)) = 0
  PROVE  \A i, j, k \in 1 .. N :
           ps[i].x = ps[j].x \/ ps[j].x = ps[k].x \/ ps[i].x = ps[k].x
<1> DEFINE v == Square3(ps)
           w == Cofactors(v)
           c == [i \in 1 .. 3 |-> w[3 * i - 1]]
           r == Rest(ps, 0, c)
           e0 == RestPow(ps, 0, c, 0)
           e1 == RestPow(ps, 0, c, 1)
           e2 == RestPow(ps, 0, c, 2)
           q == [i \in 1 .. N |-> r[i] * r[i]]
<1>1. /\ N \in Nat /\ DOMAIN ps = 1 .. N
      /\ \A i \in 1 .. N : ps[i].x \in Int /\ ps[i].y \in Int
  BY DEF Points
<1>2. v \in [0 .. 8 -> Int]
  BY <1>1, ParabolaSums
<1>3. \A i \in 0 .. 2 : v[3 * i] * w[2] + v[3 * i + 1] * w[5] + v[3 * i + 2] * w[8] = 0
  <2> HIDE DEF v
  <2>1. /\ \A i, j \in 0 .. 2 :
             v[3 * i] * w[j] + v[3 * i + 1] * w[j + 3] + v[3 * i + 2] * w[j + 6]
               = IF i = j THEN Det3(v) ELSE 0
    BY <1>2, CofactorsAre
  <2>2. Det3(v) = 0
    BY DEF v
  <2>3. 2 \in 0 .. 2 /\ 2 + 3 = 5 /\ 2 + 6 = 8
    OBVIOUS
  <2> HIDE DEF w
  <2> QED
    BY <2>1, <2>2, <2>3
<1>4. w \in [0 .. 8 -> Int]
  <2> HIDE DEF v
  <2> QED
    BY <1>2, CofactorsAre
<1>5. c[1] = w[2] /\ c[2] = w[5] /\ c[3] = w[8]
  <2> HIDE DEF w
  <2>1. 3 * 1 - 1 = 2 /\ 3 * 2 - 1 = 5 /\ 3 * 3 - 1 = 8
    OBVIOUS
  <2>2. c[1] = w[3 * 1 - 1] /\ c[2] = w[3 * 2 - 1] /\ c[3] = w[3 * 3 - 1]
    OBVIOUS
  <2> QED
    BY <2>1, <2>2
<1>6. c \in Coefficients /\ w[2] \in Int /\ w[5] \in Int /\ w[8] \in Int
  <2>1. \A i \in 1 .. 3 : 3 * i - 1 \in 0 .. 8
    OBVIOUS
  <2> HIDE DEF w
  <2> QED
    BY <1>4, <2>1 DEF Coefficients
<1>7. \A i \in 0 .. 2 : Equation(ps, 0, c, i) = 0
  <2> TAKE i \in 0 .. 2
  <2> DEFINE s0 == Total(Pow(ps, i))
             s1 == Total(Pow(ps, i + 1))
             s2 == Total(Pow(ps, i + 2))
             m == Total(Mom(ps, i))
             a == w[2]
             b == w[5]
             f == w[8]
  <2>1. i \in Nat /\ i + 1 \in Nat /\ i + 2 \in Nat
    OBVIOUS
  <2>2. s0 \in Int /\ s1 \in Int /\ s2 \in Int /\ m \in Int
    BY <1>1, <2>1, PowersAre
  <2>3. v[3 * i] = s0 /\ v[3 * i + 1] = s1 /\ v[3 * i + 2] = s2
    BY <1>1, ParabolaSums
  <2> HIDE DEF v, w
  <2>4. s0 * a + s1 * b + s2 * f = 0
    BY <1>3, <2>3
  <2>5. Equation(ps, 0, c, i) = 0 * m + (- a) * s0 + (- b) * s1 + (- f) * s2
    <3> HIDE DEF c
    <3> QED
      BY <1>5 DEF Equation
  <2>6. a \in Int /\ b \in Int /\ f \in Int
    BY <1>6
  <2> HIDE DEF s0, s1, s2, m, a, b, f
  <2>7. 0 * m + (- a) * s0 + (- b) * s1 + (- f) * s2 = - (s0 * a + s1 * b + s2 * f)
    BY <2>2, <2>6
  <2> QED
    BY <2>4, <2>5, <2>7
<1>8. /\ r \in [1 .. N -> Int] /\ e0 \in [1 .. N -> Int] /\ e1 \in [1 .. N -> Int]
      /\ e2 \in [1 .. N -> Int]
      /\ Total(e0) = 0 /\ Total(e1) = 0 /\ Total(e2) = 0
  <2>1. ASSUME NEW cc \in Coefficients, NEW z \in Int
        PROVE  \A j \in Nat : /\ Rest(ps, z, cc) \in [1 .. N -> Int]
                              /\ RestPow(ps, z, cc, j) \in [1 .. N -> Int]
                              /\ Total(RestPow(ps, z, cc, j)) = Equation(ps, z, cc, j)
    <3> HIDE DEF v, w, c, r, e0, e1, e2, q
    <3> QED
      BY <1>1, RestIs
  <2>2. c \in Coefficients /\ 0 \in Int
    BY <1>6
  <2> HIDE DEF v, w, c, q
  <2>3. \A j \in Nat : /\ Rest(ps, 0, c) \in [1 .. N -> Int]
                       /\ RestPow(ps, 0, c, j) \in [1 .. N -> Int]
                       /\ Total(RestPow(ps, 0, c, j)) = Equation(ps, 0, c, j)
    BY <2>1, <2>2
  <2>4. 0 \in Nat /\ 1 \in Nat /\ 2 \in Nat /\ 0 \in 0 .. 2 /\ 1 \in 0 .. 2 /\ 2 \in 0 .. 2
    OBVIOUS
  <2> QED
    BY <1>7, <2>3, <2>4, Zenon
<1>9. ASSUME NEW i \in 1 .. N
      PROVE  /\ r[i] = - Quadratic(c, ps[i].x)
             /\ e0[i] = r[i] /\ e1[i] = r[i] * ps[i].x /\ e2[i] = r[i] * (ps[i].x * ps[i].x)
             /\ Quadratic(c, ps[i].x) = w[2] + w[5] * ps[i].x + w[8] * (ps[i].x * ps[i].x)
  <2> DEFINE x == ps[i].x
             p == Quadratic(c, x)
  <2>1. x \in Int /\ ps[i].y \in Int /\ i \in DOMAIN ps
    BY <1>1
  <2>2. Power(x, 0) = 1 /\ Power(x, 1) = x /\ Power(x, 2) = x * x
    BY <2>1, LowPowers
  <2>3. p = w[2] + w[5] * x + w[8] * (x * x)
    <3> HIDE DEF c, w, x
    <3> QED
      BY <1>5 DEF Quadratic
  <2>4. p \in Int
    <3> DEFINE a == w[2]
               b == w[5]
               f == w[8]
    <3>1. a \in Int /\ b \in Int /\ f \in Int
      BY <1>6
    <3>2. p = a + b * x + f * (x * x)
      BY <2>3
    <3> HIDE DEF p, a, b, f, x
    <3>3. a + b * x + f * (x * x) \in Int
      BY <2>1, <3>1
    <3> QED
      BY <3>2, <3>3
  <2>5. r[i] = 0 * ps[i].y - p
    BY <2>1 DEF Rest
  <2>6. 0 * ps[i].y - p = - p
    <3> HIDE DEF p
    <3> QED
      BY <2>1, <2>4
  <2>7. e0[i] = r[i] * 1 /\ e1[i] = r[i] * x /\ e2[i] = r[i] * (x * x)
    <3> HIDE DEF r, c
    <3> QED
      BY <2>1, <2>2 DEF RestPow, r
  <2>8. r[i] \in Int
    <3> HIDE DEF r
    <3> QED
      BY <1>8
  <2>9. r[i] * 1 = r[i]
    <3> HIDE DEF r
    <3> QED
      BY <2>8
  <2> HIDE DEF c, w, r, e0, e1, e2
  <2> QED
    BY <2>3, <2>5, <2>6, <2>7, <2>9
<1> HIDE DEF v, w, c, r, e0, e1, e2
<1> DEFINE a == - w[2]
           b == - w[5]
           f == - w[8]
<1>10. a \in Int /\ b \in Int /\ f \in Int
  BY <1>6
<1>11. \A i \in 1 .. N : /\ q[i] \in Int /\ q[i] >= 0
                         /\ q[i] = a * e0[i] + b * e1[i] + f * e2[i] + 0 * e0[i]
  <2> TAKE i \in 1 .. N
  <2> DEFINE x == ps[i].x
             s == r[i]
             u == w[2]
             y == w[5]
             z == w[8]
  <2>1. x \in Int /\ s \in Int /\ u \in Int /\ y \in Int /\ z \in Int
    BY <1>1, <1>6, <1>8
  <2>2. s = - (u + y * x + z * (x * x))
    BY <1>9
  <2>3. e0[i] = s /\ e1[i] = s * x /\ e2[i] = s * (x * x)
    BY <1>9
  <2>4. q[i] = s * s
    OBVIOUS
  <2>5. a = - u /\ b = - y /\ f = - z
    OBVIOUS
  <2> HIDE DEF q, a, b, f, x, s, u, y, z
  <2>6. s * s \in Int /\ s * s >= 0
    BY <2>1, Squares
  <2>7. s * (- (u + y * x + z * (x * x))) =
          (- u) * s + (- y) * (s * x) + (- z) * (s * (x * x)) + 0 * s
    BY <2>1
  <2> QED
    BY <2>2, <2>3, <2>4, <2>5, <2>6, <2>7
<1>12. q \in [1 .. N -> Int]
  <2> QED
    BY <1>11
<1>13. Total(q) = 0
  <2> HIDE DEF q, a, b, f
  <2>1. Combined(N, q, a, e0, b, e1, f, e2, 0, e0)
    <3>1. 0 \in Int
      OBVIOUS
    <3> QED
      BY <1>1, <1>8, <1>10, <1>11, <1>12, <3>1, Zenon DEF Combined
  <2>2. Total(q) = a * Total(e0) + b * Total(e1) + f * Total(e2) + 0 * Total(e0)
    BY <2>1, TotalCombines
  <2>3. a * 0 + b * 0 + f * 0 + 0 * 0 = 0
    BY <1>10
  <2> QED
    BY <1>8, <2>2, <2>3
<1>14. \A i \in 1 .. N : r[i] = 0
  <2>1. \A i \in 1 .. N : q[i] = 0
    <3> HIDE DEF q
    <3> QED
      BY <1>1, <1>11, <1>12, <1>13, TotalOfNone
  <2>2. \A i \in 1 .. N : r[i] \in Int /\ r[i] * r[i] = 0
    BY <1>8, <2>1
  <2> QED
    BY <2>2, Squares
<1>15. \A i \in 1 .. N : w[2] + w[5] * ps[i].x + w[8] * (ps[i].x * ps[i].x) = 0
  <2> TAKE i \in 1 .. N
  <2> DEFINE p == w[2] + w[5] * ps[i].x + w[8] * (ps[i].x * ps[i].x)
  <2>1. 0 = - p
    BY <1>9, <1>14
  <2>2. p \in Int
    <3> DEFINE x == ps[i].x
               u == w[2]
               y == w[5]
               z == w[8]
    <3>1. x \in Int /\ u \in Int /\ y \in Int /\ z \in Int
      BY <1>1, <1>6
    <3>2. p = u + y * x + z * (x * x)
      OBVIOUS
    <3> HIDE DEF x, u, y, z, p
    <3>3. u + y * x + z * (x * x) \in Int
      BY <3>1
    <3> QED
      BY <3>2, <3>3
  <2> HIDE DEF p
  <2>3. p = 0
    BY <2>1, <2>2
  <2> QED
    BY <2>3 DEF p
<1>16. w[8] = LineDet(ps)
  <2>1. w[8] = v[0] * v[4] - v[1] * v[3]
    BY DEF w, Cofactors
  <2>2. \A i \in 0 .. 2 :
          /\ v[3 * i] = Total(Pow(ps, i)) /\ v[3 * i + 1] = Total(Pow(ps, i + 1))
          /\ v[3 * i + 2] = Total(Pow(ps, i + 2))
    BY <1>1, ParabolaSums DEF v
  <2>3. v[3 * 0] = Total(Pow(ps, 0)) /\ v[3 * 0 + 1] = Total(Pow(ps, 0 + 1))
        /\ v[3 * 1] = Total(Pow(ps, 1)) /\ v[3 * 1 + 1] = Total(Pow(ps, 1 + 1))
    <3>1. 0 \in 0 .. 2 /\ 1 \in 0 .. 2
      OBVIOUS
    <3> QED
      BY <2>2, <3>1, Zenon
  <2>4. 3 * 0 = 0 /\ 3 * 0 + 1 = 1 /\ 3 * 1 = 3 /\ 3 * 1 + 1 = 4 /\ 0 + 1 = 1 /\ 1 + 1 = 2
    OBVIOUS
  <2>5. /\ v[0] = Total(Ones(ps)) /\ v[1] = Total(Xs(ps)) /\ v[3] = Total(Xs(ps))
        /\ v[4] = Total(XXs(ps))
    BY <1>1, <2>3, <2>4, LowTotals
  <2> QED
    BY <2>1, <2>5 DEF LineDet
<1>17. CASE LineDet(ps) = 0
  BY <1>1, <1>17, LineExists
<1>18. CASE LineDet(ps) # 0
  <2>1. w[8] # 0
    BY <1>16, <1>18
  <2> TAKE i, j, k \in 1 .. N
  <2>2. ps[i].x \in Int /\ ps[j].x \in Int /\ ps[k].x \in Int
    BY <1>1
  <2>3. /\ w[2] + w[5] * ps[i].x + w[8] * (ps[i].x * ps[i].x) = 0
        /\ w[2] + w[5] * ps[j].x + w[8] * (ps[j].x * ps[j].x) = 0
        /\ w[2] + w[5] * ps[k].x + w[8] * (ps[k].x * ps[k].x) = 0
    BY <1>15
  <2> DEFINE u == w[2]
             y == w[5]
             z == w[8]
             x1 == ps[i].x
             x2 == ps[j].x
             x3 == ps[k].x
  <2>4. u \in Int /\ y \in Int /\ z \in Int /\ z # 0 /\ x1 \in Int /\ x2 \in Int /\ x3 \in Int
    BY <1>6, <2>1, <2>2
  <2>5. /\ u + y * x1 + z * (x1 * x1) = 0 /\ u + y * x2 + z * (x2 * x2) = 0
        /\ u + y * x3 + z * (x3 * x3) = 0
    BY <2>3
  <2> HIDE DEF u, y, z, x1, x2, x3
  <2>6. x1 = x2 \/ x2 = x3 \/ x1 = x3
    BY <2>4, <2>5, TwoRoots
  <2> QED
    BY <2>6 DEF x1, x2, x3
<1> QED
  BY <1>17, <1>18

\* Points at two places or one have no parabola: the determinant is 0.
LEMMA ZeroIfFewPlaces ==
  ASSUME NEW N \in Nat \ {0}, NEW ps \in Points(N),
         \A i, j, k \in 1 .. N :
           ps[i].x = ps[j].x \/ ps[j].x = ps[k].x \/ ps[i].x = ps[k].x
  PROVE  Det3(Square3(ps)) = 0
<1>1. N \in Nat /\ 1 \in 1 .. N /\ \A i \in 1 .. N : ps[i].x \in Int
  BY DEF Points
<1>2. \E p, q \in Int : \A i \in 1 .. N : ps[i].x = p \/ ps[i].x = q
  <2>1. CASE \A i \in 1 .. N : ps[i].x = ps[1].x
    <3> USE <1>1
    <3> WITNESS ps[1].x \in Int, ps[1].x \in Int
    <3> QED
      BY <2>1
  <2>2. CASE \E i \in 1 .. N : ps[i].x # ps[1].x
    <3>1. PICK i \in 1 .. N : ps[i].x # ps[1].x
      BY <2>2
    <3>2. \A k \in 1 .. N : ps[k].x = ps[1].x \/ ps[k].x = ps[i].x
      BY <1>1, <3>1
    <3> USE <1>1
    <3> WITNESS ps[1].x \in Int, ps[i].x \in Int
    <3> QED
      BY <3>2
  <2> QED
    BY <2>1, <2>2
<1>3. PICK p \in Int, q \in Int : \A i \in 1 .. N : ps[i].x = p \/ ps[i].x = q
  BY <1>2
<1> DEFINE u == p + q
           w == - (p * q)
           s(j) == Total(Pow(ps, j))
<1>4. u \in Int /\ w \in Int
  OBVIOUS
<1>5. \A i \in 1 .. N : ps[i].x * ps[i].x = u * ps[i].x + w * 1
  <2>1. p * p = (p + q) * p + (- (p * q)) * 1 /\ q * q = (p + q) * q + (- (p * q)) * 1
    OBVIOUS
  <2> QED
    BY <1>3, <2>1
<1> HIDE DEF u, w
<1>6. \A j \in Nat : s(j) \in Int /\ s(j + 2) = u * s(j + 1) + w * s(j)
  <2>1. \A j \in Nat : Total(Pow(ps, j)) \in Int
    BY <1>1, PowersAre
  <2>2. \A j \in Nat : Total(Pow(ps, j + 2)) = u * Total(Pow(ps, j + 1)) + w * Total(Pow(ps, j))
    <3>1. AreRoots(N, ps, u, w)
      BY <1>1, <1>4, <1>5 DEF AreRoots
    <3> QED
      BY <3>1, PowersRecur
  <2> QED
    BY <2>1, <2>2, Zenon
<1>7. \A i \in 0 .. 2 :
        /\ Square3(ps)[3 * i] = s(i) /\ Square3(ps)[3 * i + 1] = s(i + 1)
        /\ Square3(ps)[3 * i + 2] = s(i + 2)
  BY <1>1, ParabolaSums
<1> DEFINE v == Square3(ps)
           v0 == v[0]
           v1 == v[1]
           v3 == v[3]
           v4 == v[4]
           v6 == v[6]
           v7 == v[7]
<1> HIDE DEF s, v
<1>8. /\ v[0] = s(0) /\ v[1] = s(1) /\ v[2] = s(2)
      /\ v[3] = s(1) /\ v[4] = s(2) /\ v[5] = s(3)
      /\ v[6] = s(2) /\ v[7] = s(3) /\ v[8] = s(4)
  <2>1. 0 \in 0 .. 2 /\ 1 \in 0 .. 2 /\ 2 \in 0 .. 2
    OBVIOUS
  <2>2. /\ v[3 * 0] = s(0) /\ v[3 * 0 + 1] = s(0 + 1) /\ v[3 * 0 + 2] = s(0 + 2)
        /\ v[3 * 1] = s(1) /\ v[3 * 1 + 1] = s(1 + 1) /\ v[3 * 1 + 2] = s(1 + 2)
        /\ v[3 * 2] = s(2) /\ v[3 * 2 + 1] = s(2 + 1) /\ v[3 * 2 + 2] = s(2 + 2)
    BY <1>7, <2>1, Zenon DEF v
  <2>3. /\ 3 * 0 = 0 /\ 3 * 0 + 1 = 1 /\ 3 * 0 + 2 = 2
        /\ 3 * 1 = 3 /\ 3 * 1 + 1 = 4 /\ 3 * 1 + 2 = 5
        /\ 3 * 2 = 6 /\ 3 * 2 + 1 = 7 /\ 3 * 2 + 2 = 8
        /\ 0 + 1 = 1 /\ 0 + 2 = 2 /\ 1 + 1 = 2 /\ 1 + 2 = 3 /\ 2 + 1 = 3 /\ 2 + 2 = 4
    OBVIOUS
  <2> QED
    BY <2>2, <2>3
<1>9. /\ v0 \in Int /\ v1 \in Int /\ v3 \in Int /\ v4 \in Int /\ v6 \in Int /\ v7 \in Int
      /\ v[2] = u * v1 + w * v0 /\ v[5] = u * v4 + w * v3 /\ v[8] = u * v7 + w * v6
      /\ v3 = v1 /\ v6 = u * v1 + w * v0 /\ v6 = v4
  <2>1. 0 \in Nat /\ 1 \in Nat /\ 2 \in Nat /\ 3 \in Nat
    OBVIOUS
  <2>2. /\ s(0) \in Int /\ s(1) \in Int /\ s(2) \in Int /\ s(3) \in Int
        /\ s(0 + 2) = u * s(0 + 1) + w * s(0)
        /\ s(1 + 2) = u * s(1 + 1) + w * s(1)
        /\ s(2 + 2) = u * s(2 + 1) + w * s(2)
    BY <1>6, <2>1, Zenon
  <2>3. 0 + 1 = 1 /\ 0 + 2 = 2 /\ 1 + 1 = 2 /\ 1 + 2 = 3 /\ 2 + 1 = 3 /\ 2 + 2 = 4
    OBVIOUS
  <2> QED
    BY <1>8, <2>2, <2>3
<1>10. Det3(v) = v0 * v4 * v[8] + v1 * v[5] * v6 + v[2] * v3 * v7
                   - v[2] * v4 * v6 - v1 * v3 * v[8] - v0 * v[5] * v7
  BY DEF Det3
<1> HIDE DEF v0, v1, v3, v4, v6, v7
<1>11. v0 * v4 * (u * v7 + w * v6) + v1 * (u * v4 + w * v3) * v6 + (u * v1 + w * v0) * v3 * v7
         - (u * v1 + w * v0) * v4 * v6 - v1 * v3 * (u * v7 + w * v6)
         - v0 * (u * v4 + w * v3) * v7 = 0
  BY <1>4, <1>9, Dependent
<1> QED
  BY <1>9, <1>10, <1>11 DEF v

\* The parabola.
LEMMA FitsTwo ==
  ASSUME NEW N \in Nat \ {0}, NEW ps \in Points(N)
  PROVE  Fits(ps, 2, second_order_least_squares_filter(ps))
<1> DEFINE v == Square3(ps)
           w == Cofactors(v)
           d == Det3(v)
           a == [i \in 0 .. 2 |-> Numerator(ps, i)]
           fit == second_order_least_squares_filter(ps)
           c == ThreeOf(a, 2)
           m0 == Total(Mom(ps, 0))
           m1 == Total(Mom(ps, 1))
           m2 == Total(Mom(ps, 2))
<1>1. N \in Nat /\ v \in [0 .. 8 -> Int]
  BY ParabolaSums
<1>2. fit = IF d = 0 THEN Singular ELSE [a |-> a, div |-> d]
  BY <1>1, ParabolaIs
<1>3. d = 0 <=> Places(ps) <= 2
  BY FewPlacesIfZero, ZeroIfFewPlaces, PlacesAre
<1>4. w \in [0 .. 8 -> Int] /\ d \in Int
  <2> HIDE DEF v
  <2> QED
    BY <1>1, CofactorsAre
<1>5. m0 \in Int /\ m1 \in Int /\ m2 \in Int
  BY <1>1, PowersAre
<1>6. \A i \in 0 .. 2 : a[i] = w[3 * i] * m0 + w[3 * i + 1] * m1 + w[3 * i + 2] * m2
  BY DEF Numerator
<1>7. a \in [0 .. 2 -> Int]
  <2>1. \A i \in 0 .. 2 : a[i] \in Int
    <3> TAKE i \in 0 .. 2
    <3> DEFINE x == w[3 * i]
               y == w[3 * i + 1]
               z == w[3 * i + 2]
    <3>1. 3 * i \in 0 .. 8 /\ 3 * i + 1 \in 0 .. 8 /\ 3 * i + 2 \in 0 .. 8
      OBVIOUS
    <3> HIDE DEF w
    <3>2. x \in Int /\ y \in Int /\ z \in Int
      BY <1>4, <3>1
    <3>3. a[i] = x * m0 + y * m1 + z * m2
      BY <1>6
    <3> HIDE DEF x, y, z, m0, m1, m2, a
    <3>4. x * m0 + y * m1 + z * m2 \in Int
      BY <1>5, <3>2
    <3> QED
      BY <3>3, <3>4
  <2> QED
    BY <2>1
<1>8. c[1] = a[0] /\ c[2] = a[1] /\ c[3] = a[2]
  <2>1. /\ c[1] = a[1 - 1] /\ c[2] = a[2 - 1] /\ c[3] = a[3 - 1]
    <3>1. c = [i \in 1 .. 3 |-> IF i <= 2 + 1 THEN a[i - 1] ELSE 0]
      BY DEF ThreeOf
    <3> HIDE DEF a, c
    <3> QED
      BY <3>1
  <2>2. 1 - 1 = 0 /\ 2 - 1 = 1 /\ 3 - 1 = 2
    OBVIOUS
  <2> HIDE DEF a, c
  <2> QED
    BY <2>1, <2>2
<1>9. ASSUME NEW j \in 0 .. 2
      PROVE  Equation(ps, d, c, j) = 0
  <2> DEFINE v0 == v[3 * j]
             v1 == v[3 * j + 1]
             v2 == v[3 * j + 2]
             w0 == w[0]
             w1 == w[1]
             w2 == w[2]
             w3 == w[3]
             w4 == w[4]
             w5 == w[5]
             w6 == w[6]
             w7 == w[7]
             w8 == w[8]
             t == Total(Mom(ps, j))
             g(k) == IF j = k THEN d ELSE 0
  <2>1. v0 = Total(Pow(ps, j)) /\ v1 = Total(Pow(ps, j + 1)) /\ v2 = Total(Pow(ps, j + 2))
    BY <1>1, ParabolaSums
  <2>2. v0 \in Int /\ v1 \in Int /\ v2 \in Int
    <3>1. 3 * j \in 0 .. 8 /\ 3 * j + 1 \in 0 .. 8 /\ 3 * j + 2 \in 0 .. 8
      OBVIOUS
    <3> HIDE DEF v
    <3> QED
      BY <1>1, <3>1
  <2>3. /\ w0 \in Int /\ w1 \in Int /\ w2 \in Int /\ w3 \in Int /\ w4 \in Int
        /\ w5 \in Int /\ w6 \in Int /\ w7 \in Int /\ w8 \in Int
    <3> HIDE DEF w
    <3> QED
      BY <1>4
  <2>4. /\ v0 * w0 + v1 * w3 + v2 * w6 = g(0)
        /\ v0 * w1 + v1 * w4 + v2 * w7 = g(1)
        /\ v0 * w2 + v1 * w5 + v2 * w8 = g(2)
    <3> HIDE DEF v
    <3>1. \A k \in 0 .. 2 : v[3 * j] * w[k] + v[3 * j + 1] * w[k + 3] + v[3 * j + 2] * w[k + 6]
                              = IF j = k THEN d ELSE 0
      BY <1>1, CofactorsAre
    <3> HIDE DEF w, d
    <3>2. /\ v0 * w[0] + v1 * w[0 + 3] + v2 * w[0 + 6] = g(0)
          /\ v0 * w[1] + v1 * w[1 + 3] + v2 * w[1 + 6] = g(1)
          /\ v0 * w[2] + v1 * w[2 + 3] + v2 * w[2 + 6] = g(2)
      <4>1. 0 \in 0 .. 2 /\ 1 \in 0 .. 2 /\ 2 \in 0 .. 2
        OBVIOUS
      <4> QED
        BY <3>1, <4>1, Zenon
    <3>3. /\ 0 + 3 = 3 /\ 0 + 6 = 6 /\ 1 + 3 = 4 /\ 1 + 6 = 7 /\ 2 + 3 = 5 /\ 2 + 6 = 8
      OBVIOUS
    <3> HIDE DEF g, v0, v1, v2
    <3> QED
      BY <3>2, <3>3
  <2>5. /\ a[0] = w0 * m0 + w1 * m1 + w2 * m2
        /\ a[1] = w3 * m0 + w4 * m1 + w5 * m2
        /\ a[2] = w6 * m0 + w7 * m1 + w8 * m2
    <3> HIDE DEF w, a, m0, m1, m2
    <3>1. /\ 3 * 0 = 0 /\ 3 * 0 + 1 = 1 /\ 3 * 0 + 2 = 2
          /\ 3 * 1 = 3 /\ 3 * 1 + 1 = 4 /\ 3 * 1 + 2 = 5
          /\ 3 * 2 = 6 /\ 3 * 2 + 1 = 7 /\ 3 * 2 + 2 = 8
          /\ 0 \in 0 .. 2 /\ 1 \in 0 .. 2 /\ 2 \in 0 .. 2
      OBVIOUS
    <3>2. /\ a[0] = w[3 * 0] * m0 + w[3 * 0 + 1] * m1 + w[3 * 0 + 2] * m2
          /\ a[1] = w[3 * 1] * m0 + w[3 * 1 + 1] * m1 + w[3 * 1 + 2] * m2
          /\ a[2] = w[3 * 2] * m0 + w[3 * 2 + 1] * m1 + w[3 * 2 + 2] * m2
      BY <1>6, <3>1, Zenon
    <3> QED
      BY <3>1, <3>2
  <2>6. Equation(ps, d, c, j) = d * t + (- a[0]) * v0 + (- a[1]) * v1 + (- a[2]) * v2
    <3> HIDE DEF c, a, d, v0, v1, v2
    <3> QED
      BY <1>8, <2>1 DEF Equation
  <2>7. t \in Int /\ t = IF j = 0 THEN m0 ELSE IF j = 1 THEN m1 ELSE m2
    <3>1. j = 0 \/ j = 1 \/ j = 2
      OBVIOUS
    <3>2. t = IF j = 0 THEN m0 ELSE IF j = 1 THEN m1 ELSE m2
      BY <3>1
    <3> HIDE DEF t, m0, m1, m2
    <3> QED
      BY <1>5, <3>2
  <2> HIDE DEF v, w, a, c, d, m0, m1, m2, v0, v1, v2, w0, w1, w2, w3, w4, w5, w6, w7, w8, t
  <2>8. (- (w0 * m0 + w1 * m1 + w2 * m2)) * v0 + (- (w3 * m0 + w4 * m1 + w5 * m2)) * v1
          + (- (w6 * m0 + w7 * m1 + w8 * m2)) * v2 =
          - ((v0 * w0 + v1 * w3 + v2 * w6) * m0 + (v0 * w1 + v1 * w4 + v2 * w7) * m1
               + (v0 * w2 + v1 * w5 + v2 * w8) * m2)
    BY <1>5, <2>2, <2>3, Regroup
  <2>9. (- a[0]) * v0 + (- a[1]) * v1 + (- a[2]) * v2 = - (g(0) * m0 + g(1) * m1 + g(2) * m2)
    <3> HIDE DEF g
    <3> QED
      BY <2>4, <2>5, <2>8
  <2>10. g(0) * m0 + g(1) * m1 + g(2) * m2 = d * t
    <3>1. CASE j = 0
      <4>1. d * m0 + 0 * m1 + 0 * m2 = d * m0
        BY <1>4, <1>5
      <4> QED
        BY <2>7, <3>1, <4>1
    <3>2. CASE j = 1
      <4>1. 0 * m0 + d * m1 + 0 * m2 = d * m1
        BY <1>4, <1>5
      <4> QED
        BY <2>7, <3>2, <4>1
    <3>3. CASE j = 2
      <4>1. 0 * m0 + 0 * m1 + d * m2 = d * m2
        BY <1>4, <1>5
      <4> QED
        BY <2>7, <3>3, <4>1
    <3> QED
      BY <3>1, <3>2, <3>3
  <2>11. (- a[0]) * v0 + (- a[1]) * v1 + (- a[2]) * v2 = - (d * t)
    <3> HIDE DEF g
    <3> QED
      BY <2>9, <2>10
  <2> DEFINE x == (- a[0]) * v0
             y == (- a[1]) * v1
             z == (- a[2]) * v2
  <2>12. x \in Int /\ y \in Int /\ z \in Int /\ d * t \in Int
    <3>1. a[0] \in Int /\ a[1] \in Int /\ a[2] \in Int
      BY <1>7
    <3> QED
      BY <1>4, <2>2, <2>7, <3>1
  <2>13. x + y + z = - (d * t)
    BY <2>11
  <2>14. Equation(ps, d, c, j) = d * t + x + y + z
    BY <2>6
  <2> HIDE DEF x, y, z
  <2> DEFINE e == d * t
  <2> HIDE DEF e
  <2>15. e + x + y + z = 0
    BY <2>12, <2>13 DEF e
  <2> QED
    BY <2>14, <2>15 DEF e
<1>10. d # 0 => fit # Singular /\ fit.a = a /\ fit.div = d
  <2>1. [a |-> a, div |-> d] # Singular
    <3> DEFINE r == [a |-> a, div |-> d]
    <3>1. "div" \in DOMAIN r /\ "div" \notin DOMAIN Singular
      BY DEF Singular
    <3> HIDE DEF r
    <3> QED
      BY <3>1
  <2> HIDE DEF a, d, fit
  <2> QED
    BY <1>2, <2>1
<1> HIDE DEF v, w, d, a, fit
<1> QED
  BY <1>2, <1>3, <1>4, <1>7, <1>9, <1>10 DEF Fits, fit

\* A fit of order 0 to 2 of any points (method_of_least_squares.c 8-20,
\* 57-130) is refused exactly when they are at too few places, and no other
\* polynomial of its order has a smaller error.
THEOREM FitsAreLeastSquares == RoutinesSpec => []FitIsLeastSquares
<1>1. RoutinesInv => FitIsLeastSquares
  <2> SUFFICES ASSUME RoutinesInv, IsFit, result # Nothing, input.order < 3
               PROVE  /\ result = Singular <=> Places(input.points) <= input.order
                      /\ result # Singular =>
                           \A d \in [0 .. input.order -> Offsets] :
                             Loss(input.points, result.a, input.order, result.div)
                               <= Loss(input.points,
                                       [i \in 0 .. input.order |-> result.a[i] + d[i]],
                                       input.order, result.div)
    BY DEF FitIsLeastSquares
  <2> DEFINE ps == input.points
             n == input.order
  <2>1. input \in [points : PointLists, order : 0 .. 2] /\ result = least_squares_filter(ps, n)
    BY DEF RoutinesInv, Called, IsFit
  <2>2. PICK N \in Nat \ {0} : ps \in Points(N)
    <3>1. PICK N \in 1 .. MaxLen : ps \in [1 .. N -> [x : Abscissae, y : Ordinates]]
      BY <2>1 DEF PointLists
    <3>2. N \in Nat \ {0}
      BY <3>1, RoutinesAssumption
    <3>3. \A p \in [x : Abscissae, y : Ordinates] : p \in [x : Int, y : Int]
      BY RoutinesAssumption
    <3>4. ps \in Points(N)
      BY <3>1, <3>3 DEF Points
    <3> QED
      BY <3>2, <3>4
  <2>3. n \in 0 .. 2
    BY <2>1
  <2> HIDE DEF ps, n
  <2>4. Fits(ps, n, result)
    <3>1. CASE n = 0
      BY <2>1, <2>2, <3>1, FitsZero DEF least_squares_filter
    <3>2. CASE n = 1
      BY <2>1, <2>2, <3>2, FitsOne DEF least_squares_filter
    <3>3. CASE n = 2
      BY <2>1, <2>2, <3>3, FitsTwo DEF least_squares_filter
    <3> QED
      BY <2>3, <3>1, <3>2, <3>3
  <2>5. result = Singular <=> Places(ps) <= n
    BY <2>4 DEF Fits
  <2>6. ASSUME result # Singular, NEW d \in [0 .. n -> Offsets]
        PROVE  Loss(ps, result.a, n, result.div)
                 <= Loss(ps, [i \in 0 .. n |-> result.a[i] + d[i]], n, result.div)
    <3>1. /\ result.a \in [0 .. n -> Int] /\ result.div \in Int
          /\ \A j \in 0 .. n : Equation(ps, result.div, ThreeOf(result.a, n), j) = 0
      BY <2>4, <2>6 DEF Fits
    <3>2. d \in [0 .. n -> Int]
      BY RoutinesAssumption
    <3>3. N \in Nat
      OBVIOUS
    <3> QED
      BY <2>2, <2>3, <3>1, <3>2, <3>3, FitIsBest
  <2> QED
    BY <2>5, <2>6 DEF ps, n
<1> QED
  BY <1>1, RoutinesInvHolds, PTL

-----------------------------------------------------------------------------
(* Matrices of integers among those of fractions.                           *)

\* The identity of the integer matrices.
LEMMA IdentityIs ==
  ASSUME NEW n \in Nat \ {0}
  PROVE  /\ matidn(n) \in MatrixOf(n) /\ FractionsOf(matidn(n)) \in FracMat(n)
         /\ Table(FractionsOf(matidn(n))) = Identity(n)
<1> DEFINE e == [i \in 0 .. n - 1 |-> [j \in 0 .. n - 1 |-> IF i = j THEN 1 ELSE 0]]
           m == matidn(n)
<1>1. m = [rows |-> n, cols |-> n,
           vals |-> [pos \in 0 .. n * n - 1 |-> IF pos \div n = pos % n THEN 1 ELSE 0]]
  BY DEF matidn, Mat
<1>2. \A pos \in 0 .. n * n - 1 : e[pos \div n][pos % n] = IF pos \div n = pos % n THEN 1 ELSE 0
  BY Cell
<1>3. m = [rows |-> n, cols |-> n,
           vals |-> [pos \in 0 .. n * n - 1 |-> e[pos \div n][pos % n]]]
  <2> HIDE DEF e, m
  <2> QED
    BY <1>1, <1>2
<1>4. m \in MatrixOf(n)
  <2> HIDE DEF m
  <2> QED
    BY <1>1 DEF MatrixOf
<1>5. \A i, j \in 0 .. n - 1 : Entry(m, i, j) = IF i = j THEN 1 ELSE 0
  <2> TAKE i, j \in 0 .. n - 1
  <2> HIDE DEF e, m
  <2>1. m.vals = [pos \in 0 .. n * n - 1 |-> e[pos \div n][pos % n]] /\ m.cols = n
    BY <1>3
  <2>2. j + i * n \in 0 .. n * n - 1 /\ (j + i * n) \div n = i /\ (j + i * n) % n = j
    BY Cell
  <2>3. m.vals[j + i * n] = e[i][j]
    BY <2>1, <2>2
  <2> QED
    BY <2>1, <2>3 DEF Entry, e
<1> HIDE DEF e, m
<1>6. \A i, j \in 0 .. n - 1 : Table(FractionsOf(m))[i][j] = Identity(n)[i][j]
  BY <1>4, <1>5, FractionsOfIs DEF Identity, Unit, One, Zero
<1>7. FractionsOf(m) \in FracMat(n) /\ Table(FractionsOf(m)) \in Tab(n) /\ Identity(n) \in Tab(n)
  BY <1>4, FractionsOfIs, TableIs, TableTypes
<1>8. Table(FractionsOf(m)) = Identity(n)
  <2> DEFINE T == Table(FractionsOf(m))
             U == Identity(n)
  <2> HIDE DEF T, U
  <2>1. \A i \in 0 .. n - 1 : T[i] = U[i]
    <3> TAKE i \in 0 .. n - 1
    <3>1. T[i] \in Vec(n) /\ U[i] \in Vec(n)
      BY <1>7, TabRows DEF T, U
    <3>2. \A j \in 0 .. n - 1 : T[i][j] = U[i][j]
      BY <1>6 DEF T, U
    <3> QED
      BY <3>1, <3>2 DEF Vec
  <2>2. T \in Tab(n) /\ U \in Tab(n)
    BY <1>7 DEF T, U
  <2>3. T = U
    BY <2>1, <2>2 DEF Tab
  <2> QED
    BY <2>3 DEF T, U
<1> QED
  BY <1>4, <1>7, <1>8 DEF m

\* Product computes what Times2 does.
LEMMA ProductIsTimes2 ==
  ASSUME NEW n \in Nat \ {0}, NEW l \in FracMat(n), NEW r \in FracMat(n)
  PROVE  Product(l, r) \in FracMat(n)
         /\ Table(Product(l, r)) = Times2(n, Table(l), Table(r))
<1> DEFINE F == Table(l)
           X == Table(r)
           G == Times2(n, F, X)
           p == Product(l, r)
<1>1. /\ F \in Tab(n) /\ X \in Tab(n)
      /\ l.rows = n /\ r.rows = n /\ r.cols = n /\ Rows(r) = 0 .. n - 1
      /\ \A i, j \in 0 .. n - 1 : F[i][j] = Entry(l, i, j) /\ X[i][j] = Entry(r, i, j)
  BY TableIs
<1>2. p = [rows |-> n, cols |-> n,
           vals |-> [pos \in 0 .. n * n - 1 |->
             SumOf(0, n - 1, [k \in 0 .. n - 1 |-> Times(Entry(l, pos \div n, k),
                                                         Entry(r, k, pos % n))])]]
  <2> DEFINE a == l.rows
             b == r.rows
             c == r.cols
             R == Rows(r)
  <2>1. p = [rows |-> a, cols |-> c,
             vals |-> [pos \in 0 .. a * c - 1 |->
               SumOf(0, b - 1, [k \in R |-> Times(Entry(l, pos \div c, k), Entry(r, k, pos % c))])]]
    BY DEF Product, Mat
  <2>2. a = n /\ b = n /\ c = n /\ R = 0 .. n - 1
    BY <1>1
  <2> HIDE DEF a, b, c, R, p
  <2> QED
    BY <2>1, <2>2
<1>3. \A i, j \in 0 .. n - 1 :
        G[i][j] = SumOf(0, n - 1, [k \in 0 .. n - 1 |-> Times(Entry(l, i, k), Entry(r, k, j))])
  <2> TAKE i, j \in 0 .. n - 1
  <2> DEFINE f == [k \in 0 .. n - 1 |-> Times(F[i][k], ColumnOf(n, X, j)[k])]
             g == [k \in 0 .. n - 1 |-> Times(Entry(l, i, k), Entry(r, k, j))]
  <2>1. G[i][j] = SumOf(0, n - 1, f)
    BY DEF Times2, Dot
  <2>2. \A k \in 0 .. n - 1 : Times(F[i][k], ColumnOf(n, X, j)[k]) = Times(Entry(l, i, k), Entry(r, k, j))
    <3> TAKE k \in 0 .. n - 1
    <3>1. F[i][k] = Entry(l, i, k) /\ ColumnOf(n, X, j)[k] = X[k][j] /\ X[k][j] = Entry(r, k, j)
      BY <1>1 DEF ColumnOf
    <3> HIDE DEF F, X
    <3> QED
      BY <3>1
  <2>3. f = g
    BY <2>2
  <2> HIDE DEF f, g, G
  <2> QED
    BY <2>1, <2>3 DEF g
<1>4. \A pos \in 0 .. n * n - 1 :
        SumOf(0, n - 1, [k \in 0 .. n - 1 |-> Times(Entry(l, pos \div n, k), Entry(r, k, pos % n))])
          = G[pos \div n][pos % n]
  <2> HIDE DEF G
  <2> QED
    BY <1>3, Cell
<1>5. p = [rows |-> n, cols |-> n,
           vals |-> [pos \in 0 .. n * n - 1 |-> G[pos \div n][pos % n]]]
  <2> HIDE DEF G, p
  <2> QED
    BY <1>2, <1>4
<1>6. G \in Tab(n)
  BY <1>1, TableTypes
<1> HIDE DEF G, p
<1>7. p \in FracMat(n) /\ Table(p) = G
  BY <1>5, <1>6, TableOf
<1> QED
  BY <1>7 DEF p, G

\* An inverse, as the property states it.
LEMMA InverseAsProducts ==
  ASSUME NEW n \in Nat \ {0}, NEW l \in FracMat(n), NEW r \in FracMat(n),
         IsInverse(n, Table(l), Table(r))
  PROVE  /\ Product(l, r) = FractionsOf(matidn(n))
         /\ Product(r, l) = FractionsOf(matidn(n))
<1>1. /\ Product(l, r) \in FracMat(n) /\ Table(Product(l, r)) = Identity(n)
      /\ Product(r, l) \in FracMat(n) /\ Table(Product(r, l)) = Identity(n)
  BY ProductIsTimes2 DEF IsInverse
<1> QED
  BY <1>1, IdentityIs, SameTable

-----------------------------------------------------------------------------
(* Inverses over a determinant.                                             *)

\* The sum of whole numbers is the whole number of their total.
LEMMA WholeTotal ==
  ASSUME NEW n \in Nat, NEW t \in [1 .. n -> Int], NEW lo \in Int, NEW u,
         \A k \in 1 .. n : u[lo - 1 + k] = Whole(t[k])
  PROVE  SumOf(lo, lo - 1 + n, u) = Whole(Total(t))
<1>1. PICK S : RunningSum(S, t, n)
  BY TotalIsRunningSum
<1>2. /\ S \in [0 .. n -> Int] /\ S[0] = 0 /\ Total(t) = S[n]
      /\ \A k \in 0 .. n - 1 : S[k + 1] = S[k] + t[k + 1]
  BY <1>1 DEF RunningSum
<1> DEFINE A == {k \in 0 .. n : SumOf(lo, lo - 1 + k, u) = Whole(S[k])}
<1>3. 0 \in A
  <2>1. lo - 1 + 0 = lo - 1
    OBVIOUS
  <2>2. SumOf(lo, lo - 1, u) = Whole(S[0])
    BY <1>2, SumStep DEF Zero
  <2> QED
    BY <2>1, <2>2
<1>4. ASSUME NEW k \in 0 .. n - 1, k \in A
      PROVE  k + 1 \in A
  <2>1. lo - 1 + (k + 1) = lo + k /\ (lo + k) - 1 = lo - 1 + k /\ lo + k >= lo /\ lo + k \in Int
    OBVIOUS
  <2>2. SumOf(lo, lo + k, u) = Plus(SumOf(lo, lo - 1 + k, u), u[lo + k])
    BY <2>1, SumStep
  <2>3. u[lo + k] = Whole(t[k + 1])
    BY <2>1
  <2>4. SumOf(lo, lo - 1 + k, u) = Whole(S[k])
    BY <1>4
  <2>5. S[k] \in Int /\ t[k + 1] \in Int /\ S[k + 1] = S[k] + t[k + 1]
    BY <1>2
  <2>6. Plus(Whole(S[k]), Whole(t[k + 1])) = Whole(S[k + 1])
    <3> DEFINE a == S[k]
               b == t[k + 1]
    <3>1. a \in Int /\ b \in Int /\ S[k + 1] = a + b
      BY <2>5
    <3> HIDE DEF a, b
    <3>2. Plus(Whole(a), Whole(b)) = Whole(a + b)
      BY <3>1, WholeSums
    <3> QED
      BY <3>1, <3>2 DEF a, b
  <2> QED
    BY <2>1, <2>2, <2>3, <2>4, <2>6
<1> HIDE DEF A
<1>5. \A k \in 0 .. n : k \in A
  BY <1>3, <1>4, UpTo
<1> QED
  BY <1>2, <1>5 DEF A

\* N is d times an inverse of F, if d is not 0.
Scales(n, F, N, d) ==
  /\ F \in Tab(n) /\ N \in Tab(n) /\ d \in Frac
  /\ \A i, j \in 0 .. n - 1 :
       /\ Times2(n, F, N)[i][j] = IF i = j THEN d ELSE Zero
       /\ Times2(n, N, F)[i][j] = IF i = j THEN d ELSE Zero

\* The product with a multiple of a matrix.
LEMMA MultipleOfTable ==
  ASSUME NEW n \in Nat \ {0}, NEW F \in Tab(n), NEW N \in Tab(n), NEW X \in Tab(n),
         NEW q \in Frac, \A i, j \in 0 .. n - 1 : X[i][j] = Times(q, N[i][j])
  PROVE  \A i, j \in 0 .. n - 1 :
           /\ Times2(n, F, X)[i][j] = Times(q, Times2(n, F, N)[i][j])
           /\ Times2(n, X, F)[i][j] = Times(q, Times2(n, N, F)[i][j])
<1> TAKE i, j \in 0 .. n - 1
<1>1. \A k \in 0 .. n - 1 : /\ F[i][k] \in Frac /\ N[i][k] \in Frac /\ X[i][k] = Times(q, N[i][k])
                            /\ F[k][j] \in Frac /\ N[k][j] \in Frac /\ X[k][j] = Times(q, N[k][j])
  BY TabRows
<1> DEFINE fx == [k \in 0 .. n - 1 |-> Times(F[i][k], ColumnOf(n, X, j)[k])]
           fn == [k \in 0 .. n - 1 |-> Times(F[i][k], ColumnOf(n, N, j)[k])]
           xf == [k \in 0 .. n - 1 |-> Times(X[i][k], ColumnOf(n, F, j)[k])]
           nf == [k \in 0 .. n - 1 |-> Times(N[i][k], ColumnOf(n, F, j)[k])]
<1>2. /\ Times2(n, F, X)[i][j] = SumOf(0, n - 1, fx) /\ Times2(n, F, N)[i][j] = SumOf(0, n - 1, fn)
      /\ Times2(n, X, F)[i][j] = SumOf(0, n - 1, xf) /\ Times2(n, N, F)[i][j] = SumOf(0, n - 1, nf)
  BY DEF Times2, Dot
<1>3. \A k \in 0 .. n - 1 : /\ fx[k] = Times(F[i][k], X[k][j]) /\ fn[k] = Times(F[i][k], N[k][j])
                            /\ xf[k] = Times(X[i][k], F[k][j]) /\ nf[k] = Times(N[i][k], F[k][j])
  BY DEF ColumnOf
<1> HIDE DEF fx, fn, xf, nf
<1>4. ASSUME NEW k \in 0 .. n - 1
      PROVE  /\ fx[k] = Times(q, fn[k]) /\ fn[k] \in Frac
             /\ xf[k] = Times(q, nf[k]) /\ nf[k] \in Frac
  <2> DEFINE f == F[i][k]
             g == F[k][j]
             a == N[k][j]
             b == N[i][k]
  <2>1. /\ f \in Frac /\ g \in Frac /\ a \in Frac /\ b \in Frac
        /\ fx[k] = Times(f, Times(q, a)) /\ fn[k] = Times(f, a)
        /\ xf[k] = Times(Times(q, b), g) /\ nf[k] = Times(b, g)
    BY <1>1, <1>3
  <2> HIDE DEF f, g, a, b
  <2>2. Times(f, Times(q, a)) = Times(Times(f, q), a) /\ Times(Times(q, f), a) = Times(q, Times(f, a))
    BY <2>1, TimesAssoc
  <2>3. Times(f, q) = Times(q, f)
    BY <2>1, TimesComm
  <2>4. Times(Times(q, b), g) = Times(q, Times(b, g))
    BY <2>1, TimesAssoc
  <2>5. Times(f, a) \in Frac /\ Times(b, g) \in Frac
    BY <2>1, Closed
  <2> QED
    BY <2>1, <2>2, <2>3, <2>4, <2>5
<1>5. Bounds(0, n - 1) /\ Addends(fn, 0, n - 1) /\ Addends(nf, 0, n - 1)
  BY <1>4 DEF Bounds, Addends
<1>6. SumOf(0, n - 1, fx) = Times(q, SumOf(0, n - 1, fn))
  BY <1>4, <1>5, SumTimes
<1>7. SumOf(0, n - 1, xf) = Times(q, SumOf(0, n - 1, nf))
  BY <1>4, <1>5, SumTimes
<1> QED
  BY <1>2, <1>6, <1>7

\* A table with ones on its diagonal and zeros elsewhere.
LEMMA IsIdentity ==
  ASSUME NEW n \in Nat \ {0}, NEW G \in Tab(n),
         \A i, j \in 0 .. n - 1 : G[i][j] = IF i = j THEN One ELSE Zero
  PROVE  G = Identity(n)
<1>1. \A j \in 0 .. n - 1 : ColumnOf(n, G, j) = Unit(n, j)
  BY DEF ColumnOf, Unit
<1>2. Identity(n) \in Tab(n)
  BY TableTypes
<1> QED
  BY <1>1, <1>2, ColumnOfIdentity, SameColumns

\* With a determinant other than 0 there is an inverse.
LEMMA ScaledHasInverse ==
  ASSUME NEW n \in Nat \ {0}, NEW F, NEW N, NEW d, Scales(n, F, N, d), d # Zero
  PROVE  \E X : IsInverse(n, F, X)
<1> DEFINE q == Over(One, d)
           X == [i \in 0 .. n - 1 |-> [j \in 0 .. n - 1 |-> Times(q, N[i][j])]]
<1>1. F \in Tab(n) /\ N \in Tab(n) /\ d \in Frac
  BY DEF Scales
<1>2. q \in Frac /\ Times(q, d) = One /\ Times(q, Zero) = Zero
  BY <1>1, Constants, OverTimes, Neutral
<1> HIDE DEF q
<1>3. \A i, j \in 0 .. n - 1 : X[i][j] = Times(q, N[i][j]) /\ Times(q, N[i][j]) \in Frac
  BY <1>1, <1>2, TabRows, Closed
<1>4. X \in Tab(n)
  BY <1>3 DEF Tab, Vec
<1> HIDE DEF X
<1>5. \A i, j \in 0 .. n - 1 :
        /\ Times2(n, F, X)[i][j] = Times(q, Times2(n, F, N)[i][j])
        /\ Times2(n, X, F)[i][j] = Times(q, Times2(n, N, F)[i][j])
  <2>1. \A i, j \in 0 .. n - 1 : X[i][j] = Times(q, N[i][j])
    BY <1>3
  <2>2. q \in Frac
    BY <1>2
  <2> QED
    BY <1>1, <1>4, <2>1, <2>2, MultipleOfTable
<1>6. \A i, j \in 0 .. n - 1 :
        /\ Times2(n, F, X)[i][j] = IF i = j THEN One ELSE Zero
        /\ Times2(n, X, F)[i][j] = IF i = j THEN One ELSE Zero
  BY <1>2, <1>5 DEF Scales
<1>7. Times2(n, F, X) \in Tab(n) /\ Times2(n, X, F) \in Tab(n)
  BY <1>1, <1>4, TableTypes
<1> QED
  BY <1>4, <1>6, <1>7, IsIdentity DEF IsInverse

\* With the determinant 0 an inverse would make all cofactors 0.
LEMMA ScaledByZero ==
  ASSUME NEW n \in Nat \ {0}, NEW F, NEW N, Scales(n, F, N, Zero), NEW X, IsInverse(n, F, X)
  PROVE  \A i, j \in 0 .. n - 1 : N[i][j] = Zero
<1>1. F \in Tab(n) /\ N \in Tab(n) /\ X \in Tab(n)
  BY DEF Scales, IsInverse
<1> DEFINE G == Times2(n, N, F)
<1>2. G \in Tab(n) /\ \A i, j \in 0 .. n - 1 : G[i][j] = Zero
  BY <1>1, TableTypes DEF Scales
<1> TAKE i, j \in 0 .. n - 1
<1> DEFINE v == ColumnOf(n, X, j)
<1>3. v \in Vec(n)
  BY <1>1, TableTypes
<1>4. Image(n, F, v) = Unit(n, j)
  <2>1. ColumnOf(n, Times2(n, F, X), j) = Image(n, F, v)
    BY <1>1, ColumnOfProduct
  <2>2. Times2(n, F, X) = Identity(n)
    BY DEF IsInverse
  <2> QED
    BY <2>1, <2>2, ColumnOfIdentity
<1> HIDE DEF v
<1>5. Image(n, N, Image(n, F, v)) = Image(n, G, v)
  BY <1>1, <1>3, ImageOfImage
<1>6. Image(n, N, Unit(n, j)) = ColumnOf(n, N, j)
  BY <1>1, ImageOfUnit
<1>7. Image(n, G, v)[i] = Zero
  <2> DEFINE t == [k \in 0 .. n - 1 |-> Times(G[i][k], v[k])]
  <2>1. Image(n, G, v)[i] = SumOf(0, n - 1, t)
    BY DEF Image, Dot
  <2>2. \A k \in 0 .. n - 1 : t[k] = Times(G[i][k], v[k])
    OBVIOUS
  <2> HIDE DEF t, G
  <2>3. \A k \in 0 .. n - 1 : t[k] = Zero
    BY <1>2, <1>3, <2>2, Neutral DEF Vec
  <2>4. Bounds(0, n - 1)
    BY DEF Bounds
  <2> QED
    BY <2>1, <2>3, <2>4, SumZero
<1> HIDE DEF G
<1>8. ColumnOf(n, N, j)[i] = N[i][j]
  BY DEF ColumnOf
<1> QED
  BY <1>4, <1>5, <1>6, <1>7, <1>8

-----------------------------------------------------------------------------
(* The sizes that have a closed form.                                       *)

\* A product of integer matrices is their product as fractions.
LEMMA WholeProduct ==
  ASSUME NEW n \in 1 .. 3, NEW l \in MatrixOf(n), NEW r \in MatrixOf(n), NEW d \in Int,
         matmul(l, r) = matsca(matidn(n), d)
  PROVE  \A i, j \in 0 .. n - 1 :
           Times2(n, Table(FractionsOf(l)), Table(FractionsOf(r)))[i][j]
             = IF i = j THEN Whole(d) ELSE Zero
<1> TAKE i, j \in 0 .. n - 1
<1> DEFINE F == Table(FractionsOf(l))
           X == Table(FractionsOf(r))
           p == j + i * n
           t == Terms(l, r, n, p)
           u == [k \in 0 .. n - 1 |-> Times(F[i][k], ColumnOf(n, X, j)[k])]
<1>1. n \in Nat \ {0} /\ l \in MatrixOf(n) /\ r \in MatrixOf(n)
  BY DEF MatrixOf
<1>2. p \in 0 .. n * n - 1 /\ p \div n = i /\ p % n = j
  BY <1>1, Cell
<1>3. t \in [1 .. n -> Int] /\ Total(t) = IF i = j THEN d ELSE 0
  <2> DEFINE P == matmul(l, r)
             Q == matsca(matidn(n), d)
  <2>1. P = [rows |-> n, cols |-> n,
             vals |-> [pos \in 0 .. n * n - 1 |-> Total(Terms(l, r, n, pos))]]
    BY ProductIs
  <2>2. Q = [rows |-> n, cols |-> n,
             vals |-> [pos \in 0 .. n * n - 1 |-> IF pos \div n = pos % n THEN d ELSE 0]]
    BY ScaledIdentity
  <2>3. P = Q
    OBVIOUS
  <2> HIDE DEF P, Q
  <2>4. P.vals[p] = Total(Terms(l, r, n, p))
    BY <1>2, <2>1
  <2>5. Q.vals[p] = IF p \div n = p % n THEN d ELSE 0
    BY <1>2, <2>2
  <2>6. Terms(l, r, n, p) \in [1 .. n -> Int]
    BY <1>2, ProductIs
  <2> HIDE DEF p
  <2> QED
    BY <1>2, <2>3, <2>4, <2>5, <2>6 DEF t
<1>4. \A k \in 0 .. n - 1 : u[k] = Whole(t[k + 1])
  <2> TAKE k \in 0 .. n - 1
  <2> DEFINE a == Entry(l, i, k)
             b == Entry(r, k, j)
  <2>1. F[i][k] = Whole(a) /\ a \in Int
    BY <1>1, FractionsOfIs
  <2>2. X[k][j] = Whole(b) /\ b \in Int
    BY <1>1, FractionsOfIs
  <2>3. u[k] = Times(Whole(a), Whole(b))
    BY <2>1, <2>2 DEF ColumnOf
  <2>4. t[k + 1] = a * b
    <3>1. t[k + 1] = l.vals[k + (p \div n) * n] * r.vals[(p % n) + k * n]
      <4>1. k + 1 \in 1 .. n /\ (k + 1) - 1 = k
        OBVIOUS
      <4> QED
        BY <4>1 DEF Terms
    <3>2. l.cols = n /\ r.cols = n
      BY DEF MatrixOf
    <3> HIDE DEF p, t
    <3> QED
      BY <1>2, <3>1, <3>2 DEF Entry
  <2> HIDE DEF a, b, u, t
  <2> QED
    BY <2>1, <2>2, <2>3, <2>4, WholeSums
<1>5. Times2(n, F, X)[i][j] = SumOf(0, n - 1, u)
  BY DEF Times2, Dot
<1> HIDE DEF u, t
<1>6. SumOf(0, n - 1, u) = Whole(Total(t))
  <2>1. \A k \in 1 .. n : u[0 - 1 + k] = Whole(t[k])
    <3> TAKE k \in 1 .. n
    <3>1. 0 - 1 + k \in 0 .. n - 1 /\ (0 - 1 + k) + 1 = k
      OBVIOUS
    <3> QED
      BY <1>4, <3>1
  <2>2. n \in Nat /\ 0 \in Int /\ 0 - 1 + n = n - 1
    OBVIOUS
  <2>3. SumOf(0, 0 - 1 + n, u) = Whole(Total(t))
    BY <1>3, <2>1, <2>2, WholeTotal
  <2> QED
    BY <2>2, <2>3
<1> QED
  BY <1>3, <1>5, <1>6 DEF Zero

\* What matinv_safe divides by the determinant.
LEMMA NumeratorsType ==
  ASSUME NEW n \in 1 .. 3, NEW a \in MatrixOf(n)
  PROVE  Numerators(a) \in MatrixOf(n) /\ matdet(a) \in Int
<1>1. CASE n = 1
  BY <1>1, InverseOfOne DEF MatrixOf
<1>2. CASE n = 2
  <2>1. a \in MatrixOf(2) /\ a.vals \in [0 .. 3 -> Int]
    BY <1>2 DEF MatrixOf
  <2> QED
    BY <1>2, <2>1, InverseOfTwo DEF MatrixOf
<1>3. CASE n = 3
  <2>1. a \in MatrixOf(3) /\ a.vals \in [0 .. 8 -> Int]
    BY <1>3 DEF MatrixOf
  <2> DEFINE c == Cofactors(a.vals)
  <2>2. c \in [0 .. 8 -> Int] /\ Det3(a.vals) \in Int
    BY <2>1, CofactorsAre
  <2>3. Numerators(a) = [rows |-> 3, cols |-> 3, vals |-> c] /\ matdet(a) = Det3(a.vals)
    BY <2>1, InverseOfThree
  <2> HIDE DEF c
  <2> QED
    BY <1>3, <2>2, <2>3 DEF MatrixOf
<1> QED
  BY <1>1, <1>2, <1>3

\* The numerators that matinv_safe computes up to size 3 scale the matrix to its
\* determinant, from both sides (numerical_basics.c 177-236).
LEMMA SmallScales ==
  ASSUME NEW n \in 1 .. 3, NEW a \in MatrixOf(n)
  PROVE  Scales(n, Table(FractionsOf(a)), Table(FractionsOf(Numerators(a))), Whole(matdet(a)))
<1> DEFINE m == Numerators(a)
           d == matdet(a)
<1>1. m \in MatrixOf(n) /\ d \in Int
  BY NumeratorsType
<1>2. matmul(a, m) = matsca(matidn(n), d) /\ matmul(m, a) = matsca(matidn(n), d)
  <2>1. a.rows = n
    BY DEF MatrixOf
  <2> QED
    BY <2>1, SmallInverts DEF Inverts
<1> HIDE DEF m, d
<1>3. n \in Nat \ {0} /\ a \in MatrixOf(n) /\ m \in MatrixOf(n)
  BY <1>1 DEF MatrixOf
<1>4. Table(FractionsOf(a)) \in Tab(n) /\ Table(FractionsOf(m)) \in Tab(n) /\ Whole(d) \in Frac
  BY <1>1, <1>3, FractionsOfIs, TableIs, WholeValue
<1> QED
  BY <1>1, <1>2, <1>4, WholeProduct DEF Scales, m, d

\* With an inverse, a determinant of 0 leaves no numerators.
LEMMA NoNumerators ==
  ASSUME NEW n \in 1 .. 3, NEW a \in MatrixOf(n), matdet(a) = 0,
         NEW X, IsInverse(n, Table(FractionsOf(a)), X)
  PROVE  \A pos \in 0 .. n * n - 1 : Numerators(a).vals[pos] = 0
<1> DEFINE m == Numerators(a)
           N == Table(FractionsOf(m))
<1>1. m \in MatrixOf(n)
  BY NumeratorsType
<1>2. n \in Nat \ {0} /\ m \in MatrixOf(n)
  BY <1>1 DEF MatrixOf
<1>3. Scales(n, Table(FractionsOf(a)), N, Zero)
  BY SmallScales DEF Zero
<1> HIDE DEF m
<1>4. \A i, j \in 0 .. n - 1 : N[i][j] = Zero
  BY <1>2, <1>3, ScaledByZero
<1>5. \A i, j \in 0 .. n - 1 : N[i][j] = Whole(Entry(m, i, j)) /\ Entry(m, i, j) \in Int
  BY <1>2, FractionsOfIs
<1>6. \A i, j \in 0 .. n - 1 : Entry(m, i, j) = 0
  <2> TAKE i, j \in 0 .. n - 1
  <2> DEFINE e == Entry(m, i, j)
  <2>1. Whole(e) = Whole(0) /\ e \in Int
    BY <1>4, <1>5 DEF Zero
  <2> HIDE DEF e
  <2>2. e = 0
    BY <2>1, WholeSums
  <2> QED
    BY <2>2 DEF e
<1>7. m.cols = n
  BY <1>2 DEF MatrixOf
<1>8. \A pos \in 0 .. n * n - 1 : m.vals[pos] = 0
  <2> TAKE pos \in 0 .. n * n - 1
  <2>1. /\ pos \div n \in 0 .. n - 1 /\ pos % n \in 0 .. n - 1
        /\ (pos % n) + (pos \div n) * n = pos
    BY <1>2, Cell
  <2>2. Entry(m, pos \div n, pos % n) = m.vals[pos]
    BY <1>7, <2>1 DEF Entry
  <2> QED
    BY <1>6, <2>1, <2>2
<1> QED
  BY <1>8 DEF m

\* A vector of three whole numbers.
IsThree(r, a, b, c) ==
  /\ r \in Vec(3) /\ a \in Int /\ b \in Int /\ c \in Int
  /\ r[0] = Whole(a) /\ r[1] = Whole(b) /\ r[2] = Whole(c)

\* The product of a row and a vector of three whole numbers.
LEMMA DotOfThree ==
  ASSUME NEW r, NEW a, NEW b, NEW c, NEW x, NEW u, NEW v, NEW w,
         IsThree(r, a, b, c), IsThree(x, u, v, w)
  PROVE  Dot(3, r, x, 0) = Whole(a * u + (b * v + c * w))
<1> DEFINE A == a * u
           B == b * v
           C == c * w
<1>1. /\ r \in Vec(3) /\ a \in Int /\ b \in Int /\ c \in Int
      /\ x \in Vec(3) /\ u \in Int /\ v \in Int /\ w \in Int
      /\ r[0] = Whole(a) /\ r[1] = Whole(b) /\ r[2] = Whole(c)
      /\ x[0] = Whole(u) /\ x[1] = Whole(v) /\ x[2] = Whole(w)
      /\ 3 \in Nat
  BY DEF IsThree
<1>2. Times(Whole(a), Whole(u)) = Whole(A) /\ A \in Int
  BY <1>1, WholeSums
<1>3. Times(Whole(b), Whole(v)) = Whole(B) /\ B \in Int
  BY <1>1, WholeSums
<1>4. Times(Whole(c), Whole(w)) = Whole(C) /\ C \in Int
  BY <1>1, WholeSums
<1>5. /\ 0 \in 0 .. 3 - 1 /\ 1 \in 0 .. 3 - 1 /\ 2 \in 0 .. 3 - 1
      /\ 0 + 1 = 1 /\ 1 + 1 = 2 /\ 2 + 1 = 3
  OBVIOUS
<1> HIDE DEF A, B, C
<1>6. Dot(3, r, x, 2) = Whole(C)
  <2>1. Dot(3, r, x, 3) = Zero
    BY <1>1, DotNone
  <2>2. Dot(3, r, x, 2) = Plus(Times(r[2], x[2]), Dot(3, r, x, 3))
    BY <1>1, <1>5, DotFirst
  <2> QED
    BY <1>1, <1>4, <2>1, <2>2, WholeValue, Neutral
<1>7. Dot(3, r, x, 1) = Whole(B + C) /\ B + C \in Int
  <2>1. Dot(3, r, x, 1) = Plus(Times(r[1], x[1]), Dot(3, r, x, 2))
    BY <1>1, <1>5, DotFirst
  <2> QED
    BY <1>1, <1>3, <1>4, <1>6, <2>1, WholeSums
<1>8. Dot(3, r, x, 0) = Whole(A + (B + C))
  <2>1. Dot(3, r, x, 0) = Plus(Times(r[0], x[0]), Dot(3, r, x, 1))
    BY <1>1, <1>5, DotFirst
  <2> DEFINE D == B + C
  <2>2. Dot(3, r, x, 0) = Plus(Whole(A), Whole(D)) /\ D \in Int
    BY <1>1, <1>2, <1>7, <2>1
  <2> HIDE DEF D
  <2>3. Dot(3, r, x, 0) = Whole(A + D)
    BY <1>2, <2>2, WholeSums
  <2> QED
    BY <2>3 DEF D
<1> QED
  BY <1>8 DEF A, B, C

\* What vanishes with the minors.
LEMMA MinorAlgebra ==
  ASSUME NEW x \in Int, NEW y \in Int, NEW z \in Int, NEW p \in Int, NEW q \in Int
  PROVE  /\ x * q - y * p = 0 => x * q + (y * (- p) + z * 0) = 0
         /\ x * q = 0 => x * q + (y * 0 + z * 0) = 0
<1>1. z * 0 = 0 /\ y * 0 = 0 /\ x * q \in Int /\ y * p \in Int
  OBVIOUS
<1>2. y * (- p) = - (y * p)
  OBVIOUS
<1> DEFINE a == x * q
           b == y * p
<1> HIDE DEF a, b
<1>3. a - b = 0 => a + (- b + 0) = 0
  BY <1>1 DEF a, b
<1>4. a = 0 => a + (0 + 0) = 0
  OBVIOUS
<1> QED
  BY <1>1, <1>2, <1>3, <1>4 DEF a, b

\* Where all minors of size 2 are 0, something is mapped to zero.
LEMMA MinorsZero ==
  ASSUME NEW a \in MatrixOf(3), NEW F, F = Table(FractionsOf(a)),
         \A pos \in 0 .. 8 : Cofactors(a.vals)[pos] = 0
  PROVE  HasKernel(3, F) \/ HasZeroRow(3, F)
<1> DEFINE v == a.vals
           p == v[0]
           q == v[1]
           r == v[2]
<1>1. v \in [0 .. 8 -> Int] /\ a.cols = 3 /\ a \in MatrixOf(3) /\ 3 \in Nat \ {0}
  BY DEF MatrixOf
<1>2. \A i, j \in 0 .. 2 : F[i][j] = Whole(v[j + i * 3])
  <2>1. \A i, j \in 0 .. 3 - 1 : F[i][j] = Whole(Entry(a, i, j))
    BY <1>1, FractionsOfIs
  <2>2. \A i, j \in 0 .. 2 : Entry(a, i, j) = v[j + i * 3] /\ i \in 0 .. 3 - 1 /\ j \in 0 .. 3 - 1
    BY <1>1 DEF Entry
  <2> QED
    BY <2>1, <2>2
<1>3. F \in Tab(3)
  BY <1>1, FractionsOfIs, TableIs
<1>4. \A pos \in 0 .. 8 : v[pos] \in Int
  BY <1>1
<1>5. /\ v[4] * v[8] - v[5] * v[7] = 0 /\ v[2] * v[7] - v[1] * v[8] = 0
      /\ v[1] * v[5] - v[4] * v[2] = 0 /\ v[6] * v[5] - v[3] * v[8] = 0
      /\ v[0] * v[8] - v[6] * v[2] = 0 /\ v[3] * v[2] - v[0] * v[5] = 0
      /\ v[3] * v[7] - v[6] * v[4] = 0 /\ v[6] * v[1] - v[0] * v[7] = 0
      /\ v[0] * v[4] - v[1] * v[3] = 0
  <2> DEFINE c == Cofactors(v)
  <2>1. /\ c[0] = 0 /\ c[1] = 0 /\ c[2] = 0 /\ c[3] = 0 /\ c[4] = 0
        /\ c[5] = 0 /\ c[6] = 0 /\ c[7] = 0 /\ c[8] = 0
    OBVIOUS
  <2> QED
    BY <2>1 DEF Cofactors
<1>6. CASE p = 0 /\ q = 0 /\ r = 0
  <2>1. \A j \in 0 .. 3 - 1 : F[0][j] = Zero
    <3> TAKE j \in 0 .. 3 - 1
    <3>1. F[0][j] = Whole(v[j])
      <4>1. 0 \in 0 .. 2 /\ j \in 0 .. 2 /\ j + 0 * 3 = j
        OBVIOUS
      <4> QED
        BY <1>2, <4>1
    <3>2. v[j] = 0
      <4>1. j = 0 \/ j = 1 \/ j = 2
        OBVIOUS
      <4> QED
        BY <1>6, <4>1
    <3> QED
      BY <3>1, <3>2 DEF Zero
  <2> QED
    BY <2>1 DEF HasZeroRow
<1>7. ASSUME NEW x \in Int, NEW y \in Int, NEW z \in Int, x # 0 \/ y # 0 \/ z # 0,
             v[0] * x + (v[1] * y + v[2] * z) = 0,
             v[3] * x + (v[4] * y + v[5] * z) = 0,
             v[6] * x + (v[7] * y + v[8] * z) = 0
      PROVE  HasKernel(3, F)
  <2> DEFINE w == [i \in 0 .. 2 |-> Whole(IF i = 0 THEN x ELSE IF i = 1 THEN y ELSE z)]
  <2>1. w[0] = Whole(x) /\ w[1] = Whole(y) /\ w[2] = Whole(z)
    OBVIOUS
  <2>2. w \in Vec(3)
    <3>1. \A i \in 0 .. 2 : w[i] \in Frac
      BY WholeValue
    <3> QED
      BY <3>1 DEF Vec
  <2> HIDE DEF w
  <2>3. \A i \in 0 .. 2 : Dot(3, F[i], w, 0) = Zero
    <3> TAKE i \in 0 .. 2
    <3> DEFINE f == F[i]
               s == v[0 + i * 3]
               t == v[1 + i * 3]
               u == v[2 + i * 3]
    <3>1. f[0] = Whole(s) /\ f[1] = Whole(t) /\ f[2] = Whole(u)
      <4>1. 0 \in 0 .. 2 /\ 1 \in 0 .. 2 /\ 2 \in 0 .. 2
        OBVIOUS
      <4> QED
        BY <1>2, <4>1
    <3>2. s \in Int /\ t \in Int /\ u \in Int
      BY <1>4
    <3>3. s * x + (t * y + u * z) = 0
      <4>1. i = 0 \/ i = 1 \/ i = 2
        OBVIOUS
      <4>2. /\ 0 + 0 * 3 = 0 /\ 1 + 0 * 3 = 1 /\ 2 + 0 * 3 = 2
            /\ 0 + 1 * 3 = 3 /\ 1 + 1 * 3 = 4 /\ 2 + 1 * 3 = 5
            /\ 0 + 2 * 3 = 6 /\ 1 + 2 * 3 = 7 /\ 2 + 2 * 3 = 8
        OBVIOUS
      <4>3. CASE i = 0
        BY <1>7, <4>2, <4>3
      <4>4. CASE i = 1
        BY <1>7, <4>2, <4>4
      <4>5. CASE i = 2
        BY <1>7, <4>2, <4>5
      <4> QED
        BY <4>1, <4>3, <4>4, <4>5
    <3>4. f \in Vec(3)
      BY <1>3, TabRows
    <3> HIDE DEF f, s, t, u, v
    <3>5. IsThree(f, s, t, u) /\ IsThree(w, x, y, z)
      BY <1>7, <2>1, <2>2, <3>1, <3>2, <3>4 DEF IsThree
    <3>6. Dot(3, f, w, 0) = Whole(s * x + (t * y + u * z))
      BY <3>5, DotOfThree
    <3> QED
      BY <3>3, <3>6 DEF Zero, f
  <2>4. Image(3, F, w) = [i \in 0 .. 3 - 1 |-> Zero]
    BY <2>3 DEF Image
  <2>5. \E j \in 0 .. 3 - 1 : w[j] # Zero
    <3>1. w[0] # Zero \/ w[1] # Zero \/ w[2] # Zero
      BY <1>7, <2>1 DEF Zero, Whole
    <3> QED
      BY <3>1
  <2> QED
    BY <2>2, <2>4, <2>5 DEF HasKernel
<1>8. /\ v[0] \in Int /\ v[1] \in Int /\ v[2] \in Int /\ v[3] \in Int /\ v[4] \in Int
      /\ v[5] \in Int /\ v[6] \in Int /\ v[7] \in Int /\ v[8] \in Int
  BY <1>4
<1>9. CASE p # 0 \/ q # 0
  <2>1. q \in Int /\ - p \in Int /\ 0 \in Int
    BY <1>8
  <2>2. v[0] * q - v[1] * p = 0 /\ v[3] * q - v[4] * p = 0 /\ v[6] * q - v[7] * p = 0
    <3> DEFINE d == v[0]
               e == v[1]
               f == v[3]
               g == v[4]
               h == v[6]
               k == v[7]
    <3>1. d * g - e * f = 0 /\ h * e - d * k = 0
      BY <1>5
    <3>2. d \in Int /\ e \in Int /\ f \in Int /\ g \in Int /\ h \in Int /\ k \in Int
      BY <1>8
    <3> HIDE DEF d, e, f, g, h, k, v
    <3>3. d * e - e * d = 0 /\ f * e - g * d = 0 /\ h * e - k * d = 0
      BY <3>1, <3>2
    <3> QED
      BY <3>3 DEF d, e, f, g, h, k
  <2>3. q # 0 \/ - p # 0 \/ 0 # 0
    BY <1>8, <1>9
  <2>4. p \in Int
    BY <1>8
  <2> HIDE DEF v, p, q
  <2>5. v[0] * q + (v[1] * (- p) + v[2] * 0) = 0
    <3> DEFINE x == v[0]
               y == v[1]
               z == v[2]
    <3>1. x \in Int /\ y \in Int /\ z \in Int /\ x * q - y * p = 0
      BY <1>8, <2>2
    <3> HIDE DEF x, y, z
    <3>2. x * q + (y * (- p) + z * 0) = 0
      BY <2>1, <2>4, <3>1, MinorAlgebra
    <3> QED
      BY <3>2 DEF x, y, z
  <2>6. v[3] * q + (v[4] * (- p) + v[5] * 0) = 0
    <3> DEFINE x == v[3]
               y == v[4]
               z == v[5]
    <3>1. x \in Int /\ y \in Int /\ z \in Int /\ x * q - y * p = 0
      BY <1>8, <2>2
    <3> HIDE DEF x, y, z
    <3>2. x * q + (y * (- p) + z * 0) = 0
      BY <2>1, <2>4, <3>1, MinorAlgebra
    <3> QED
      BY <3>2 DEF x, y, z
  <2>7. v[6] * q + (v[7] * (- p) + v[8] * 0) = 0
    <3> DEFINE x == v[6]
               y == v[7]
               z == v[8]
    <3>1. x \in Int /\ y \in Int /\ z \in Int /\ x * q - y * p = 0
      BY <1>8, <2>2
    <3> HIDE DEF x, y, z
    <3>2. x * q + (y * (- p) + z * 0) = 0
      BY <2>1, <2>4, <3>1, MinorAlgebra
    <3> QED
      BY <3>2 DEF x, y, z
  <2> QED
    BY <1>7, <2>1, <2>3, <2>5, <2>6, <2>7
<1>10. CASE p = 0 /\ q = 0 /\ r # 0
  <2>1. r \in Int /\ 0 \in Int
    BY <1>8
  <2>2. v[0] * r = 0 /\ v[3] * r = 0 /\ v[6] * r = 0
    <3> DEFINE d == v[0]
               e == v[2]
               f == v[3]
               g == v[5]
               h == v[6]
               k == v[8]
    <3>1. f * e - d * g = 0 /\ d * k - h * e = 0 /\ d = 0
      BY <1>5, <1>10
    <3>2. d \in Int /\ e \in Int /\ f \in Int /\ g \in Int /\ h \in Int /\ k \in Int
      BY <1>8
    <3> HIDE DEF d, e, f, g, h, k, v
    <3>3. d * e = 0 /\ f * e = 0 /\ h * e = 0
      BY <3>1, <3>2
    <3> QED
      BY <3>3 DEF d, e, f, g, h, k
  <2> HIDE DEF v, r
  <2>3. v[0] * r + (v[1] * 0 + v[2] * 0) = 0
    BY <1>8, <2>1, <2>2, MinorAlgebra
  <2>4. v[3] * r + (v[4] * 0 + v[5] * 0) = 0
    BY <1>8, <2>1, <2>2, MinorAlgebra
  <2>5. v[6] * r + (v[7] * 0 + v[8] * 0) = 0
    BY <1>8, <2>1, <2>2, MinorAlgebra
  <2> QED
    BY <1>7, <1>10, <2>1, <2>3, <2>4, <2>5
<1> QED
  BY <1>6, <1>9, <1>10

\* The closed form and the decomposition refuse the same matrices.
LEMMA SameRefusals ==
  ASSUME NEW n \in 1 .. 3, NEW a \in MatrixOf(n)
  PROVE  matinv_safe(a) = Singular <=> matinv_default(a) = Singular
<1> DEFINE F == Table(FractionsOf(a))
<1>1. n \in Nat \ {0} /\ a \in MatrixOf(n)
  BY DEF MatrixOf
<1>2. F \in Tab(n)
  BY <1>1, FractionsOfIs, TableIs
<1>3. matdet(a) \in Int
  BY NumeratorsType
<1>4. matinv_safe(a) = Singular <=> matdet(a) = 0
  <2> DEFINE r == [num |-> Numerators(a), div |-> matdet(a)]
  <2>1. "div" \in DOMAIN r /\ "div" \notin DOMAIN Singular
    BY DEF Singular
  <2>2. r # Singular
    <3> HIDE DEF r
    <3> QED
      BY <2>1
  <2>3. matinv_safe(a) = IF matdet(a) = 0 THEN Singular ELSE r
    BY DEF matinv_safe
  <2> HIDE DEF r
  <2> QED
    BY <2>2, <2>3
<1>5. ASSUME matdet(a) # 0
      PROVE  \E X : IsInverse(n, F, X)
  <2> DEFINE d == matdet(a)
             N == Table(FractionsOf(Numerators(a)))
  <2>1. Scales(n, F, N, Whole(d))
    BY SmallScales
  <2>2. d \in Int /\ d # 0
    BY <1>3, <1>5
  <2> HIDE DEF d, N, F
  <2>3. Whole(d) # Zero
    BY <2>2 DEF Zero, Whole
  <2> QED
    BY <1>1, <2>1, <2>3, ScaledHasInverse
<1>6. ASSUME matdet(a) = 0, NEW X, IsInverse(n, F, X)
      PROVE  FALSE
  <2>1. \A pos \in 0 .. n * n - 1 : Numerators(a).vals[pos] = 0
    BY <1>6, NoNumerators
  <2>2. ~ HasZeroRow(n, F) /\ ~ HasKernel(n, F)
    BY <1>1, <1>2, <1>6, NoInverse
  <2>3. CASE n = 1
    <3>1. Numerators(a) = [rows |-> 1, cols |-> 1, vals |-> [pos \in 0 .. 0 |-> 1]]
      BY <2>3, InverseOfOne
    <3>2. 0 \in 0 .. n * n - 1
      BY <2>3
    <3> QED
      BY <2>1, <3>1, <3>2
  <2>4. CASE n = 2
    <3> DEFINE v == a.vals
    <3>1. v \in [0 .. 3 -> Int] /\ a.cols = 2 /\ a \in MatrixOf(2)
      BY <2>4 DEF MatrixOf
    <3>2. v[1] = 0 /\ v[0] = 0
      <4>1. Numerators(a).vals = [pos \in 0 .. 3 |-> CASE pos = 0 -> a.vals[3]
                                                     [] pos = 1 -> - a.vals[1]
                                                     [] pos = 2 -> - a.vals[2]
                                                     [] pos = 3 -> a.vals[0]]
        BY <3>1, InverseOfTwo
      <4>2. Numerators(a).vals[1] = 0 /\ Numerators(a).vals[3] = 0
        BY <2>1, <2>4
      <4>3. Numerators(a).vals[1] = - v[1] /\ Numerators(a).vals[3] = v[0]
        BY <4>1
      <4>4. v[1] \in Int
        BY <3>1
      <4> HIDE DEF v
      <4> QED
        BY <4>2, <4>3, <4>4
    <3>3. \A j \in 0 .. n - 1 : F[0][j] = Zero
      <4> TAKE j \in 0 .. n - 1
      <4>1. F[0][j] = Whole(Entry(a, 0, j))
        BY <1>1, <2>4, FractionsOfIs
      <4>2. j = 0 \/ j = 1
        BY <2>4
      <4>3. Entry(a, 0, j) = v[j]
        <5>1. j + 0 * 2 = j
          OBVIOUS
        <5> QED
          BY <3>1, <5>1 DEF Entry
      <4> HIDE DEF F, v
      <4> QED
        BY <3>2, <4>1, <4>2, <4>3 DEF Zero
    <3>4. 0 \in 0 .. n - 1
      BY <2>4
    <3> QED
      BY <2>2, <3>3, <3>4 DEF HasZeroRow
  <2>5. CASE n = 3
    <3>1. a \in MatrixOf(3)
      BY <2>5
    <3>2. \A pos \in 0 .. 8 : Cofactors(a.vals)[pos] = 0
      <4>1. Numerators(a) = [rows |-> 3, cols |-> 3, vals |-> Cofactors(a.vals)]
        BY <3>1, InverseOfThree
      <4>2. Numerators(a).vals = Cofactors(a.vals)
        BY <4>1
      <4> QED
        BY <2>1, <2>5, <4>2
    <3>3. HasKernel(3, F) \/ HasZeroRow(3, F)
      BY <3>1, <3>2, MinorsZero
    <3> QED
      BY <2>2, <2>5, <3>3
  <2> QED
    BY <2>3, <2>4, <2>5
<1>7. matinv_default(a) = Singular <=> ~ \E X : IsInverse(n, F, X)
  BY <1>1, RefusedIsSingular
<1> HIDE DEF F
<1> QED
  BY <1>4, <1>5, <1>6, <1>7

-----------------------------------------------------------------------------
(* The calls of the decomposition.                                          *)

\* The matrices it is called with.
LEMMA LargeIs ==
  ASSUME RoutinesInv, IsLarge, result # Nothing
  PROVE  /\ input.large.rows \in Nat \ {0}
         /\ input.large \in MatrixOf(input.large.rows)
         /\ result.inverse = matinv_default(input.large)
<1> DEFINE a == input.large
<1>1. input \in [large : LargeMatrices \cup Matrices]
  BY DEF RoutinesInv, IsLarge
<1>2. result = [inverse |-> matinv_default(a), det |-> matdet_default(a)]
  BY DEF RoutinesInv, Called
<1>3. a \in LargeMatrices \/ a \in Matrices
  BY <1>1
<1> HIDE DEF a
<1>4. CASE a \in LargeMatrices
  BY <1>2, <1>4, RoutinesAssumption DEF MatrixOf, a
<1>5. CASE a \in Matrices
  <2>1. PICK k \in 1 .. 3 : a \in Square(k)
    BY <1>5 DEF Matrices
  <2>2. \A f \in [0 .. k * k - 1 -> Entries] : f \in [0 .. k * k - 1 -> Int]
    BY RoutinesAssumption
  <2>3. a \in MatrixOf(k) /\ a.rows = k
    BY <2>1, <2>2 DEF Square, MatrixOf
  <2> QED
    BY <1>2, <2>3 DEF a
<1> QED
  BY <1>3, <1>4, <1>5

\* What the decomposition of an integer matrix of any size solves for is an
\* inverse from both sides, whatever rows were exchanged on the way, and where
\* there is a closed form the two refuse the same (numerical_basics.c 177-378).
THEOREM DecompositionsInvert == RoutinesSpec => []DecompositionInverts
<1>1. RoutinesInv => DecompositionInverts
  <2> SUFFICES ASSUME RoutinesInv, IsLarge, result # Nothing
               PROVE  /\ input.large.rows <= 3 =>
                           (matinv_safe(input.large) = Singular <=> result.inverse = Singular)
                      /\ result.inverse # Singular =>
                           /\ Product(FractionsOf(input.large), result.inverse)
                                = FractionsOf(matidn(input.large.rows))
                           /\ Product(result.inverse, FractionsOf(input.large))
                                = FractionsOf(matidn(input.large.rows))
    BY DEF DecompositionInverts
  <2> DEFINE a == input.large
             n == a.rows
             inv == result.inverse
  <2>1. n \in Nat \ {0} /\ a \in MatrixOf(n) /\ inv = matinv_default(a)
    BY LargeIs DEF MatrixOf
  <2> HIDE DEF a, n, inv
  <2>2. n <= 3 => (matinv_safe(a) = Singular <=> inv = Singular)
    <3>1. n <= 3 => n \in 1 .. 3
      BY <2>1
    <3> QED
      BY <2>1, <3>1, SameRefusals
  <2>3. ASSUME inv # Singular
        PROVE  /\ Product(FractionsOf(a), inv) = FractionsOf(matidn(n))
               /\ Product(inv, FractionsOf(a)) = FractionsOf(matidn(n))
    <3>1. inv \in FracMat(n) /\ IsInverse(n, Table(FractionsOf(a)), Table(inv))
      BY <2>1, <2>3, MatinvDefaultIs
    <3>2. FractionsOf(a) \in FracMat(n)
      BY <2>1, FractionsOfIs
    <3> QED
      BY <2>1, <3>1, <3>2, InverseAsProducts
  <2> QED
    BY <2>2, <2>3 DEF a, n, inv
<1> QED
  BY <1>1, RoutinesInvHolds, PTL

\* A matrix has an inverse over the fractions.
Invertible(a) == \E X : IsInverse(a.rows, Table(FractionsOf(a)), X)

\* The decomposition never gives up on a matrix that has an inverse, however
\* its rows are scaled and ordered (numerical_basics.c 276-340).
THEOREM RefusesOnlySingular ==
  RoutinesSpec => [](IsLarge /\ result # Nothing =>
                       (result.inverse = Singular <=> ~ Invertible(input.large)))
<1>1. RoutinesInv => (IsLarge /\ result # Nothing =>
                        (result.inverse = Singular <=> ~ Invertible(input.large)))
  <2> SUFFICES ASSUME RoutinesInv, IsLarge, result # Nothing
               PROVE  result.inverse = Singular <=> ~ Invertible(input.large)
    OBVIOUS
  <2> DEFINE a == input.large
             n == a.rows
  <2>1. n \in Nat \ {0} /\ a \in MatrixOf(n) /\ result.inverse = matinv_default(a)
    BY LargeIs DEF MatrixOf
  <2> HIDE DEF a, n
  <2>2. matinv_default(a) = Singular <=> ~ \E X : IsInverse(n, Table(FractionsOf(a)), X)
    BY <2>1, RefusedIsSingular
  <2> QED
    BY <2>1, <2>2 DEF Invertible, a, n
<1> QED
  BY <1>1, RoutinesInvHolds, PTL

\* The determinant that the decomposition gives is 0 exactly for the matrices
\* that have no inverse (numerical_basics.c 276-340, 397-449).
THEOREM DeterminantTellsSingular ==
  RoutinesSpec => [](IsLarge /\ result # Nothing =>
                       (result.det = Zero <=> ~ Invertible(input.large)))
<1>1. RoutinesInv => (IsLarge /\ result # Nothing =>
                        (result.det = Zero <=> ~ Invertible(input.large)))
  <2> SUFFICES ASSUME RoutinesInv, IsLarge, result # Nothing
               PROVE  result.det = Zero <=> ~ Invertible(input.large)
    OBVIOUS
  <2> DEFINE a == input.large
             n == a.rows
  <2>1. n \in Nat \ {0} /\ a \in MatrixOf(n)
    BY LargeIs
  <2>2. result.det = matdet_default(a)
    BY DEF RoutinesInv, Called
  <2> HIDE DEF a, n
  <2>3. matinv_default(a) = Singular <=> ~ \E X : IsInverse(n, Table(FractionsOf(a)), X)
    BY <2>1, RefusedIsSingular
  <2>4. matdet_default(a) = Zero <=> matinv_default(a) = Singular
    BY <2>1, DeterminantIsZero
  <2> QED
    BY <2>2, <2>3, <2>4 DEF Invertible, a, n
<1> QED
  BY <1>1, RoutinesInvHolds, PTL

-----------------------------------------------------------------------------
(* The generic fit.                                                         *)

\* The powers of a number multiply.
LEMMA PowerSum ==
  ASSUME NEW x \in Int, NEW i \in Nat
  PROVE  \A m \in Nat : Power(x, i + m) = Power(x, i) * Power(x, m)
<1> DEFINE S == {m \in Nat : Power(x, i + m) = Power(x, i) * Power(x, m)}
<1>1. \A e \in Nat : Power(x, e) \in Int
  BY PowerIsInt
<1>2. 0 \in S
  <2>1. i + 0 = i /\ Power(x, 0) = 1 /\ Power(x, i) * 1 = Power(x, i)
    BY <1>1, PowerStep
  <2> QED
    BY <2>1
<1>3. ASSUME NEW m \in Nat, m \in S
      PROVE  m + 1 \in S
  <2> DEFINE p == Power(x, i)
             q == Power(x, m)
  <2>1. i + (m + 1) = (i + m) + 1 /\ i + m \in Nat /\ m + 1 \in Nat
    OBVIOUS
  <2>2. Power(x, (i + m) + 1) = Power(x, i + m) * x /\ Power(x, m + 1) = q * x
    BY <2>1, PowerStep
  <2>3. Power(x, i + m) = p * q /\ p \in Int /\ q \in Int
    BY <1>1, <1>3
  <2> HIDE DEF p, q
  <2>4. (p * q) * x = p * (q * x)
    BY <2>3
  <2>5. Power(x, i + (m + 1)) = p * Power(x, m + 1)
    BY <2>1, <2>2, <2>3, <2>4
  <2> QED
    BY <2>1, <2>5 DEF p
<1> HIDE DEF S
<1>4. \A m \in Nat : m \in S
  BY <1>2, <1>3, ForAllNumbers
<1> QED
  BY <1>4 DEF S

\* The matrix of the normal equations and their right-hand side, for a fit
\* with s coefficients.
LEMMA NormalIs ==
  ASSUME NEW n \in Nat, NEW s, s = n + 1, NEW N \in Nat, NEW ps \in Points(N)
  PROVE  /\ s \in Nat \ {0} /\ NormalEquations(ps, n) \in MatrixOf(s)
         /\ \A i, j \in 0 .. s - 1 :
              Table(FractionsOf(NormalEquations(ps, n)))[i][j] = Whole(Total(Pow(ps, i + j)))
         /\ \A i \in 0 .. s - 1 : Entry(RightHandSide(ps, n), i, 0) = Total(Mom(ps, i))
<1> DEFINE eq == NormalEquations(ps, n)
           ac == RightHandSide(ps, n)
<1>1. s \in Nat \ {0}
  OBVIOUS
<1>2. eq = [rows |-> s, cols |-> s,
            vals |-> [pos \in 0 .. s * s - 1 |-> Total(Pow(ps, (pos \div s) + (pos % s)))]]
  BY DEF NormalEquations, Mat, SumOver, Pow
<1>3. ac = [rows |-> s, cols |-> 1,
            vals |-> [pos \in 0 .. s * 1 - 1 |-> Total(Mom(ps, pos \div 1))]]
  BY DEF RightHandSide, Mat, SumOver, Mom
<1> HIDE DEF eq, ac
<1>4. \A pos \in 0 .. s * s - 1 : Total(Pow(ps, (pos \div s) + (pos % s))) \in Int
  <2> TAKE pos \in 0 .. s * s - 1
  <2>1. pos \div s \in 0 .. s - 1 /\ pos % s \in 0 .. s - 1
    BY <1>1, Cell
  <2>2. (pos \div s) + (pos % s) \in Nat
    BY <1>1, <2>1
  <2> QED
    BY <2>2, PowersAre
<1>5. eq \in MatrixOf(s)
  BY <1>2, <1>4 DEF MatrixOf
<1>6. ASSUME NEW i \in 0 .. s - 1, NEW j \in 0 .. s - 1
      PROVE  Table(FractionsOf(eq))[i][j] = Whole(Total(Pow(ps, i + j)))
  <2>1. j + i * s \in 0 .. s * s - 1 /\ (j + i * s) \div s = i /\ (j + i * s) % s = j
    BY <1>1, Cell
  <2>2. Entry(eq, i, j) = Total(Pow(ps, i + j))
    <3>1. eq.cols = s
      BY <1>2
    <3>2. eq.vals[j + i * s] = Total(Pow(ps, ((j + i * s) \div s) + ((j + i * s) % s)))
      BY <1>2, <2>1
    <3> QED
      BY <2>1, <3>1, <3>2 DEF Entry
  <2>3. Table(FractionsOf(eq))[i][j] = Whole(Entry(eq, i, j))
    BY <1>1, <1>5, FractionsOfIs
  <2> QED
    BY <2>2, <2>3
<1>7. ASSUME NEW i \in 0 .. s - 1
      PROVE  Entry(ac, i, 0) = Total(Mom(ps, i))
  <2>1. 0 + i * 1 = i /\ i \div 1 = i /\ i \in 0 .. s * 1 - 1
    BY <1>1
  <2>2. ac.vals[i] = Total(Mom(ps, i \div 1)) /\ ac.cols = 1
    BY <1>3, <2>1
  <2> QED
    BY <2>1, <2>2 DEF Entry
<1> QED
  BY <1>1, <1>5, <1>6, <1>7 DEF eq, ac

\* Right-hand side as fractions.
Moments(ps, s) == [i \in 0 .. s - 1 |-> Whole(Total(Mom(ps, i)))]

\* The coefficients solve the equations.
LEMMA GenericSolves ==
  ASSUME NEW n \in Nat, NEW s, s = n + 1, NEW N \in Nat, NEW ps \in Points(N),
         NEW F, F = Table(FractionsOf(NormalEquations(ps, n))),
         generic_filter(ps, n) # Singular
  PROVE  /\ F \in Tab(s) /\ generic_filter(ps, n) \in Vec(s)
         /\ Image(s, F, generic_filter(ps, n)) = Moments(ps, s)
<1> DEFINE eq == NormalEquations(ps, n)
           ac == RightHandSide(ps, n)
           ei == matinv_default(eq)
           a == generic_filter(ps, n)
           b == Moments(ps, s)
           X == Table(ei)
<1>1. s \in Nat \ {0} /\ eq \in MatrixOf(s)
  BY NormalIs
<1>2. ei # Singular /\ a = [i \in 0 .. n |-> Coefficient(ei, ac, i)]
  BY DEF generic_filter
<1>3. \A i \in 0 .. s - 1 : Entry(ac, i, 0) = Total(Mom(ps, i))
  BY NormalIs
<1> HIDE DEF eq, ei, ac, a
<1>4. F \in Tab(s)
  BY <1>1, FractionsOfIs, TableIs DEF eq
<1>5. ei \in FracMat(s) /\ IsInverse(s, F, X)
  BY <1>1, <1>2, MatinvDefaultIs DEF ei, eq
<1>6. /\ X \in Tab(s) /\ ei.rows = s /\ Rows(ei) = 0 .. s - 1
      /\ \A i, j \in 0 .. s - 1 : X[i][j] = Entry(ei, i, j)
  BY <1>1, <1>5, TableIs
<1>7. b \in Vec(s)
  <2>1. \A i \in 0 .. s - 1 : Total(Mom(ps, i)) \in Int
    BY <1>1, PowersAre
  <2>2. \A i \in 0 .. s - 1 : Whole(Total(Mom(ps, i))) \in Frac
    <3> TAKE i \in 0 .. s - 1
    <3> DEFINE t == Total(Mom(ps, i))
    <3>1. t \in Int
      BY <2>1
    <3> HIDE DEF t
    <3>2. Whole(t) \in Frac
      BY <3>1, WholeValue
    <3> QED
      BY <3>2 DEF t
  <2> QED
    BY <2>2 DEF Vec, Moments
<1>8. a = Image(s, X, b)
  <2>1. 0 .. n = 0 .. s - 1
    BY <1>1
  <2>2. \A i \in 0 .. s - 1 : Coefficient(ei, ac, i) = Dot(s, X[i], b, 0)
    <3> TAKE i \in 0 .. s - 1
    <3> DEFINE f == [k \in 0 .. s - 1 |-> Times(Entry(ei, i, k), Whole(Entry(ac, k, 0)))]
               g == [k \in 0 .. s - 1 |-> Times(X[i][k], b[k])]
    <3>1. Coefficient(ei, ac, i) = SumOf(0, s - 1, f)
      <4> DEFINE R == Rows(ei)
                 r == ei.rows
      <4>1. Coefficient(ei, ac, i)
              = SumOf(0, r - 1, [k \in R |-> Times(Entry(ei, i, k), Whole(Entry(ac, k, 0)))])
        BY DEF Coefficient
      <4>2. R = 0 .. s - 1 /\ r = s
        BY <1>6
      <4> HIDE DEF R, r
      <4> QED
        BY <4>1, <4>2
    <3>2. \A k \in 0 .. s - 1 : b[k] = Whole(Entry(ac, k, 0)) /\ X[i][k] = Entry(ei, i, k)
      BY <1>3, <1>6 DEF Moments
    <3>3. f = g
      <4> HIDE DEF X, b
      <4> QED
        BY <3>2
    <3>4. Dot(s, X[i], b, 0) = SumOf(0, s - 1, g)
      BY DEF Dot
    <3> HIDE DEF f, g, X, b
    <3> QED
      BY <3>1, <3>3, <3>4
  <2> HIDE DEF X, b
  <2> QED
    BY <1>2, <2>1, <2>2 DEF Image
<1>9. Image(s, F, a) = b
  <2> HIDE DEF X, b
  <2>1. Image(s, F, Image(s, X, b)) = Image(s, Times2(s, F, X), b)
    BY <1>1, <1>4, <1>6, <1>7, ImageOfImage
  <2>2. Image(s, Identity(s), b) = b
    BY <1>1, <1>7, ImageOfIdentity
  <2> QED
    BY <1>5, <1>8, <2>1, <2>2 DEF IsInverse
<1>10. a \in Vec(s)
  <2>1. s \in Nat
    BY <1>1
  <2> HIDE DEF X, b
  <2> QED
    BY <1>6, <1>7, <1>8, <2>1, ImageType
<1> QED
  BY <1>4, <1>9, <1>10 DEF a, b

\* The part of a point that the polynomial with coefficients a accounts for,
\* coefficient by coefficient, times a power of x.
IsRest(n, a, p, m, u) ==
  /\ n \in Nat /\ m \in Nat /\ a \in [0 .. n -> Frac] /\ p.x \in Int /\ p.y \in Int
  /\ \A k \in 0 .. n : u[k] = Times(a[k], Whole(Power(p.x, k + m)))

\* What the polynomial leaves of one point and what it accounts for are the
\* point, times a power of x.
LEMMA RemainderAndRest ==
  ASSUME NEW n, NEW a, NEW p, NEW m, NEW u, IsRest(n, a, p, m, u)
  PROVE  /\ Times(Remainder(p, a, n), Whole(Power(p.x, m))) \in Frac
         /\ SumOf(0, n, u) \in Frac /\ \A k \in 0 .. n : u[k] \in Frac
         /\ Plus(Times(Remainder(p, a, n), Whole(Power(p.x, m))), SumOf(0, n, u))
              = Whole(p.y * Power(p.x, m))
<1> DEFINE x == p.x
           y == p.y
           W == Whole(Power(x, m))
           t == [k \in 0 .. n |-> Times(a[k], Whole(Power(x, k)))]
           P == SumOf(0, n, t)
           R == Remainder(p, a, n)
<1>0. /\ n \in Nat /\ m \in Nat /\ a \in [0 .. n -> Frac]
      /\ \A k \in 0 .. n : u[k] = Times(a[k], Whole(Power(x, k + m)))
  BY DEF IsRest
<1>1. R = Minus(Whole(y), P)
  BY DEF Remainder
<1>2. x \in Int /\ y \in Int
  BY DEF IsRest
<1> HIDE DEF x, y, R
<1>3. \A e \in Nat : Power(x, e) \in Int /\ Whole(Power(x, e)) \in Frac
  <2> TAKE e \in Nat
  <2> DEFINE w == Power(x, e)
  <2>1. w \in Int
    BY <1>2, PowerIsInt
  <2> HIDE DEF w
  <2>2. Whole(w) \in Frac
    BY <2>1, WholeValue
  <2> QED
    BY <2>1, <2>2 DEF w
<1>4. W \in Frac /\ Whole(y) \in Frac
  BY <1>0, <1>2, <1>3, WholeValue
<1>5. ASSUME NEW k \in 0 .. n
      PROVE  t[k] \in Frac /\ u[k] \in Frac /\ u[k] = Times(W, t[k])
  <2> DEFINE c == a[k]
             v == Power(x, k)
             w == Power(x, m)
  <2>1. k \in Nat /\ k + m \in Nat /\ m \in Nat
    BY <1>0
  <2>2. c \in Frac /\ v \in Int /\ w \in Int /\ Whole(v) \in Frac /\ Whole(w) \in Frac
    BY <1>0, <1>3, <2>1
  <2>3. Power(x, k + m) = v * w
    BY <1>2, <2>1, PowerSum
  <2>4. t[k] = Times(c, Whole(v)) /\ u[k] = Times(c, Whole(v * w))
    BY <1>0, <2>3
  <2>5. W = Whole(w)
    OBVIOUS
  <2> HIDE DEF c, v, w, t, W
  <2>6. Times(Whole(v), Whole(w)) = Whole(v * w)
    BY <2>2, WholeSums
  <2>7. Times(Times(c, Whole(v)), Whole(w)) = Times(c, Times(Whole(v), Whole(w)))
    BY <2>2, TimesAssoc
  <2>8. t[k] \in Frac
    BY <2>2, <2>4, Closed
  <2>9. Times(t[k], Whole(w)) = Times(Whole(w), t[k]) /\ Times(t[k], Whole(w)) \in Frac
    BY <2>2, <2>8, TimesComm, Closed
  <2> QED
    BY <2>4, <2>5, <2>6, <2>7, <2>8, <2>9
<1> HIDE DEF t, W
<1>7. Bounds(0, n) /\ Addends(t, 0, n) /\ Addends(u, 0, n)
  BY <1>0, <1>5 DEF Bounds, Addends
<1>8. P \in Frac /\ SumOf(0, n, u) = Times(W, P)
  BY <1>4, <1>5, <1>7, SumTimes
<1>9. SumOf(0, n, u) \in Frac
  BY <1>7, SumType
<1> HIDE DEF P
<1>10. R \in Frac /\ Plus(R, P) = Whole(y)
  BY <1>1, <1>4, <1>8, Closed, MinusPlus
<1>11. Times(W, Plus(R, P)) = Plus(Times(W, R), Times(W, P))
  BY <1>4, <1>8, <1>10, Distributive
<1>12. Times(W, R) = Times(R, W) /\ Times(R, W) \in Frac
  BY <1>4, <1>10, TimesComm, Closed
<1>13. Times(W, Whole(y)) = Whole(y * Power(x, m))
  <2> DEFINE w == Power(x, m)
  <2>1. w \in Int /\ W = Whole(w)
    BY <1>0, <1>3 DEF W
  <2> HIDE DEF w
  <2>2. Times(Whole(w), Whole(y)) = Whole(w * y)
    BY <1>2, <2>1, WholeSums
  <2>3. w * y = y * w
    BY <1>2, <2>1
  <2> QED
    BY <2>1, <2>2, <2>3 DEF w
<1>14. Plus(Times(R, W), SumOf(0, n, u)) = Whole(y * Power(x, m))
  BY <1>8, <1>10, <1>11, <1>12, <1>13
<1> QED
  BY <1>5, <1>9, <1>12, <1>14 DEF W, R, x, y

\* The sum of the sums of rows is that of the sums of columns.
LEMMA SumOfRows ==
  ASSUME NEW lo, NEW hi, NEW p, NEW q, NEW G, Bounds(p, q), Bounds(lo, hi),
         \A i \in lo .. hi, j \in p .. q : G[i][j] \in Frac,
         NEW r, \A i \in lo .. hi : r[i] = Row(G, i, p, q),
         NEW c, \A j \in p .. q : c[j] = Col(G, j, lo, hi)
  PROVE  SumOf(lo, hi, r) = SumOf(p, q, c)
<1> DEFINE R == [i \in lo .. hi |-> Row(G, i, p, q)]
           C == [j \in p .. q |-> Col(G, j, lo, hi)]
<1>1. SumOf(lo, hi, R) = SumOf(p, q, C)
  BY SumExchange
<1>2. (\A i \in lo .. hi : r[i] = R[i]) /\ (\A j \in p .. q : c[j] = C[j])
  OBVIOUS
<1> HIDE DEF R, C
<1>3. SumOf(lo, hi, r) = SumOf(lo, hi, R) /\ SumOf(p, q, c) = SumOf(p, q, C)
  BY <1>2, SumSame
<1> QED
  BY <1>1, <1>3

\* What a solution of the equations leaves is orthogonal to the powers of x.
LEMMA RemaindersOrthogonal ==
  ASSUME NEW n \in Nat, NEW s, s = n + 1, NEW N \in Nat, NEW ps \in Points(N),
         NEW F, F = Table(FractionsOf(NormalEquations(ps, n))),
         NEW a \in Vec(s), Image(s, F, a) = Moments(ps, s), NEW m \in 0 .. n
  PROVE  SumOf(1, N, [i \in 1 .. N |-> Times(Remainder(ps[i], a, n),
                                             Whole(Power(ps[i].x, m)))]) = Zero
<1> DEFINE r == [i \in 1 .. N |-> Times(Remainder(ps[i], a, n), Whole(Power(ps[i].x, m)))]
           G == [i \in 1 .. N |-> [k \in 0 .. n |-> Times(a[k], Whole(Power(ps[i].x, k + m)))]]
           rows == [i \in 1 .. N |-> Row(G, i, 0, n)]
           cols == [j \in 0 .. n |-> Col(G, j, 1, N)]
           mom == [i \in 1 .. N |-> Whole(Mom(ps, m)[i])]
           M == Whole(Total(Mom(ps, m)))
<1>1. /\ s \in Nat \ {0} /\ s - 1 = n /\ m \in 0 .. s - 1 /\ m \in Nat
      /\ a \in [0 .. n -> Frac]
  BY DEF Vec
<1>2. DOMAIN ps = 1 .. N /\ \A i \in 1 .. N : ps[i].x \in Int /\ ps[i].y \in Int
  BY DEF Points
<1>3. ASSUME NEW i \in 1 .. N
      PROVE  /\ r[i] \in Frac /\ rows[i] \in Frac /\ mom[i] = Plus(r[i], rows[i])
             /\ \A k \in 0 .. n : G[i][k] \in Frac
  <2> DEFINE p == ps[i]
             u == [k \in 0 .. n |-> Times(a[k], Whole(Power(p.x, k + m)))]
  <2>1. p.x \in Int /\ p.y \in Int
    BY <1>2
  <2>2. /\ r[i] = Times(Remainder(p, a, n), Whole(Power(p.x, m)))
        /\ mom[i] = Whole(p.y * Power(p.x, m))
    BY <1>2 DEF Mom
  <2>3. rows[i] = SumOf(0, n, u) /\ G[i] = u
    <3>1. G[i] = u
      OBVIOUS
    <3>2. rows[i] = SumOf(0, n, [k \in 0 .. n |-> G[i][k]])
      BY DEF Row
    <3>3. [k \in 0 .. n |-> G[i][k]] = u
      <4> HIDE DEF G
      <4>1. \A k \in 0 .. n : G[i][k] = u[k]
        BY <3>1
      <4> QED
        BY <4>1
    <3> HIDE DEF G, u, rows
    <3> QED
      BY <3>1, <3>2, <3>3
  <2>4. \A k \in 0 .. n : u[k] = Times(a[k], Whole(Power(p.x, k + m)))
    OBVIOUS
  <2> HIDE DEF p, r, mom, G, rows, u
  <2>6. IsRest(n, a, p, m, u)
    BY <1>1, <2>1, <2>4 DEF IsRest
  <2>5. /\ Times(Remainder(p, a, n), Whole(Power(p.x, m))) \in Frac
        /\ SumOf(0, n, u) \in Frac /\ \A k \in 0 .. n : u[k] \in Frac
        /\ Plus(Times(Remainder(p, a, n), Whole(Power(p.x, m))), SumOf(0, n, u))
             = Whole(p.y * Power(p.x, m))
    BY <2>6, RemainderAndRest
  <2> QED
    BY <2>2, <2>3, <2>5
<1>4. SumOf(1, N, mom) = M
  <2> DEFINE t == Mom(ps, m)
  <2>1. t \in [1 .. N -> Int]
    BY <1>1, PowersAre
  <2>2. \A k \in 1 .. N : mom[1 - 1 + k] = Whole(t[k])
    <3> TAKE k \in 1 .. N
    <3>1. 1 - 1 + k = k
      OBVIOUS
    <3>2. mom[k] = Whole(t[k])
      OBVIOUS
    <3> QED
      BY <3>1, <3>2
  <2>3. 1 \in Int /\ 1 - 1 + N = N
    OBVIOUS
  <2> HIDE DEF t, mom
  <2>4. SumOf(1, 1 - 1 + N, mom) = Whole(Total(t))
    BY <2>1, <2>2, <2>3, WholeTotal
  <2> QED
    BY <2>3, <2>4 DEF t
<1>5. SumOf(0, n, cols) = M
  <2> DEFINE f == [k \in 0 .. n |-> Times(F[m][k], a[k])]
  <2>1. Dot(s, F[m], a, 0) = SumOf(0, n, f)
    BY <1>1 DEF Dot
  <2>2. Dot(s, F[m], a, 0) = M
    <3>1. Image(s, F, a)[m] = Dot(s, F[m], a, 0)
      BY <1>1 DEF Image
    <3>2. Moments(ps, s)[m] = M
      BY <1>1 DEF Moments
    <3> QED
      BY <3>1, <3>2
  <2>3. ASSUME NEW k \in 0 .. n
        PROVE  cols[k] = f[k]
    <3> DEFINE c == a[k]
               t == Pow(ps, k + m)
               w == [i \in 1 .. N |-> Whole(t[i])]
               g == [i \in 1 .. N |-> G[i][k]]
    <3>1. k + m \in Nat /\ m + k = k + m /\ k \in 0 .. s - 1 /\ c \in Frac
      BY <1>1
    <3>2. t \in [1 .. N -> Int]
      BY <3>1, PowersAre
    <3>3. cols[k] = SumOf(1, N, g)
      BY DEF Col
    <3>4. \A i \in 1 .. N : g[i] = Times(c, w[i])
      <4> TAKE i \in 1 .. N
      <4>1. g[i] = Times(a[k], Whole(Power(ps[i].x, k + m)))
        OBVIOUS
      <4>2. t[i] = Power(ps[i].x, k + m)
        BY <1>2 DEF Pow
      <4>3. w[i] = Whole(t[i])
        OBVIOUS
      <4> HIDE DEF w, g, t
      <4> QED
        BY <4>1, <4>2, <4>3
    <3>5. \A i \in 1 .. N : w[i] = Whole(t[i]) /\ w[1 - 1 + i] = Whole(t[i]) /\ t[i] \in Int
      <4> TAKE i \in 1 .. N
      <4>1. 1 - 1 + i = i
        OBVIOUS
      <4>2. w[i] = Whole(t[i])
        OBVIOUS
      <4> HIDE DEF t, w
      <4> QED
        BY <3>2, <4>1, <4>2
    <3>6. F[m][k] = Whole(Total(t))
      <4>1. F[m][k] = Whole(Total(Pow(ps, m + k)))
        BY <1>1, <3>1, NormalIs
      <4> QED
        BY <3>1, <4>1
    <3>7. f[k] = Times(F[m][k], c)
      OBVIOUS
    <3> HIDE DEF c, t, w, g, cols, f
    <3>8. SumOf(1, 1 - 1 + N, w) = Whole(Total(t))
      <4>1. \A i \in 1 .. N : w[1 - 1 + i] = Whole(t[i])
        BY <3>5
      <4>2. 1 \in Int
        OBVIOUS
      <4> QED
        BY <3>2, <4>1, <4>2, WholeTotal
    <3>9. Bounds(1, N) /\ Addends(w, 1, N) /\ 1 - 1 + N = N
      <4>1. \A i \in 1 .. N : w[i] \in Frac
        <5> TAKE i \in 1 .. N
        <5> DEFINE e == t[i]
        <5>1. e \in Int /\ w[i] = Whole(e)
          BY <3>5
        <5> HIDE DEF e
        <5> QED
          BY <5>1, WholeValue
      <4> QED
        BY <4>1 DEF Bounds, Addends
    <3>10. SumOf(1, N, g) = Times(c, SumOf(1, N, w)) /\ SumOf(1, N, w) \in Frac
      BY <3>1, <3>4, <3>9, SumTimes
    <3> DEFINE W == SumOf(1, N, w)
    <3>11. W = F[m][k] /\ W \in Frac /\ cols[k] = Times(c, W)
      BY <3>3, <3>6, <3>8, <3>9, <3>10
    <3> HIDE DEF W
    <3>12. Times(c, W) = Times(W, c)
      BY <3>1, <3>11, TimesComm
    <3> QED
      BY <3>7, <3>11, <3>12
  <2> HIDE DEF cols, f
  <2>4. SumOf(0, n, cols) = SumOf(0, n, f)
    <3>1. Bounds(0, n)
      BY DEF Bounds
    <3> QED
      BY <2>3, <3>1, SumSame
  <2> QED
    BY <2>1, <2>2, <2>4
<1>6. SumOf(1, N, rows) = SumOf(0, n, cols)
  <2>1. Bounds(0, n) /\ Bounds(1, N)
    BY DEF Bounds
  <2>2. \A i \in 1 .. N, j \in 0 .. n : G[i][j] \in Frac
    BY <1>3
  <2>3. /\ \A i \in 1 .. N : rows[i] = Row(G, i, 0, n)
        /\ \A j \in 0 .. n : cols[j] = Col(G, j, 1, N)
    OBVIOUS
  <2> HIDE DEF G, rows, cols
  <2> QED
    BY <2>1, <2>2, <2>3, SumOfRows, Z3
<1> HIDE DEF r, G, rows, cols, mom
<1>7. Bounds(1, N) /\ Addends(r, 1, N) /\ Addends(rows, 1, N)
  BY <1>3 DEF Bounds, Addends
<1>8. /\ SumOf(1, N, r) \in Frac /\ SumOf(1, N, rows) \in Frac
      /\ SumOf(1, N, mom) = Plus(SumOf(1, N, r), SumOf(1, N, rows))
  <2>1. \A i \in 1 .. N : mom[i] = Plus(r[i], rows[i])
    BY <1>3
  <2> QED
    BY <1>7, <2>1, SumPlus
<1> DEFINE S == SumOf(1, N, r)
<1>9. S \in Frac /\ M \in Frac /\ Plus(S, M) = M
  BY <1>4, <1>5, <1>6, <1>8
<1> HIDE DEF S, M
<1>10. Plus(Zero, M) = M
  BY <1>9, Neutral
<1>11. S = Zero
  BY <1>9, <1>10, Constants, PlusCancel
<1> QED
  BY <1>11 DEF S, r

-----------------------------------------------------------------------------
(* Cubics: when there is one through the places that is 0 at all of them.   *)

Cubics == [0 .. 3 -> Int]
CubicAt(c, x) == c[0] + c[1] * x + c[2] * (x * x) + c[3] * (x * x * x)
NotNull(c) == c[0] # 0 \/ c[1] # 0 \/ c[2] # 0 \/ c[3] # 0

\* A row of the equations with c for the coefficients.
RowAt(ps, c, m) ==
  c[0] * Total(Pow(ps, m)) + c[1] * Total(Pow(ps, m + 1))
    + c[2] * Total(Pow(ps, m + 2)) + c[3] * Total(Pow(ps, m + 3))

\* The values of a cubic times a power of x.
ValuesAt(ps, c, m) == [i \in DOMAIN ps |-> CubicAt(c, ps[i].x) * Power(ps[i].x, m)]

\* A cubic times a number, term by term.
LEMMA CubicTerms ==
  ASSUME NEW c0 \in Int, NEW c1 \in Int, NEW c2 \in Int, NEW c3 \in Int,
         NEW x \in Int, NEW p \in Int
  PROVE  (c0 + c1 * x + c2 * (x * x) + c3 * (x * x * x)) * p =
           c0 * p + c1 * (p * x) + c2 * ((p * x) * x) + c3 * (((p * x) * x) * x)
OBVIOUS

\* A cubic has integer coefficients and values.
LEMMA CubicType ==
  ASSUME NEW c \in Cubics, NEW x \in Int
  PROVE  /\ c[0] \in Int /\ c[1] \in Int /\ c[2] \in Int /\ c[3] \in Int
         /\ CubicAt(c, x) \in Int
<1>1. c[0] \in Int /\ c[1] \in Int /\ c[2] \in Int /\ c[3] \in Int
  BY DEF Cubics
<1>2. x * x \in Int /\ x * x * x \in Int
  OBVIOUS
<1>3. \A a, b \in Int : a * b \in Int /\ a + b \in Int
  OBVIOUS
<1>4. c[1] * x \in Int /\ c[2] * (x * x) \in Int /\ c[3] * (x * x * x) \in Int
  BY <1>1, <1>2, <1>3
<1> QED
  BY <1>1, <1>4 DEF CubicAt

\* The values of a cubic times a power, summed up, are a row of the equations.
LEMMA ValuesAre ==
  ASSUME NEW N \in Nat, NEW ps \in Points(N), NEW c \in Cubics, NEW m \in Nat
  PROVE  /\ ValuesAt(ps, c, m) \in [1 .. N -> Int]
         /\ Total(ValuesAt(ps, c, m)) = RowAt(ps, c, m)
<1> DEFINE t == ValuesAt(ps, c, m)
           f == Pow(ps, m)
           g == Pow(ps, m + 1)
           h == Pow(ps, m + 2)
           e == Pow(ps, m + 3)
<1>1. DOMAIN ps = 1 .. N /\ \A i \in 1 .. N : ps[i].x \in Int
  BY DEF Points
<1>2. /\ m + 1 \in Nat /\ m + 2 \in Nat /\ m + 3 \in Nat
      /\ m + 2 = (m + 1) + 1 /\ m + 3 = (m + 2) + 1
  OBVIOUS
<1>3. f \in [1 .. N -> Int] /\ g \in [1 .. N -> Int] /\ h \in [1 .. N -> Int] /\ e \in [1 .. N -> Int]
  BY <1>2, PowersAre
<1>4. c[0] \in Int /\ c[1] \in Int /\ c[2] \in Int /\ c[3] \in Int
  BY DEF Cubics
<1>5. ASSUME NEW i \in 1 .. N
      PROVE  t[i] \in Int /\ t[i] = c[0] * f[i] + c[1] * g[i] + c[2] * h[i] + c[3] * e[i]
  <2> DEFINE x == ps[i].x
             p == Power(x, m)
             v == CubicAt(c, x)
  <2>1. x \in Int
    BY <1>1
  <2>2. t[i] = v * p /\ f[i] = p
    BY <1>1 DEF ValuesAt, Pow
  <2>3. g[i] = Power(x, m + 1) /\ h[i] = Power(x, m + 2) /\ e[i] = Power(x, m + 3)
    BY <1>1 DEF Pow
  <2> HIDE DEF x, t, f, g, h, e
  <2>4. Power(x, m + 1) = p * x /\ Power(x, m + 2) = Power(x, m + 1) * x
        /\ Power(x, m + 3) = Power(x, m + 2) * x
    BY <1>2, PowerStep
  <2>5. p \in Int /\ v \in Int
    BY <2>1, PowerIsInt, CubicType
  <2>6. v = c[0] + c[1] * x + c[2] * (x * x) + c[3] * (x * x * x)
    BY DEF CubicAt
  <2> HIDE DEF p, v
  <2> DEFINE c0 == c[0]
             c1 == c[1]
             c2 == c[2]
             c3 == c[3]
  <2>7. c0 \in Int /\ c1 \in Int /\ c2 \in Int /\ c3 \in Int
    BY <1>4
  <2>8. v = c0 + c1 * x + c2 * (x * x) + c3 * (x * x * x)
    BY <2>6
  <2> HIDE DEF c0, c1, c2, c3
  <2>9. (c0 + c1 * x + c2 * (x * x) + c3 * (x * x * x)) * p =
          c0 * p + c1 * (p * x) + c2 * ((p * x) * x) + c3 * (((p * x) * x) * x)
    BY <2>1, <2>5, <2>7, CubicTerms
  <2>10. g[i] = p * x /\ h[i] = (p * x) * x /\ e[i] = ((p * x) * x) * x
    BY <2>3, <2>4
  <2>11. v * p = c0 * f[i] + c1 * g[i] + c2 * h[i] + c3 * e[i]
    BY <2>2, <2>8, <2>9, <2>10
  <2>12. v * p \in Int
    BY <2>5
  <2> QED
    BY <2>2, <2>11, <2>12 DEF c0, c1, c2, c3
<1>6. t \in [1 .. N -> Int]
  BY <1>1, <1>5 DEF ValuesAt
<1> HIDE DEF t, f, g, h, e
<1>7. Combined(N, t, c[0], f, c[1], g, c[2], h, c[3], e)
  BY <1>3, <1>4, <1>5, <1>6 DEF Combined
<1>8. Total(t) = c[0] * Total(f) + c[1] * Total(g) + c[2] * Total(h) + c[3] * Total(e)
  BY <1>7, TotalCombines
<1> QED
  BY <1>6, <1>8 DEF t, f, g, h, e, RowAt

\* The equations with 0 on the right hold of the cubics that are 0 at every
\* place: the sum of the squares of what they are there is 0.
LEMMA NullRows ==
  ASSUME NEW N \in Nat, NEW ps \in Points(N), NEW c \in Cubics
  PROVE  (\A m \in 0 .. 3 : RowAt(ps, c, m) = 0)
           <=> \A i \in 1 .. N : CubicAt(c, ps[i].x) = 0
<1>1. DOMAIN ps = 1 .. N /\ \A i \in 1 .. N : ps[i].x \in Int
  BY DEF Points
<1>2. ASSUME \A i \in 1 .. N : CubicAt(c, ps[i].x) = 0, NEW m \in 0 .. 3
      PROVE  RowAt(ps, c, m) = 0
  <2> DEFINE t == ValuesAt(ps, c, m)
  <2>1. \A i \in 1 .. N : t[i] = 0
    <3> TAKE i \in 1 .. N
    <3>1. t[i] = CubicAt(c, ps[i].x) * Power(ps[i].x, m)
      BY <1>1 DEF ValuesAt
    <3>2. Power(ps[i].x, m) \in Int
      <4> DEFINE x == ps[i].x
      <4>1. x \in Int /\ m \in Nat
        BY <1>1
      <4> HIDE DEF x
      <4>2. Power(x, m) \in Int
        BY <4>1, PowerIsInt
      <4> QED
        BY <4>2 DEF x
    <3> HIDE DEF t
    <3> QED
      BY <1>2, <3>1, <3>2
  <2>2. t \in [1 .. N -> Int] /\ Total(t) = RowAt(ps, c, m)
    BY ValuesAre
  <2> HIDE DEF t
  <2>3. OfBoth(N, t, 0, t, 0, t)
    BY <2>1, <2>2 DEF OfBoth
  <2>4. Total(t) = 0 * Total(t) + 0 * Total(t) /\ Total(t) \in Int
    BY <2>2, <2>3, TotalOfBoth, TotalIsInt
  <2>5. Total(t) = 0
    BY <2>4
  <2> QED
    BY <2>2, <2>5
<1>3. ASSUME \A m \in 0 .. 3 : RowAt(ps, c, m) = 0
      PROVE  \A i \in 1 .. N : CubicAt(c, ps[i].x) = 0
  <2> DEFINE f == ValuesAt(ps, c, 0)
             g == ValuesAt(ps, c, 1)
             h == ValuesAt(ps, c, 2)
             e == ValuesAt(ps, c, 3)
             q == [i \in 1 .. N |-> CubicAt(c, ps[i].x) * CubicAt(c, ps[i].x)]
  <2>1. /\ f \in [1 .. N -> Int] /\ g \in [1 .. N -> Int]
        /\ h \in [1 .. N -> Int] /\ e \in [1 .. N -> Int]
        /\ Total(f) = 0 /\ Total(g) = 0 /\ Total(h) = 0 /\ Total(e) = 0
    BY <1>3, ValuesAre
  <2>2. c[0] \in Int /\ c[1] \in Int /\ c[2] \in Int /\ c[3] \in Int
    BY DEF Cubics
  <2>3. ASSUME NEW i \in 1 .. N
        PROVE  /\ q[i] \in Int /\ q[i] >= 0 /\ (q[i] = 0 => CubicAt(c, ps[i].x) = 0)
               /\ q[i] = c[0] * f[i] + c[1] * g[i] + c[2] * h[i] + c[3] * e[i]
    <3> DEFINE x == ps[i].x
               v == CubicAt(c, x)
               c0 == c[0]
               c1 == c[1]
               c2 == c[2]
               c3 == c[3]
    <3>1. x \in Int
      BY <1>1
    <3>2. /\ q[i] = v * v /\ f[i] = v * Power(x, 0) /\ g[i] = v * Power(x, 1)
          /\ h[i] = v * Power(x, 2) /\ e[i] = v * Power(x, 3)
      BY <1>1 DEF ValuesAt
    <3>3. v = c0 + c1 * x + c2 * (x * x) + c3 * (x * x * x)
      BY DEF CubicAt
    <3>4. c0 \in Int /\ c1 \in Int /\ c2 \in Int /\ c3 \in Int
      BY <2>2
    <3> HIDE DEF x, q, f, g, h, e, c0, c1, c2, c3
    <3>5. v \in Int
      BY <3>1, CubicType
    <3>6. Power(x, 0) = 1 /\ Power(x, 1) = x /\ Power(x, 2) = x * x
      BY <3>1, LowPowers
    <3>7. Power(x, 3) = (x * x) * x
      <4>1. 2 \in Nat /\ 2 + 1 = 3
        OBVIOUS
      <4> QED
        BY <3>6, <4>1, PowerStep
    <3> HIDE DEF v
    <3>8. f[i] = v /\ g[i] = v * x /\ h[i] = (v * x) * x /\ e[i] = ((v * x) * x) * x
      <4>1. v * 1 = v /\ v * (x * x) = (v * x) * x /\ v * ((x * x) * x) = ((v * x) * x) * x
        BY <3>1, <3>5
      <4> QED
        BY <3>2, <3>6, <3>7, <4>1
    <3>9. (c0 + c1 * x + c2 * (x * x) + c3 * (x * x * x)) * v =
            c0 * v + c1 * (v * x) + c2 * ((v * x) * x) + c3 * (((v * x) * x) * x)
      BY <3>1, <3>4, <3>5, CubicTerms
    <3>10. v * v = c0 * f[i] + c1 * g[i] + c2 * h[i] + c3 * e[i]
      BY <3>3, <3>8, <3>9
    <3>11. v * v \in Int /\ v * v >= 0 /\ (v * v = 0 => v = 0)
      BY <3>5, Squares
    <3> QED
      BY <3>2, <3>10, <3>11 DEF v, x, c0, c1, c2, c3
  <2>4. q \in [1 .. N -> Int] /\ \A i \in 1 .. N : q[i] >= 0
    BY <2>3
  <2> HIDE DEF q, f, g, h, e
  <2>5. Combined(N, q, c[0], f, c[1], g, c[2], h, c[3], e)
    BY <2>1, <2>2, <2>3, <2>4 DEF Combined
  <2>6. Total(q) = c[0] * 0 + c[1] * 0 + c[2] * 0 + c[3] * 0
    BY <2>1, <2>5, TotalCombines
  <2>7. Total(q) = 0
    BY <2>2, <2>6
  <2> QED
    BY <2>3, <2>4, <2>7, TotalOfNone
<1> QED
  BY <1>2, <1>3

-----------------------------------------------------------------------------
(* Four places.                                                             *)

\* A cubic that is 0 at four places is 0 everywhere.
LEMMA FourRoots ==
  ASSUME NEW c \in Cubics, NEW x \in Int, NEW y \in Int, NEW z \in Int, NEW w \in Int,
         x # y, x # z, x # w, y # z, y # w, z # w,
         CubicAt(c, x) = 0, CubicAt(c, y) = 0, CubicAt(c, z) = 0, CubicAt(c, w) = 0
  PROVE  ~ NotNull(c)
<1> DEFINE a == c[0]
           b == c[1]
           d == c[2]
           e == c[3]
           First(u, v) == b + d * (u + v) + e * (u * u + u * v + v * v)
           Second(u, v, t) == d + e * (u + v + t)
<1>1. a \in Int /\ b \in Int /\ d \in Int /\ e \in Int
  BY DEF Cubics
<1>2. \A u, v \in Int : u * v = 0 => u = 0 \/ v = 0
  OBVIOUS
<1>3. \A u \in Int : CubicAt(c, u) = a + b * u + d * (u * u) + e * (u * u * u)
  BY DEF CubicAt
<1> HIDE DEF a, b, d, e
<1>4. ASSUME NEW u \in Int, NEW v \in Int, u # v, CubicAt(c, u) = 0, CubicAt(c, v) = 0
      PROVE  First(u, v) = 0
  <2>1. (v - u) * First(u, v)
          = (a + b * v + d * (v * v) + e * (v * v * v)) - (a + b * u + d * (u * u) + e * (u * u * u))
    BY <1>1
  <2>2. (v - u) * First(u, v) = 0
    BY <1>3, <1>4, <2>1
  <2>3. v - u \in Int /\ v - u # 0 /\ First(u, v) \in Int
    BY <1>1, <1>4
  <2> HIDE DEF First
  <2> QED
    BY <1>2, <2>2, <2>3
<1>5. ASSUME NEW u \in Int, NEW v \in Int, NEW t \in Int, v # t,
             First(u, v) = 0, First(u, t) = 0
      PROVE  Second(u, v, t) = 0
  <2>1. (t - v) * Second(u, v, t) = First(u, t) - First(u, v)
    BY <1>1
  <2>2. (t - v) * Second(u, v, t) = 0
    BY <1>5, <2>1
  <2>3. t - v \in Int /\ t - v # 0 /\ Second(u, v, t) \in Int
    BY <1>1, <1>5
  <2> HIDE DEF Second, First
  <2> QED
    BY <1>2, <2>2, <2>3
<1>6. First(x, y) = 0 /\ First(x, z) = 0 /\ First(x, w) = 0
  <2> HIDE DEF First
  <2> QED
    BY <1>4
<1>7. Second(x, y, z) = 0 /\ Second(x, y, w) = 0
  <2> HIDE DEF First, Second
  <2> QED
    BY <1>5, <1>6
<1>8. e = 0
  <2>1. (w - z) * e = Second(x, y, w) - Second(x, y, z)
    BY <1>1
  <2>2. (w - z) * e = 0
    BY <1>7, <2>1
  <2>3. w - z \in Int /\ w - z # 0
    OBVIOUS
  <2> QED
    BY <1>1, <1>2, <2>2, <2>3
<1>9. d = 0
  <2>1. 0 * (x + y + z) = 0
    OBVIOUS
  <2> QED
    BY <1>1, <1>7, <1>8, <2>1
<1>10. b = 0
  <2>1. 0 * (x + y) = 0 /\ 0 * (x * x + x * y + y * y) = 0
    OBVIOUS
  <2> QED
    BY <1>1, <1>6, <1>8, <1>9, <2>1
<1>11. a = 0
  <2>1. a + b * x + d * (x * x) + e * (x * x * x) = 0
    BY <1>3
  <2>2. 0 * x = 0 /\ 0 * (x * x) = 0 /\ 0 * (x * x * x) = 0
    OBVIOUS
  <2> QED
    BY <1>1, <1>8, <1>9, <1>10, <2>1, <2>2
<1> QED
  BY <1>8, <1>9, <1>10, <1>11 DEF NotNull, a, b, d, e

\* The cubic that is 0 at three places.
LEMMA ThreeRoots ==
  ASSUME NEW p \in Int, NEW q \in Int, NEW r \in Int
  PROVE  \E c \in Cubics : /\ NotNull(c)
                           /\ \A x \in Int : x = p \/ x = q \/ x = r => CubicAt(c, x) = 0
<1> DEFINE a == - (p * q * r)
           b == p * q + p * r + q * r
           d == - (p + q + r)
           c == [i \in 0 .. 3 |-> IF i = 0 THEN a ELSE IF i = 1 THEN b ELSE IF i = 2 THEN d ELSE 1]
<1>1. p * q \in Int /\ p * r \in Int /\ q * r \in Int /\ p * q * r \in Int
  OBVIOUS
<1>2. a \in Int /\ b \in Int /\ d \in Int
  BY <1>1
<1>3. c[0] = a /\ c[1] = b /\ c[2] = d /\ c[3] = 1
  OBVIOUS
<1>4. c \in Cubics
  <2> HIDE DEF a, b, d
  <2> QED
    BY <1>2 DEF Cubics
<1>5. NotNull(c)
  BY <1>3 DEF NotNull
<1>6. ASSUME NEW x \in Int, x = p \/ x = q \/ x = r
      PROVE  CubicAt(c, x) = 0
  <2>1. CubicAt(c, x) = a + b * x + d * (x * x) + 1 * (x * x * x)
    <3> HIDE DEF a, b, d, c
    <3> QED
      BY <1>3 DEF CubicAt
  <2> HIDE DEF c
  <2>2. CASE x = p
    <3>1. (- (p * q * r)) + (p * q + p * r + q * r) * p + (- (p + q + r)) * (p * p) + 1 * (p * p * p) = 0
      OBVIOUS
    <3> QED
      BY <2>1, <2>2, <3>1
  <2>3. CASE x = q
    <3>1. (- (p * q * r)) + (p * q + p * r + q * r) * q + (- (p + q + r)) * (q * q) + 1 * (q * q * q) = 0
      OBVIOUS
    <3> QED
      BY <2>1, <2>3, <3>1
  <2>4. CASE x = r
    <3>1. (- (p * q * r)) + (p * q + p * r + q * r) * r + (- (p + q + r)) * (r * r) + 1 * (r * r * r) = 0
      OBVIOUS
    <3> QED
      BY <2>1, <2>4, <3>1
  <2> QED
    BY <1>6, <2>2, <2>3, <2>4
<1> QED
  BY <1>4, <1>5, <1>6

\* Points at four places, and points at no more than three.
Apart(ps, i, j, k, l) ==
  /\ ps[i].x # ps[j].x /\ ps[i].x # ps[k].x /\ ps[i].x # ps[l].x
  /\ ps[j].x # ps[k].x /\ ps[j].x # ps[l].x /\ ps[k].x # ps[l].x
Covered(ps, N, p, q, r) ==
  \A i \in 1 .. N : ps[i].x = p \/ ps[i].x = q \/ ps[i].x = r

\* The points are at more than three places when four of them are apart, and
\* otherwise three numbers cover them.
LEMMA FourOrThree ==
  ASSUME NEW N \in Nat, NEW ps \in Points(N)
  PROVE  \/ /\ ~ (Places(ps) <= 3)
            /\ \E i, j, k, l \in 1 .. N : Apart(ps, i, j, k, l)
         \/ /\ Places(ps) <= 3
            /\ \E p, q, r \in Int : Covered(ps, N, p, q, r)
<1> DEFINE S == {ps[i].x : i \in 1 .. N}
           f == [i \in 1 .. N |-> ps[i].x]
<1>1. Places(ps) = Cardinality(S)
  BY DEF Places, Points
<1>2. f \in Surjection(1 .. N, S)
  BY DEF Surjection
<1>3. IsFiniteSet(S)
  <2>1. IsFiniteSet(1 .. N)
    BY FS_Interval
  <2> HIDE DEF S, f
  <2> QED
    BY <1>2, <2>1, FS_Surjection
<1>4. \A i \in 1 .. N : ps[i].x \in Int /\ ps[i].x \in S
  BY DEF Points
<1>5. Cardinality(S) \in Nat
  BY <1>3, FS_CardinalityType
<1> HIDE DEF S
<1>6. ASSUME NEW p, NEW q, NEW r
      PROVE  /\ IsFiniteSet({p} \cup {q} \cup {r}) /\ Cardinality({p} \cup {q} \cup {r}) \in 1 .. 3
             /\ p # q /\ p # r /\ q # r => Cardinality({p} \cup {q} \cup {r}) = 3
  <2>1. IsFiniteSet({p}) /\ Cardinality({p}) = 1
    BY FS_Singleton
  <2>2. /\ IsFiniteSet({p} \cup {q})
        /\ Cardinality({p} \cup {q}) = IF q \in {p} THEN 1 ELSE 1 + 1
    BY <2>1, FS_AddElement
  <2> DEFINE D == {p} \cup {q}
  <2>3. IsFiniteSet(D) /\ Cardinality(D) \in 1 .. 2 /\ (p # q => Cardinality(D) = 2)
    <3>1. q \in {p} <=> p = q
      OBVIOUS
    <3> QED
      BY <2>2, <3>1
  <2>4. p # r /\ q # r => r \notin D
    OBVIOUS
  <2> HIDE DEF D
  <2>5. /\ IsFiniteSet(D \cup {r})
        /\ Cardinality(D \cup {r}) = IF r \in D THEN Cardinality(D) ELSE Cardinality(D) + 1
    BY <2>3, FS_AddElement
  <2>6. Cardinality(D \cup {r}) \in 1 .. 3 /\ (p # q /\ p # r /\ q # r => Cardinality(D \cup {r}) = 3)
    BY <2>3, <2>4, <2>5
  <2> QED
    BY <2>5, <2>6 DEF D
<1>7. CASE \E i, j, k, l \in 1 .. N : Apart(ps, i, j, k, l)
  <2>0. PICK i, j, k, l \in 1 .. N : Apart(ps, i, j, k, l)
    BY <1>7
  <2>1. /\ ps[i].x # ps[j].x /\ ps[i].x # ps[k].x /\ ps[i].x # ps[l].x
        /\ ps[j].x # ps[k].x /\ ps[j].x # ps[l].x /\ ps[k].x # ps[l].x
    BY <2>0 DEF Apart
  <2> DEFINE D == {ps[i].x} \cup {ps[j].x} \cup {ps[k].x}
             w == ps[l].x
  <2>2. IsFiniteSet(D) /\ Cardinality(D) = 3
    <3> DEFINE p == ps[i].x
               q == ps[j].x
               r == ps[k].x
    <3>1. p # q /\ p # r /\ q # r
      BY <2>1
    <3>2. D = {p} \cup {q} \cup {r}
      OBVIOUS
    <3> HIDE DEF p, q, r, D
    <3> QED
      BY <1>6, <3>1, <3>2
  <2>3. w \notin D /\ D \cup {w} \in SUBSET S
    BY <1>4, <2>1
  <2> HIDE DEF D, w
  <2>4. /\ IsFiniteSet(D \cup {w})
        /\ Cardinality(D \cup {w}) = IF w \in D THEN Cardinality(D) ELSE Cardinality(D) + 1
    BY <2>2, FS_AddElement
  <2>5. Cardinality(D \cup {w}) = 4
    BY <2>2, <2>3, <2>4
  <2>6. Cardinality(D \cup {w}) <= Cardinality(S)
    BY <1>3, <2>3, FS_Subset
  <2>7. ~ (Cardinality(S) <= 3)
    BY <1>5, <2>5, <2>6
  <2> QED
    BY <1>1, <1>7, <2>7
<1>8. ASSUME NEW p \in Int, NEW q \in Int, NEW r \in Int,
             Covered(ps, N, p, q, r)
      PROVE  Places(ps) <= 3
  <2> DEFINE D == {p} \cup {q} \cup {r}
  <2>1. S \in SUBSET D
    BY <1>8 DEF S, Covered
  <2>2. IsFiniteSet(D) /\ Cardinality(D) \in 1 .. 3
    BY <1>6
  <2> HIDE DEF D
  <2>3. Cardinality(S) <= Cardinality(D)
    BY <2>1, <2>2, FS_Subset
  <2> QED
    BY <1>1, <1>5, <2>2, <2>3
<1>9. CASE ~ \E i, j, k, l \in 1 .. N : Apart(ps, i, j, k, l)
  <2>1. CASE \E p, q, r \in Int : Covered(ps, N, p, q, r)
    BY <1>8, <2>1
  <2>2. ASSUME \A p, q, r \in Int : ~ Covered(ps, N, p, q, r)
        PROVE  FALSE
    <3>1. PICK i \in 1 .. N : TRUE
      <4>1. ~ Covered(ps, N, 0, 0, 0)
        BY <2>2
      <4> QED
        BY <4>1 DEF Covered
    <3>2. PICK j \in 1 .. N : ps[j].x # ps[i].x
      <4>1. ~ Covered(ps, N, ps[i].x, ps[i].x, ps[i].x)
        BY <1>4, <2>2
      <4> QED
        BY <4>1 DEF Covered
    <3>3. PICK k \in 1 .. N : ps[k].x # ps[i].x /\ ps[k].x # ps[j].x
      <4>1. ~ Covered(ps, N, ps[i].x, ps[j].x, ps[j].x)
        BY <1>4, <2>2
      <4> QED
        BY <4>1 DEF Covered
    <3>4. PICK l \in 1 .. N : ps[l].x # ps[i].x /\ ps[l].x # ps[j].x /\ ps[l].x # ps[k].x
      <4>1. ~ Covered(ps, N, ps[i].x, ps[j].x, ps[k].x)
        BY <1>4, <2>2
      <4> QED
        BY <4>1 DEF Covered
    <3> QED
      BY <1>9, <3>2, <3>3, <3>4 DEF Apart
  <2> QED
    BY <2>1, <2>2
<1> QED
  BY <1>7, <1>9

-----------------------------------------------------------------------------
(* What the equations of a cubic map to zero.                               *)

\* A vector of four whole numbers.
IsFour(r, t) == r \in Vec(4) /\ t \in Cubics /\ \A j \in 0 .. 3 : r[j] = Whole(t[j])

\* The product of a row and a vector of four whole numbers.
LEMMA DotOfFour ==
  ASSUME NEW r, NEW t, NEW x, NEW u, IsFour(r, t), IsFour(x, u)
  PROVE  Dot(4, r, x, 0) = Whole(t[0] * u[0] + (t[1] * u[1] + (t[2] * u[2] + t[3] * u[3])))
<1> DEFINE P(j) == t[j] * u[j]
<1>1. /\ r \in Vec(4) /\ x \in Vec(4) /\ 4 \in Nat
      /\ \A j \in 0 .. 3 : /\ t[j] \in Int /\ u[j] \in Int
                           /\ r[j] = Whole(t[j]) /\ x[j] = Whole(u[j])
  BY DEF IsFour, Cubics
<1>2. \A j \in 0 .. 3 : P(j) \in Int /\ Times(r[j], x[j]) = Whole(P(j))
  <2> TAKE j \in 0 .. 3
  <2> DEFINE a == t[j]
             b == u[j]
  <2>1. a \in Int /\ b \in Int /\ r[j] = Whole(a) /\ x[j] = Whole(b)
    BY <1>1
  <2>2. P(j) = a * b
    OBVIOUS
  <2> HIDE DEF a, b, P
  <2>3. Times(Whole(a), Whole(b)) = Whole(a * b)
    BY <2>1, WholeSums
  <2> QED
    BY <2>1, <2>2, <2>3
<1>3. P(0) \in Int /\ P(1) \in Int /\ P(2) \in Int /\ P(3) \in Int
  <2> HIDE DEF P
  <2> QED
    BY <1>2
<1>4. /\ 0 \in 0 .. 4 - 1 /\ 1 \in 0 .. 4 - 1 /\ 2 \in 0 .. 4 - 1 /\ 3 \in 0 .. 4 - 1
      /\ 0 + 1 = 1 /\ 1 + 1 = 2 /\ 2 + 1 = 3 /\ 3 + 1 = 4
      /\ 0 \in 0 .. 3 /\ 1 \in 0 .. 3 /\ 2 \in 0 .. 3 /\ 3 \in 0 .. 3
  OBVIOUS
<1>5. /\ Dot(4, r, x, 3) = Plus(Times(r[3], x[3]), Dot(4, r, x, 4))
      /\ Dot(4, r, x, 2) = Plus(Times(r[2], x[2]), Dot(4, r, x, 3))
      /\ Dot(4, r, x, 1) = Plus(Times(r[1], x[1]), Dot(4, r, x, 2))
      /\ Dot(4, r, x, 0) = Plus(Times(r[0], x[0]), Dot(4, r, x, 1))
  BY <1>1, <1>4, DotFirst
<1> DEFINE A == P(0)
           B == P(1)
           C == P(2)
           D == P(3)
<1>6. /\ Times(r[0], x[0]) = Whole(A) /\ Times(r[1], x[1]) = Whole(B)
      /\ Times(r[2], x[2]) = Whole(C) /\ Times(r[3], x[3]) = Whole(D)
  <2> HIDE DEF P
  <2> QED
    BY <1>2, <1>4
<1>7. A \in Int /\ B \in Int /\ C \in Int /\ D \in Int
  BY <1>3
<1> HIDE DEF A, B, C, D, P
<1>8. Dot(4, r, x, 3) = Whole(D)
  <2>1. Dot(4, r, x, 4) = Zero
    BY <1>1, DotNone
  <2> QED
    BY <1>5, <1>6, <1>7, <2>1, WholeValue, Neutral
<1>9. Dot(4, r, x, 2) = Whole(C + D)
  BY <1>5, <1>6, <1>7, <1>8, WholeSums
<1>10. Dot(4, r, x, 1) = Whole(B + (C + D))
  <2> DEFINE E == C + D
  <2>1. E \in Int /\ Dot(4, r, x, 1) = Plus(Whole(B), Whole(E))
    BY <1>5, <1>6, <1>7, <1>9
  <2> HIDE DEF E
  <2>2. Plus(Whole(B), Whole(E)) = Whole(B + E)
    BY <1>7, <2>1, WholeSums
  <2> QED
    BY <2>1, <2>2 DEF E
<1>11. Dot(4, r, x, 0) = Whole(A + (B + (C + D)))
  <2> DEFINE E == B + (C + D)
  <2>1. E \in Int /\ Dot(4, r, x, 0) = Plus(Whole(A), Whole(E))
    BY <1>5, <1>6, <1>7, <1>10
  <2> HIDE DEF E
  <2>2. Plus(Whole(A), Whole(E)) = Whole(A + E)
    BY <1>7, <2>1, WholeSums
  <2> QED
    BY <2>1, <2>2 DEF E
<1> QED
  BY <1>11 DEF A, B, C, D, P

\* The rows of the equations.
LEMMA RowsAre ==
  ASSUME NEW N \in Nat, NEW ps \in Points(N),
         NEW F, F = Table(FractionsOf(NormalEquations(ps, 3))),
         NEW c \in Cubics, NEW w \in Vec(4), \A j \in 0 .. 3 : w[j] = Whole(c[j]),
         NEW m \in 0 .. 3
  PROVE  Dot(4, F[m], w, 0) = Whole(RowAt(ps, c, m)) /\ RowAt(ps, c, m) \in Int
<1> DEFINE f == F[m]
           t == [j \in 0 .. 3 |-> Total(Pow(ps, m + j))]
<1>1. 3 \in Nat /\ 4 = 3 + 1 /\ 4 - 1 = 3 /\ 4 \in Nat \ {0}
  OBVIOUS
<1>2. F \in Tab(4)
  BY <1>1, NormalIs, FractionsOfIs, TableIs
<1>3. \A j \in 0 .. 3 : f[j] = Whole(t[j])
  <2>1. \A i, j \in 0 .. 4 - 1 : F[i][j] = Whole(Total(Pow(ps, i + j)))
    BY <1>1, NormalIs, SMTT(30)
  <2> TAKE j \in 0 .. 3
  <2>2. F[m][j] = Whole(Total(Pow(ps, m + j)))
    BY <1>1, <2>1
  <2>3. t[j] = Total(Pow(ps, m + j))
    OBVIOUS
  <2> HIDE DEF t
  <2> QED
    BY <2>2, <2>3
<1>4. t \in Cubics
  <2>1. \A j \in 0 .. 3 : Total(Pow(ps, m + j)) \in Int
    <3> TAKE j \in 0 .. 3
    <3>1. m + j \in Nat
      OBVIOUS
    <3> QED
      BY <3>1, PowersAre
  <2> QED
    BY <2>1 DEF Cubics
<1>5. f \in Vec(4)
  <2>1. m \in 0 .. 4 - 1
    BY <1>1
  <2> QED
    BY <1>2, <2>1, TabRows
<1>6. /\ t[0] = Total(Pow(ps, m)) /\ t[1] = Total(Pow(ps, m + 1))
      /\ t[2] = Total(Pow(ps, m + 2)) /\ t[3] = Total(Pow(ps, m + 3))
  <2>1. m + 0 = m
    OBVIOUS
  <2> QED
    BY <2>1
<1> HIDE DEF f, t
<1>7. Dot(4, f, w, 0) = Whole(t[0] * c[0] + (t[1] * c[1] + (t[2] * c[2] + t[3] * c[3])))
  <2>1. IsFour(f, t) /\ IsFour(w, c)
    BY <1>3, <1>4, <1>5 DEF IsFour
  <2> QED
    BY <2>1, DotOfFour
<1> DEFINE t0 == t[0]
           t1 == t[1]
           t2 == t[2]
           t3 == t[3]
           c0 == c[0]
           c1 == c[1]
           c2 == c[2]
           c3 == c[3]
<1>8. /\ t0 \in Int /\ t1 \in Int /\ t2 \in Int /\ t3 \in Int
      /\ c0 \in Int /\ c1 \in Int /\ c2 \in Int /\ c3 \in Int
  BY <1>4 DEF Cubics
<1>9. RowAt(ps, c, m) = c0 * t0 + c1 * t1 + c2 * t2 + c3 * t3
  BY <1>6 DEF RowAt
<1>10. Dot(4, f, w, 0) = Whole(t0 * c0 + (t1 * c1 + (t2 * c2 + t3 * c3)))
  BY <1>7
<1> HIDE DEF t0, t1, t2, t3, c0, c1, c2, c3
<1>11. /\ t0 * c0 + (t1 * c1 + (t2 * c2 + t3 * c3)) = c0 * t0 + c1 * t1 + c2 * t2 + c3 * t3
       /\ c0 * t0 + c1 * t1 + c2 * t2 + c3 * t3 \in Int
  BY <1>8
<1> QED
  BY <1>9, <1>10, <1>11 DEF f

\* A vector of fractions times a common denominator.
LEMMA ClearedOne ==
  ASSUME NEW z \in Frac, NEW k \in Int
  PROVE  Times(Whole(k * z.d), z) = Whole(k * z.n)
<1> DEFINE n == z.n
           d == z.d
           a == k * d
           b == k * n
<1>1. n \in Int /\ d \in Int /\ d # 0 /\ Value(z, n, d)
  BY HasValue
<1>2. a \in Int /\ b \in Int
  BY <1>1
<1> HIDE DEF n, d
<1>3. Value(Whole(a), a, 1) /\ Value(Whole(b), b, 1)
  <2> HIDE DEF a, b
  <2> QED
    BY <1>2, WholeValue
<1>4. Value(Times(Whole(a), z), a * n, 1 * d)
  <2> HIDE DEF a, b
  <2> QED
    BY <1>1, <1>3, TimesValue
<1>5. Value(Whole(b), a * n, 1 * d)
  <2>1. /\ Whole(b) \in Frac /\ Whole(b).n = b /\ Whole(b).d = 1
    BY <1>3 DEF Value, Whole
  <2>2. b * (1 * d) = (a * n) * 1
    BY <1>1
  <2>3. a * n \in Int /\ 1 * d \in Int \ {0}
    BY <1>1, <1>2
  <2> HIDE DEF a, b
  <2> QED
    BY <2>1, <2>2, <2>3 DEF Value
<1>6. Times(Whole(a), z) = Whole(b)
  <2> HIDE DEF a, b
  <2> QED
    BY <1>4, <1>5, SameValue
<1> QED
  BY <1>6 DEF n, d

\* So are four fractions together.
LEMMA Cleared ==
  ASSUME NEW z \in Vec(4)
  PROVE  \E D \in Nat \ {0}, c \in Cubics :
            \A j \in 0 .. 3 : Times(Whole(D), z[j]) = Whole(c[j])
<1> DEFINE n(j) == z[j].n
           d(j) == z[j].d
<1>1. \A j \in 0 .. 3 : z[j] \in Frac
  BY DEF Vec
<1>2. \A j \in 0 .. 3 : n(j) \in Int /\ d(j) \in Nat \ {0}
  BY <1>1, FracParts
<1> DEFINE d0 == d(0)
           d1 == d(1)
           d2 == d(2)
           d3 == d(3)
           k == [j \in 0 .. 3 |-> IF j = 0 THEN d1 * d2 * d3 ELSE IF j = 1 THEN d0 * d2 * d3
                                  ELSE IF j = 2 THEN d0 * d1 * d3 ELSE d0 * d1 * d2]
           D == d0 * d1 * d2 * d3
           c == [j \in 0 .. 3 |-> k[j] * n(j)]
<1>3. d0 \in Nat \ {0} /\ d1 \in Nat \ {0} /\ d2 \in Nat \ {0} /\ d3 \in Nat \ {0}
  <2>1. 0 \in 0 .. 3 /\ 1 \in 0 .. 3 /\ 2 \in 0 .. 3 /\ 3 \in 0 .. 3
    OBVIOUS
  <2> HIDE DEF d
  <2> QED
    BY <1>2, <2>1
<1>4. D \in Nat \ {0}
  <2> HIDE DEF d0, d1, d2, d3
  <2>1. \A a, b \in Nat \ {0} : a * b \in Nat \ {0}
    OBVIOUS
  <2>2. d0 * d1 \in Nat \ {0}
    BY <1>3, <2>1
  <2>3. d0 * d1 * d2 \in Nat \ {0}
    BY <1>3, <2>1, <2>2
  <2> QED
    BY <1>3, <2>1, <2>3
<1>5. \A j \in 0 .. 3 : k[j] \in Int /\ D = k[j] * d(j)
  <2> TAKE j \in 0 .. 3
  <2>1. /\ d1 * d2 * d3 \in Int /\ d0 * d2 * d3 \in Int
        /\ d0 * d1 * d3 \in Int /\ d0 * d1 * d2 \in Int
    <3> HIDE DEF d0, d1, d2, d3
    <3> QED
      BY <1>3
  <2>2. /\ D = (d1 * d2 * d3) * d0 /\ D = (d0 * d2 * d3) * d1
        /\ D = (d0 * d1 * d3) * d2 /\ D = (d0 * d1 * d2) * d3
    <3> HIDE DEF d0, d1, d2, d3
    <3> QED
      BY <1>3
  <2>3. j = 0 \/ j = 1 \/ j = 2 \/ j = 3
    OBVIOUS
  <2>4. /\ k[0] = d1 * d2 * d3 /\ k[1] = d0 * d2 * d3 /\ k[2] = d0 * d1 * d3 /\ k[3] = d0 * d1 * d2
    OBVIOUS
  <2> HIDE DEF k, D, d
  <2> QED
    BY <2>1, <2>2, <2>3, <2>4 DEF d0, d1, d2, d3
<1>6. ASSUME NEW j \in 0 .. 3
      PROVE  c[j] \in Int /\ Times(Whole(D), z[j]) = Whole(c[j])
  <2> DEFINE x == z[j]
             q == k[j]
  <2>1. x \in Frac /\ q \in Int /\ D = q * x.d /\ c[j] = q * x.n /\ x.n \in Int
    BY <1>1, <1>2, <1>5
  <2> HIDE DEF x, q, D, c
  <2>2. Times(Whole(q * x.d), x) = Whole(q * x.n)
    BY <2>1, ClearedOne
  <2> QED
    BY <2>1, <2>2 DEF x
<1>7. c \in Cubics
  <2>1. \A j \in 0 .. 3 : k[j] * n(j) \in Int
    <3> HIDE DEF k, n
    <3> QED
      BY <1>2, <1>5
  <2> QED
    BY <2>1 DEF Cubics
<1> HIDE DEF c, D
<1> QED
  BY <1>4, <1>6, <1>7

\* The equations map a vector other than 0 to 0 when a cubic with coefficients
\* other than 0 does; multiplied by a common denominator the vector is one.
LEMMA KernelIsCubic ==
  ASSUME NEW N \in Nat, NEW ps \in Points(N),
         NEW F, F = Table(FractionsOf(NormalEquations(ps, 3)))
  PROVE  HasKernel(4, F)
           <=> \E c \in Cubics : NotNull(c) /\ \A m \in 0 .. 3 : RowAt(ps, c, m) = 0
<1>0. 4 \in Nat \ {0} /\ 4 - 1 = 3 /\ 4 = 3 + 1 /\ 3 \in Nat
  OBVIOUS
<1>1. F \in Tab(4)
  BY <1>0, NormalIs, FractionsOfIs, TableIs
<1>2. ASSUME NEW c \in Cubics, NotNull(c), \A m \in 0 .. 3 : RowAt(ps, c, m) = 0
      PROVE  HasKernel(4, F)
  <2> DEFINE z == [j \in 0 .. 3 |-> Whole(c[j])]
  <2>1. \A j \in 0 .. 3 : z[j] = Whole(c[j]) /\ z[j] \in Frac /\ c[j] \in Int
    <3> TAKE j \in 0 .. 3
    <3> DEFINE v == c[j]
    <3>1. v \in Int /\ z[j] = Whole(v)
      BY DEF Cubics
    <3> HIDE DEF v
    <3> QED
      BY <3>1, WholeValue DEF v
  <2>2. z \in Vec(4)
    BY <1>0, <2>1 DEF Vec
  <2> HIDE DEF z
  <2>3. \A m \in 0 .. 3 : Dot(4, F[m], z, 0) = Zero
    <3> TAKE m \in 0 .. 3
    <3>1. Dot(4, F[m], z, 0) = Whole(RowAt(ps, c, m))
      BY <2>1, <2>2, RowsAre
    <3> QED
      BY <1>2, <3>1 DEF Zero
  <2>4. \E j \in 0 .. 3 : z[j] # Zero
    <3>1. PICK j \in 0 .. 3 : c[j] # 0
      BY <1>2 DEF NotNull
    <3> DEFINE v == c[j]
    <3>2. v \in Int /\ v # 0 /\ z[j] = Whole(v)
      BY <2>1, <3>1
    <3> HIDE DEF v
    <3>3. Whole(v) # Whole(0)
      BY <3>2, WholeSums
    <3> QED
      BY <3>2, <3>3 DEF Zero
  <2> QED
    BY <1>0, <2>2, <2>3, <2>4 DEF HasKernel, Image
<1>3. ASSUME HasKernel(4, F)
      PROVE  \E c \in Cubics : NotNull(c) /\ \A m \in 0 .. 3 : RowAt(ps, c, m) = 0
  <2>1. PICK z \in Vec(4) : /\ \E j \in 0 .. 3 : z[j] # Zero
                            /\ \A m \in 0 .. 3 : Dot(4, F[m], z, 0) = Zero
    BY <1>0, <1>3 DEF HasKernel, Image
  <2>2. PICK D \in Nat \ {0}, c \in Cubics :
               \A j \in 0 .. 3 : Times(Whole(D), z[j]) = Whole(c[j])
    BY Cleared
  <2> DEFINE w == [j \in 0 .. 3 |-> Times(Whole(D), z[j])]
             W == Whole(D)
  <2>3. W \in Frac /\ W # Zero
    <3>1. D \in Int /\ 0 \in Int /\ D # 0
      OBVIOUS
    <3> QED
      BY <3>1, WholeValue, WholeSums DEF Zero
  <2>4. \A j \in 0 .. 3 : w[j] = Times(W, z[j]) /\ w[j] = Whole(c[j]) /\ w[j] \in Frac /\ z[j] \in Frac
    <3> TAKE j \in 0 .. 3
    <3>1. z[j] \in Frac
      BY <1>0 DEF Vec
    <3>2. w[j] = Times(W, z[j]) /\ w[j] = Whole(c[j])
      BY <2>2
    <3> HIDE DEF w, W
    <3> QED
      BY <2>3, <3>1, <3>2, Closed
  <2>5. w \in Vec(4)
    BY <1>0, <2>4 DEF Vec
  <2> HIDE DEF w, W
  <2>6. ASSUME NEW m \in 0 .. 3
        PROVE  RowAt(ps, c, m) = 0
    <3>1. Dot(4, F[m], w, 0) = Whole(RowAt(ps, c, m)) /\ RowAt(ps, c, m) \in Int
      BY <2>4, <2>5, RowsAre
    <3> DEFINE f == F[m]
               t == [j \in 0 .. 4 - 1 |-> Times(f[j], z[j])]
               r == [j \in 0 .. 4 - 1 |-> Times(f[j], w[j])]
    <3>2. \A j \in 0 .. 3 : f[j] \in Frac
      BY <1>0, <1>1, TabRows DEF Vec
    <3>3. Dot(4, F[m], w, 0) = SumOf(0, 3, r) /\ Dot(4, F[m], z, 0) = SumOf(0, 3, t)
      BY <1>0 DEF Dot
    <3>4. \A j \in 0 .. 3 : t[j] = Times(f[j], z[j]) /\ r[j] = Times(f[j], w[j])
      BY <1>0
    <3> HIDE DEF f, t, r
    <3>5. \A j \in 0 .. 3 : t[j] \in Frac /\ r[j] = Times(W, t[j])
      <4> TAKE j \in 0 .. 3
      <4> DEFINE a == f[j]
                 b == z[j]
      <4>1. a \in Frac /\ b \in Frac /\ t[j] = Times(a, b) /\ r[j] = Times(a, Times(W, b))
        BY <2>4, <3>2, <3>4
      <4> HIDE DEF a, b
      <4>2. Times(a, Times(W, b)) = Times(Times(a, W), b)
        BY <2>3, <4>1, TimesAssoc
      <4>3. Times(a, W) = Times(W, a)
        BY <2>3, <4>1, TimesComm
      <4>4. Times(Times(W, a), b) = Times(W, Times(a, b))
        BY <2>3, <4>1, TimesAssoc
      <4> QED
        BY <4>1, <4>2, <4>3, <4>4, Closed
    <3>6. SumOf(0, 3, r) = Times(W, SumOf(0, 3, t))
      <4>1. Bounds(0, 3) /\ Addends(t, 0, 3)
        BY <3>5 DEF Bounds, Addends
      <4> QED
        BY <2>3, <3>5, <4>1, SumTimes
    <3>7. SumOf(0, 3, t) = Zero
      BY <2>1, <3>3
    <3>8. Times(W, Zero) = Zero
      BY <2>3, Neutral
    <3> DEFINE v == RowAt(ps, c, m)
    <3>9. Whole(v) = Whole(0) /\ v \in Int
      BY <3>1, <3>3, <3>6, <3>7, <3>8 DEF Zero
    <3> HIDE DEF v
    <3>10. v = 0
      BY <3>9, WholeSums
    <3> QED
      BY <3>10 DEF v
  <2>7. NotNull(c)
    <3>1. PICK j \in 0 .. 3 : z[j] # Zero
      BY <2>1
    <3>2. w[j] # Zero
      BY <2>3, <2>4, <3>1, NoZeroDivisors
    <3>3. Whole(c[j]) # Whole(0)
      BY <2>4, <3>2 DEF Zero
    <3>4. c[j] # 0
      BY <3>3
    <3>5. j = 0 \/ j = 1 \/ j = 2 \/ j = 3
      OBVIOUS
    <3> QED
      BY <3>4, <3>5 DEF NotNull
  <2> QED
    BY <2>6, <2>7
<1> QED
  BY <1>2, <1>3

\* The equations are symmetric: with a row of zeros there is a column of them.
LEMMA ZeroRowIsKernel ==
  ASSUME NEW N \in Nat, NEW ps \in Points(N),
         NEW F, F = Table(FractionsOf(NormalEquations(ps, 3))), HasZeroRow(4, F)
  PROVE  HasKernel(4, F)
<1>0. 4 \in Nat \ {0} /\ 4 - 1 = 3 /\ 4 = 3 + 1 /\ 3 \in Nat
  OBVIOUS
<1>1. F \in Tab(4)
  BY <1>0, NormalIs, FractionsOfIs, TableIs
<1>2. \A i, j \in 0 .. 3 : F[i][j] = F[j][i]
  <2>1. \A i, j \in 0 .. 4 - 1 : F[i][j] = Whole(Total(Pow(ps, i + j)))
    <3> DEFINE Is(m, q) == \A i, j \in 0 .. q - 1 : m[i][j] = Whole(Total(Pow(ps, i + j)))
    <3>1. \A p \in Nat : \A q : q = p + 1 => Is(Table(FractionsOf(NormalEquations(ps, p))), q)
      BY NormalIs, SMTT(30)
    <3> HIDE DEF Is
    <3>2. Is(F, 4)
      BY <1>0, <3>1
    <3> QED
      BY <3>2 DEF Is
  <2>2. \A i, j \in 0 .. 3 : i + j = j + i
    OBVIOUS
  <2> QED
    BY <1>0, <2>1, <2>2
<1>3. PICK i \in 0 .. 4 - 1 : \A j \in 0 .. 4 - 1 : F[i][j] = Zero
  BY DEF HasZeroRow
<1> DEFINE z == Unit(4, i)
<1>4. z \in Vec(4)
  BY <1>0, <1>1, <1>3, TableTypes
<1>5. z[i] # Zero
  BY <1>3, Constants DEF Unit
<1>6. Image(4, F, z) = ColumnOf(4, F, i)
  BY <1>0, <1>1, <1>3, ImageOfUnit
<1>7. ColumnOf(4, F, i) = [j \in 0 .. 4 - 1 |-> Zero]
  BY <1>0, <1>2, <1>3 DEF ColumnOf
<1> HIDE DEF z
<1> QED
  BY <1>3, <1>4, <1>5, <1>6, <1>7 DEF HasKernel

\* A sequence is a function from the numbers up to its length.
LEMMA SeqParts ==
  ASSUME NEW X, NEW s \in Seq(X)
  PROVE  Len(s) \in Nat /\ s \in [1 .. Len(s) -> X] /\ DOMAIN s = 1 .. Len(s)
  OBVIOUS

\* The fit of order 3 is refused exactly when the points are at no more than
\* three places.
LEMMA CubicRefused ==
  ASSUME NEW N \in Nat, NEW ps \in Points(N)
  PROVE  generic_filter(ps, 3) = Singular <=> Places(ps) <= 3
<1> DEFINE eq == NormalEquations(ps, 3)
           F == Table(FractionsOf(eq))
           ei == matinv_default(eq)
<1>0. 4 \in Nat \ {0} /\ 4 - 1 = 3 /\ 4 = 3 + 1 /\ 3 \in Nat
  OBVIOUS
<1>1. eq \in MatrixOf(4)
  BY <1>0, NormalIs
<1>2. generic_filter(ps, 3) = Singular <=> ei = Singular
  <2>1. ei = Singular => generic_filter(ps, 3) = Singular
    BY DEF generic_filter
  <2>2. ASSUME ei # Singular
        PROVE  generic_filter(ps, 3) # Singular
    <3> DEFINE a == [i \in 0 .. 3 |-> Coefficient(ei, RightHandSide(ps, 3), i)]
    <3>1. generic_filter(ps, 3) = a
      BY <2>2 DEF generic_filter
    <3>2. DOMAIN a = 0 .. 3
      OBVIOUS
    <3>3. DOMAIN Singular = {"singular"}
      BY Zenon DEF Singular
    <3>4. 0 \in 0 .. 3 /\ 1 \in 0 .. 3 /\ 0 # 1
      OBVIOUS
    <3> HIDE DEF a
    <3> QED
      BY <3>1, <3>2, <3>3, <3>4
  <2> QED
    BY <2>1, <2>2
<1>3. F \in Tab(4)
  BY <1>0, <1>1, FractionsOfIs, TableIs
<1> HIDE DEF ei
<1>4. ei = Singular <=> HasKernel(4, F)
  <2> USE DEF ei
  <2>1. \/ ei = Singular /\ (HasZeroRow(4, F) \/ HasKernel(4, F))
        \/ ei # Singular /\ IsInverse(4, F, Table(ei))
    BY <1>0, <1>1, MatinvDefaultIs
  <2>2. HasZeroRow(4, F) => HasKernel(4, F)
    BY ZeroRowIsKernel
  <2>3. \A X : IsInverse(4, F, X) => ~ HasKernel(4, F)
    BY <1>0, <1>3, NoInverse
  <2> HIDE DEF F, ei
  <2> QED
    BY <2>1, <2>2, <2>3
<1>5. HasKernel(4, F) <=> \E c \in Cubics : /\ NotNull(c)
                                            /\ \A i \in 1 .. N : CubicAt(c, ps[i].x) = 0
  <2>1. HasKernel(4, F) <=> \E c \in Cubics : NotNull(c) /\ \A m \in 0 .. 3 : RowAt(ps, c, m) = 0
    BY KernelIsCubic
  <2> QED
    BY <2>1, NullRows
<1>6. \A i \in 1 .. N : ps[i].x \in Int
  BY DEF Points
<1> HIDE DEF F, eq
<1>7. CASE /\ ~ (Places(ps) <= 3)
           /\ \E i, j, k, l \in 1 .. N : Apart(ps, i, j, k, l)
  <2>1. PICK i, j, k, l \in 1 .. N : Apart(ps, i, j, k, l)
    BY <1>7
  <2>2. ASSUME NEW c \in Cubics, \A h \in 1 .. N : CubicAt(c, ps[h].x) = 0
        PROVE  ~ NotNull(c)
    <3> DEFINE x == ps[i].x
               y == ps[j].x
               z == ps[k].x
               w == ps[l].x
    <3>1. x \in Int /\ y \in Int /\ z \in Int /\ w \in Int
      BY <1>6
    <3>2. x # y /\ x # z /\ x # w /\ y # z /\ y # w /\ z # w
      BY <2>1 DEF Apart
    <3>3. CubicAt(c, x) = 0 /\ CubicAt(c, y) = 0 /\ CubicAt(c, z) = 0 /\ CubicAt(c, w) = 0
      BY <2>2
    <3> HIDE DEF x, y, z, w
    <3> QED
      BY <3>1, <3>2, <3>3, FourRoots
  <2> QED
    BY <1>2, <1>4, <1>5, <1>7, <2>2
<1>8. CASE /\ Places(ps) <= 3
           /\ \E p, q, r \in Int : Covered(ps, N, p, q, r)
  <2>1. PICK p \in Int, q \in Int, r \in Int : Covered(ps, N, p, q, r)
    BY <1>8
  <2>2. PICK c \in Cubics : /\ NotNull(c)
                            /\ \A x \in Int : x = p \/ x = q \/ x = r => CubicAt(c, x) = 0
    BY ThreeRoots, ZenonT(60)
  <2>3. \A i \in 1 .. N : CubicAt(c, ps[i].x) = 0
    <3> TAKE i \in 1 .. N
    <3> DEFINE x == ps[i].x
    <3>1. x \in Int /\ (x = p \/ x = q \/ x = r)
      BY <1>6, <2>1 DEF Covered
    <3> HIDE DEF x
    <3>2. CubicAt(c, x) = 0
      BY <2>2, <3>1
    <3> QED
      BY <3>2 DEF x
  <2> QED
    BY <1>2, <1>4, <1>5, <1>8, <2>2, <2>3
<1> QED
  BY <1>7, <1>8, FourOrThree

-----------------------------------------------------------------------------
(* The calls of the generic fit.                                            *)

\* A fit of order 3 is refused exactly when the points are at no more than
\* three places, and otherwise what the cubic leaves of the points is
\* orthogonal to every power of x up to the third: the coefficients solve the
\* normal equations, so no others have a smaller squared error
\* (method_of_least_squares.c 146-193).
THEOREM GenericFitsAreLeastSquares == RoutinesSpec => []CubicIsLeastSquares
<1>1. RoutinesInv => CubicIsLeastSquares
  <2> SUFFICES ASSUME RoutinesInv, IsFit, result # Nothing, input.order >= 3
               PROVE  LET ps == input.points
                          n == input.order
                      IN /\ result = Singular <=> Places(ps) <= n
                         /\ result # Singular =>
                              \A m \in 0 .. n :
                                SumOf(1, Len(ps),
                                      [i \in DOMAIN ps |->
                                         Times(Remainder(ps[i], result, n),
                                               Whole(Power(ps[i].x, m)))])
                                  = Whole(0)
    BY DEF CubicIsLeastSquares
  <2> DEFINE ps == input.points
             N == Len(ps)
             a == generic_filter(ps, 3)
  <2>1. ps \in CubicLists /\ input.order = 3
    BY DEF RoutinesInv, IsFit
  <2>2. result = a
    BY <2>1 DEF RoutinesInv, Called
  <2>3. ps \in Seq([x : Int, y : Int])
    BY <2>1, RoutinesAssumption
  <2> HIDE DEF ps
  <2>4. N \in Nat /\ ps \in Points(N) /\ DOMAIN ps = 1 .. N
    BY <2>3, SeqParts, Zenon DEF Points
  <2>5. a = Singular <=> Places(ps) <= 3
    BY <2>4, CubicRefused
  <2> HIDE DEF N
  <2>6. ASSUME a # Singular, NEW m \in 0 .. 3
        PROVE  SumOf(1, N, [i \in 1 .. N |-> Times(Remainder(ps[i], a, 3),
                                                   Whole(Power(ps[i].x, m)))]) = Zero
    <3> DEFINE F == Table(FractionsOf(NormalEquations(ps, 3)))
    <3>1. 3 \in Nat /\ 4 = 3 + 1
      OBVIOUS
    <3>2. a \in Vec(4) /\ Image(4, F, a) = Moments(ps, 4)
      BY <2>4, <2>6, <3>1, GenericSolves
    <3> HIDE DEF a
    <3> QED
      BY <2>4, <3>1, <3>2, RemaindersOrthogonal
  <2> QED
    BY <2>1, <2>2, <2>4, <2>5, <2>6 DEF N, ps, Zero
<1> QED
  BY <1>1, RoutinesInvHolds, PTL

-----------------------------------------------------------------------------
(* Squared errors of the generic fit.                                       *)

\* The sign of a fraction is that of any form of it with a denominator that
\* is not negative.
LEMMA SignOfValue ==
  ASSUME NEW z, NEW N, NEW D, Value(z, N, D), D > 0
  PROVE  N >= 0 <=> z.n >= 0
<1> DEFINE e == z.n
           f == z.d
<1>1. z \in Frac /\ N \in Int /\ D \in Int /\ e * D = N * f
  BY ValueParts
<1>2. e \in Int /\ f \in Nat \ {0}
  BY <1>1, FracParts
<1> HIDE DEF e, f
<1>3. f > 0
  BY <1>2
<1>4. ASSUME N >= 0 PROVE e >= 0
  <2>1. N * f >= 0
    BY <1>1, <1>2, <1>3, <1>4
  <2>2. e < 0 => e * D < 0
    BY <1>1, <1>2
  <2> QED
    BY <1>1, <1>2, <2>1, <2>2
<1>5. ASSUME e >= 0 PROVE N >= 0
  <2>1. e * D >= 0
    BY <1>1, <1>2, <1>5
  <2>2. N < 0 => N * f < 0
    BY <1>1, <1>2, <1>3
  <2> QED
    BY <1>1, <1>2, <2>1, <2>2
<1> QED
  BY <1>4, <1>5 DEF e

\* A square, and a sum of fractions that are not negative, is not negative.
LEMMA SquareSign ==
  ASSUME NEW x \in Frac
  PROVE  Times(x, x) \in Frac /\ Times(x, x).n >= 0
<1> DEFINE n == x.n
           d == x.d
<1>1. n \in Int /\ d \in Nat \ {0}
  BY FracParts
<1>2. Value(Times(x, x), n * n, d * d)
  BY HasValue, TimesValue
<1> HIDE DEF n, d
<1>3. n * n >= 0 /\ d * d > 0
  <2>1. n >= 0 \/ n < 0
    BY <1>1
  <2> QED
    BY <1>1, <2>1
<1> QED
  BY <1>2, <1>3, SignOfValue, Closed

LEMMA PlusSign ==
  ASSUME NEW x \in Frac, NEW y \in Frac, x.n >= 0, y.n >= 0
  PROVE  Plus(x, y) \in Frac /\ Plus(x, y).n >= 0
<1> DEFINE a == x.n
           b == x.d
           c == y.n
           d == y.d
<1>1. a \in Int /\ b \in Nat \ {0} /\ c \in Int /\ d \in Nat \ {0} /\ a >= 0 /\ c >= 0
  BY FracParts
<1>2. Value(Plus(x, y), a * d + c * b, b * d)
  BY HasValue, PlusValue
<1> HIDE DEF a, b, c, d
<1>3. a * d >= 0 /\ c * b >= 0 /\ b * d > 0
  BY <1>1
<1>4. a * d \in Int /\ c * b \in Int
  BY <1>1
<1>5. a * d + c * b >= 0
  BY <1>3, <1>4
<1> QED
  BY <1>2, <1>3, <1>5, SignOfValue, Closed

LEMMA SumSign ==
  ASSUME NEW lo, NEW hi, NEW t, Bounds(lo, hi),
         \A k \in lo .. hi : t[k] \in Frac /\ t[k].n >= 0
  PROVE  SumOf(lo, hi, t) \in Frac /\ SumOf(lo, hi, t).n >= 0
<1> DEFINE P(h) == SumOf(lo, h, t) \in Frac /\ SumOf(lo, h, t).n >= 0
           S == {n \in 0 .. hi - lo + 1 : P(lo - 1 + n)}
<1>0. lo \in Int /\ hi \in Int /\ hi - lo + 1 \in Nat
  BY DEF Bounds
<1>1. 0 \in S
  <2>1. lo - 1 + 0 = lo - 1
    BY <1>0
  <2>2. SumOf(lo, lo - 1, t) = Zero /\ Zero \in Frac /\ Zero.n >= 0
    <3>1. Zero.n = 0
      BY DEF Zero, Whole
    <3> QED
      BY <1>0, <3>1, SumStep, Constants
  <2>3. P(lo - 1)
    BY <2>2
  <2> QED
    BY <1>0, <2>1, <2>3
<1>2. ASSUME NEW n \in 0 .. hi - lo + 1 - 1, n \in S
      PROVE  n + 1 \in S
  <2> DEFINE h == lo - 1 + (n + 1)
  <2>1. h \in lo .. hi /\ h \in Int /\ h >= lo /\ h - 1 = lo - 1 + n
    BY <1>0
  <2>2. P(h - 1)
    BY <1>2, <2>1
  <2>3. P(h)
    <3> HIDE DEF h
    <3>1. SumOf(lo, h, t) = Plus(SumOf(lo, h - 1, t), t[h])
      BY <1>0, <2>1, SumStep
    <3>2. t[h] \in Frac /\ t[h].n >= 0
      BY <2>1
    <3> QED
      BY <2>2, <3>1, <3>2, PlusSign
  <2> QED
    BY <1>0, <2>3
<1>3. \A n \in 0 .. hi - lo + 1 : n \in S
  <2> HIDE DEF S
  <2> QED
    BY <1>0, <1>1, <1>2, UpTo
<1>4. hi - lo + 1 \in 0 .. hi - lo + 1 /\ lo - 1 + (hi - lo + 1) = hi
  BY <1>0
<1>5. P(hi)
  BY <1>3, <1>4
<1> QED
  BY <1>5

\* Nothing becomes less when what is not negative is added.
LEMMA NotGreater ==
  ASSUME NEW x \in Frac, NEW y \in Frac, y.n >= 0
  PROVE  ~ Greater(x, Plus(x, y))
<1> DEFINE a == x.n
           b == x.d
           c == y.n
           d == y.d
           e == Plus(x, y).n
           f == Plus(x, y).d
<1>1. a \in Int /\ b \in Nat \ {0} /\ c \in Int /\ d \in Nat \ {0} /\ c >= 0
  BY FracParts
<1>2. Value(Plus(x, y), a * d + c * b, b * d)
  BY HasValue, PlusValue
<1>3. e * (b * d) = (a * d + c * b) * f /\ Plus(x, y) \in Frac
  BY <1>2, ValueParts
<1>4. e \in Int /\ f \in Nat \ {0}
  BY <1>3, FracParts
<1> SUFFICES ASSUME a * f > e * b
             PROVE  FALSE
  BY DEF Greater
<1> HIDE DEF a, b, c, d, e, f
<1>5. (a * d + c * b) * f = (a * f) * d + (c * b) * f /\ e * (b * d) = (e * b) * d
  BY <1>1, <1>4
<1>6. (c * b) * f >= 0
  <2>1. c * b >= 0 /\ c * b \in Int
    BY <1>1
  <2> DEFINE g == c * b
  <2> HIDE DEF g
  <2>2. g * f >= 0
    BY <1>4, <2>1 DEF g
  <2> QED
    BY <2>2 DEF g
<1> DEFINE u == a * f
           v == e * b
           g == (c * b) * f
<1>7. u \in Int /\ v \in Int /\ u > v
  BY <1>1, <1>4
<1>8. v * d = u * d + g /\ g >= 0 /\ g \in Int
  <2>1. g \in Int
    BY <1>1, <1>4
  <2> QED
    BY <1>3, <1>5, <1>6, <2>1
<1> HIDE DEF u, v, g
<1>9. d \in Int /\ d > 0
  BY <1>1
<1>10. u * d > v * d
  <2>1. (u - v) * d > 0
    BY <1>7, <1>9
  <2>2. (u - v) * d = u * d - v * d /\ u * d \in Int /\ v * d \in Int
    BY <1>7, <1>9
  <2> QED
    BY <2>1, <2>2
<1>11. u * d \in Int /\ v * d \in Int
  BY <1>7, <1>9
<1> QED
  BY <1>8, <1>10, <1>11

\* (r - c)^2 + 2rc = r^2 + c^2, with s for r - c.
LEMMA SquareOfRest ==
  ASSUME NEW s \in Frac, NEW c \in Frac, NEW r, r = Plus(s, c)
  PROVE  /\ r \in Frac /\ Times(r, r) \in Frac /\ Times(s, s) \in Frac
         /\ Times(c, c) \in Frac /\ Times(r, c) \in Frac
         /\ Plus(Times(s, s), Plus(Times(r, c), Times(r, c))) = Plus(Times(r, r), Times(c, c))
<1> DEFINE a == Times(s, s)
           m == Times(s, c)
           e == Times(c, c)
           q == Times(r, c)
           w == Times(r, r)
<1>1. /\ r \in Frac /\ a \in Frac /\ m \in Frac /\ e \in Frac /\ q \in Frac /\ w \in Frac
  BY Closed
<1>2. q = Plus(m, e)
  <2>1. q = Times(c, Plus(s, c))
    BY <1>1, TimesComm
  <2>2. Times(c, Plus(s, c)) = Plus(Times(c, s), Times(c, c))
    BY Distributive
  <2>3. Times(c, s) = m
    BY TimesComm
  <2> QED
    BY <2>1, <2>2, <2>3
<1>3. w = Plus(Plus(a, m), q)
  <2>1. w = Plus(Times(r, s), Times(r, c))
    BY <1>1, Distributive
  <2>2. Times(r, s) = Plus(Times(s, s), Times(s, c))
    <3>1. Times(r, s) = Times(s, r)
      BY <1>1, TimesComm
    <3>2. Times(s, Plus(s, c)) = Plus(Times(s, s), Times(s, c))
      BY Distributive
    <3> QED
      BY <3>1, <3>2
  <2> QED
    BY <2>1, <2>2
<1> HIDE DEF a, m, e, q, w
<1>4. Plus(a, m) \in Frac /\ Plus(a, q) \in Frac /\ Plus(Plus(a, m), e) = Plus(a, q)
  BY <1>1, <1>2, PlusAssoc, Closed
<1>5. Plus(w, e) = Plus(Plus(Plus(a, m), e), q)
  <2> DEFINE b == Plus(a, m)
  <2>1. b \in Frac /\ w = Plus(b, q)
    BY <1>3, <1>4
  <2> HIDE DEF b
  <2>2. Plus(Plus(b, q), e) = Plus(b, Plus(q, e)) /\ Plus(Plus(b, e), q) = Plus(b, Plus(e, q))
    BY <1>1, <2>1, PlusAssoc
  <2>3. Plus(q, e) = Plus(e, q)
    BY <1>1, PlusComm
  <2>4. Plus(w, e) = Plus(Plus(b, e), q)
    BY <2>1, <2>2, <2>3
  <2> QED
    BY <2>4 DEF b
<1>6. Plus(a, Plus(q, q)) = Plus(Plus(a, q), q)
  BY <1>1, PlusAssoc
<1>7. Plus(a, Plus(q, q)) = Plus(w, e)
  BY <1>4, <1>5, <1>6
<1> QED
  BY <1>1, <1>7 DEF a, e, q, w

\* What a polynomial with coefficients a is worth at a point, and the squared
\* errors of it, added.
Worth(p, a, n) == SumOf(0, n, [i \in 0 .. n |-> Times(a[i], Whole(Power(p.x, i)))])
SquaredErrors(ps, a, n) ==
  SumOf(1, Len(ps), [i \in DOMAIN ps |-> Times(Remainder(ps[i], a, n), Remainder(ps[i], a, n))])

\* Coefficients a, and others, b, that differ from them by c.
Differ(n, a, b, c) ==
  /\ n \in Nat /\ a \in [0 .. n -> Frac] /\ b \in [0 .. n -> Frac] /\ c \in [0 .. n -> Frac]
  /\ \A k \in 0 .. n : b[k] = Plus(c[k], a[k])

\* The powers of a place, as fractions.
LEMMA PowerWhole ==
  ASSUME NEW x \in Int, NEW k \in Nat
  PROVE  Whole(Power(x, k)) \in Frac
<1> DEFINE w == Power(x, k)
<1>1. w \in Int
  BY PowerIsInt
<1> HIDE DEF w
<1>2. Whole(w) \in Frac
  BY <1>1, WholeValue
<1> QED
  BY <1>2 DEF w

\* What the remainders differ by.
LEMMA RemaindersDiffer ==
  ASSUME NEW n, NEW a, NEW b, NEW c, Differ(n, a, b, c), NEW p, p.x \in Int, p.y \in Int
  PROVE  /\ Remainder(p, b, n) \in Frac /\ Worth(p, c, n) \in Frac
         /\ Remainder(p, a, n) = Plus(Remainder(p, b, n), Worth(p, c, n))
<1> DEFINE x == p.x
           f == [i \in 0 .. n |-> Times(a[i], Whole(Power(x, i)))]
           g == [i \in 0 .. n |-> Times(b[i], Whole(Power(x, i)))]
           h == [i \in 0 .. n |-> Times(c[i], Whole(Power(x, i)))]
           A == SumOf(0, n, f)
           B == SumOf(0, n, g)
           C == SumOf(0, n, h)
           Y == Whole(p.y)
<1>1. n \in Nat /\ x \in Int /\ Bounds(0, n)
  BY DEF Differ, Bounds
<1>2. \A k \in 0 .. n : a[k] \in Frac /\ b[k] \in Frac /\ c[k] \in Frac /\ b[k] = Plus(c[k], a[k])
  BY DEF Differ
<1>3. Remainder(p, a, n) = Minus(Y, A) /\ Remainder(p, b, n) = Minus(Y, B) /\ Worth(p, c, n) = C
  BY DEF Remainder, Worth
<1>4. Y \in Frac
  BY WholeValue
<1> HIDE DEF x, Y
<1>5. ASSUME NEW k \in 0 .. n
      PROVE  f[k] \in Frac /\ h[k] \in Frac /\ g[k] = Plus(h[k], f[k])
  <2> DEFINE w == Whole(Power(x, k))
             u == a[k]
             v == b[k]
             d == c[k]
  <2>1. f[k] = Times(u, w) /\ g[k] = Times(v, w) /\ h[k] = Times(d, w)
    OBVIOUS
  <2>2. w \in Frac
    BY <1>1, PowerWhole
  <2>3. u \in Frac /\ v \in Frac /\ d \in Frac /\ v = Plus(d, u)
    BY <1>2
  <2> HIDE DEF u, v, d, w, f, g, h
  <2>4. Times(w, Plus(d, u)) = Plus(Times(w, d), Times(w, u))
    BY <2>2, <2>3, Distributive
  <2>5. Times(w, d) = Times(d, w) /\ Times(w, u) = Times(u, w) /\ Times(w, v) = Times(v, w)
    BY <2>2, <2>3, TimesComm
  <2> QED
    BY <2>1, <2>2, <2>3, <2>4, <2>5, Closed
<1> HIDE DEF f, g, h
<1>6. Addends(f, 0, n) /\ Addends(h, 0, n)
  BY <1>5 DEF Addends
<1>7. A \in Frac /\ C \in Frac /\ B = Plus(C, A)
  BY <1>1, <1>5, <1>6, SumPlus
<1> DEFINE R == Minus(Y, A)
           S == Minus(Y, B)
<1> HIDE DEF A, B, C
<1>8. B \in Frac /\ R \in Frac /\ S \in Frac
  BY <1>4, <1>7, Closed
<1>9. Plus(R, A) = Y /\ Plus(S, B) = Y
  BY <1>4, <1>7, <1>8, MinusPlus
<1> HIDE DEF R, S
<1>10. Plus(S, Plus(C, A)) = Plus(Plus(S, C), A) /\ Plus(S, C) \in Frac
  BY <1>7, <1>8, PlusAssoc, Closed
<1>11. Plus(R, A) = Plus(Plus(S, C), A)
  BY <1>7, <1>9, <1>10
<1>12. R = Plus(S, C)
  BY <1>7, <1>8, <1>10, <1>11, PlusCancel
<1> QED
  BY <1>3, <1>7, <1>8, <1>12 DEF R, S

\* Coefficients whose remainders are orthogonal to the powers of x.
Orthogonal(ps, N, n, a) ==
  \A m \in 0 .. n :
    SumOf(1, N, [i \in 1 .. N |-> Times(Remainder(ps[i], a, n), Whole(Power(ps[i].x, m)))]) = Zero

\* The remainders are then orthogonal to every polynomial.
LEMMA OrthogonalToAll ==
  ASSUME NEW n, NEW a, NEW b, NEW c, Differ(n, a, b, c),
         NEW N \in Nat, NEW ps \in Points(N), Orthogonal(ps, N, n, a)
  PROVE  SumOf(1, N, [i \in 1 .. N |-> Times(Remainder(ps[i], a, n), Worth(ps[i], c, n))]) = Zero
<1> DEFINE R(i) == Remainder(ps[i], a, n)
           W(i, k) == Whole(Power(ps[i].x, k))
           q == [i \in 1 .. N |-> Times(R(i), Worth(ps[i], c, n))]
           G == [i \in 1 .. N |-> [k \in 0 .. n |-> Times(c[k], Times(R(i), W(i, k)))]]
           rows == [i \in 1 .. N |-> Row(G, i, 0, n)]
           cols == [j \in 0 .. n |-> Col(G, j, 1, N)]
<1>1. n \in Nat /\ Bounds(0, n) /\ Bounds(1, N)
  BY DEF Differ, Bounds
<1>2. \A k \in 0 .. n : c[k] \in Frac
  BY DEF Differ
<1>3. \A i \in 1 .. N : R(i) \in Frac /\ \A k \in 0 .. n : W(i, k) \in Frac
  <2> TAKE i \in 1 .. N
  <2> DEFINE p == ps[i]
             x == p.x
  <2>1. p.x \in Int /\ p.y \in Int
    BY DEF Points
  <2>2. Remainder(p, b, n) \in Frac /\ Worth(p, c, n) \in Frac
        /\ Remainder(p, a, n) = Plus(Remainder(p, b, n), Worth(p, c, n))
    <3> HIDE DEF p
    <3> QED
      BY <2>1, RemaindersDiffer
  <2>3. R(i) \in Frac
    BY <2>2, Closed
  <2>4. x \in Int
    BY <2>1
  <2> HIDE DEF x
  <2>5. \A k \in 0 .. n : Whole(Power(x, k)) \in Frac
    BY <1>1, <2>4, PowerWhole
  <2> QED
    BY <2>3, <2>5 DEF x
<1>4. ASSUME NEW i \in 1 .. N
      PROVE  q[i] = rows[i] /\ \A k \in 0 .. n : G[i][k] \in Frac
  <2> DEFINE r == R(i)
             p == ps[i]
             h == [k \in 0 .. n |-> Times(c[k], Whole(Power(p.x, k)))]
             g == [k \in 0 .. n |-> G[i][k]]
  <2>1. q[i] = Times(r, SumOf(0, n, h)) /\ rows[i] = SumOf(0, n, g)
    BY DEF Worth, Row
  <2>2. r \in Frac
    BY <1>3
  <2>3. ASSUME NEW k \in 0 .. n
        PROVE  h[k] \in Frac /\ g[k] = Times(r, h[k]) /\ g[k] = G[i][k]
    <3> DEFINE u == c[k]
               w == W(i, k)
    <3>1. u \in Frac /\ w \in Frac
      BY <1>2, <1>3
    <3>2. h[k] = Times(u, w) /\ g[k] = Times(u, Times(r, w)) /\ g[k] = G[i][k]
      OBVIOUS
    <3> HIDE DEF u, w, r, h, g, G
    <3>3. Times(u, Times(r, w)) = Times(Times(u, r), w)
      BY <2>2, <3>1, TimesAssoc
    <3>4. Times(u, r) = Times(r, u)
      BY <2>2, <3>1, TimesComm
    <3>5. Times(Times(r, u), w) = Times(r, Times(u, w))
      BY <2>2, <3>1, TimesAssoc
    <3> QED
      BY <3>1, <3>2, <3>3, <3>4, <3>5, Closed
  <2> HIDE DEF r, p, h, g, q, rows, G
  <2>4. Addends(h, 0, n)
    BY <2>3 DEF Addends
  <2>5. SumOf(0, n, g) = Times(r, SumOf(0, n, h))
    BY <1>1, <2>2, <2>3, <2>4, SumTimes
  <2>6. \A k \in 0 .. n : g[k] \in Frac
    BY <2>2, <2>3, Closed
  <2> QED
    BY <2>1, <2>3, <2>5, <2>6
<1>5. ASSUME NEW k \in 0 .. n
      PROVE  cols[k] = Zero
  <2> DEFINE u == c[k]
             t == [i \in 1 .. N |-> Times(R(i), W(i, k))]
             g == [i \in 1 .. N |-> G[i][k]]
  <2>1. cols[k] = SumOf(1, N, g)
    BY DEF Col
  <2>2. u \in Frac
    BY <1>2
  <2>3. \A i \in 1 .. N : t[i] \in Frac /\ g[i] = Times(u, t[i])
    <3> TAKE i \in 1 .. N
    <3>1. t[i] = Times(R(i), W(i, k)) /\ g[i] = Times(u, Times(R(i), W(i, k)))
      OBVIOUS
    <3> DEFINE r == R(i)
               w == W(i, k)
    <3>2. r \in Frac /\ w \in Frac /\ t[i] = Times(r, w) /\ g[i] = Times(u, Times(r, w))
      BY <1>3, <3>1
    <3> HIDE DEF r, w, t, g
    <3> QED
      BY <3>2, Closed
  <2>4. SumOf(1, N, t) = Zero
    BY DEF Orthogonal
  <2> HIDE DEF u, t, g, cols
  <2>5. Addends(t, 1, N)
    BY <2>3 DEF Addends
  <2>6. SumOf(1, N, g) = Times(u, SumOf(1, N, t))
    BY <1>1, <2>2, <2>3, <2>5, SumTimes
  <2> QED
    BY <2>1, <2>2, <2>4, <2>6, Neutral
<1>6. SumOf(1, N, rows) = SumOf(0, n, cols)
  <2>1. \A i \in 1 .. N, j \in 0 .. n : G[i][j] \in Frac
    BY <1>4
  <2>2. /\ \A i \in 1 .. N : rows[i] = Row(G, i, 0, n)
        /\ \A j \in 0 .. n : cols[j] = Col(G, j, 1, N)
    OBVIOUS
  <2> HIDE DEF G, rows, cols
  <2> QED
    BY <1>1, <2>1, <2>2, SumOfRows, Z3
<1> HIDE DEF q, rows, cols, G
<1>7. SumOf(0, n, cols) = Zero
  BY <1>1, <1>5, SumZero
<1>8. SumOf(1, N, q) = SumOf(1, N, rows)
  BY <1>1, <1>4, SumSame
<1> QED
  BY <1>6, <1>7, <1>8 DEF q

\* No other coefficients have a smaller squared error.
LEMMA OrthogonalIsBest ==
  ASSUME NEW n, NEW a, NEW b, NEW c, Differ(n, a, b, c),
         NEW N \in Nat, NEW ps \in Points(N), Orthogonal(ps, N, n, a)
  PROVE  ~ Greater(SumOf(1, N, [i \in 1 .. N |-> Times(Remainder(ps[i], a, n), Remainder(ps[i], a, n))]),
                   SumOf(1, N, [i \in 1 .. N |-> Times(Remainder(ps[i], b, n), Remainder(ps[i], b, n))]))
<1> DEFINE R(i) == Remainder(ps[i], a, n)
           S(i) == Remainder(ps[i], b, n)
           C(i) == Worth(ps[i], c, n)
           rr == [i \in 1 .. N |-> Times(R(i), R(i))]
           ss == [i \in 1 .. N |-> Times(S(i), S(i))]
           cc == [i \in 1 .. N |-> Times(C(i), C(i))]
           rc == [i \in 1 .. N |-> Times(R(i), C(i))]
           dd == [i \in 1 .. N |-> Plus(rc[i], rc[i])]
           all == [i \in 1 .. N |-> Plus(rr[i], cc[i])]
<1>1. Bounds(1, N)
  BY DEF Bounds
<1>2. ASSUME NEW i \in 1 .. N
      PROVE  /\ rr[i] \in Frac /\ ss[i] \in Frac /\ cc[i] \in Frac /\ rc[i] \in Frac
             /\ cc[i].n >= 0 /\ dd[i] = Plus(rc[i], rc[i]) /\ dd[i] \in Frac
             /\ all[i] = Plus(rr[i], cc[i]) /\ all[i] = Plus(ss[i], dd[i])
  <2> DEFINE p == ps[i]
             r == R(i)
             s == S(i)
             t == C(i)
  <2>1. p.x \in Int /\ p.y \in Int
    BY DEF Points
  <2>2. s \in Frac /\ t \in Frac /\ r = Plus(s, t)
    <3>1. /\ Remainder(p, b, n) \in Frac /\ Worth(p, c, n) \in Frac
          /\ Remainder(p, a, n) = Plus(Remainder(p, b, n), Worth(p, c, n))
      <4> HIDE DEF p
      <4> QED
        BY <2>1, RemaindersDiffer
    <3> QED
      BY <3>1
  <2>3. /\ rr[i] = Times(r, r) /\ ss[i] = Times(s, s) /\ cc[i] = Times(t, t) /\ rc[i] = Times(r, t)
    OBVIOUS
  <2>4. dd[i] = Plus(rc[i], rc[i]) /\ all[i] = Plus(rr[i], cc[i])
    OBVIOUS
  <2> HIDE DEF r, s, t, rr, ss, cc, rc, dd, all
  <2>5. /\ Times(r, r) \in Frac /\ Times(s, s) \in Frac /\ Times(t, t) \in Frac /\ Times(r, t) \in Frac
        /\ Plus(Times(s, s), Plus(Times(r, t), Times(r, t))) = Plus(Times(r, r), Times(t, t))
    BY <2>2, SquareOfRest
  <2>6. Times(t, t).n >= 0
    BY <2>2, SquareSign
  <2>7. Plus(rc[i], rc[i]) \in Frac
    BY <2>3, <2>5, Closed
  <2> QED
    BY <2>3, <2>4, <2>5, <2>6, <2>7
<1>3. SumOf(1, N, rc) = Zero
  BY OrthogonalToAll
<1> HIDE DEF rr, ss, cc, rc, dd, all
<1>4. /\ Addends(rr, 1, N) /\ Addends(ss, 1, N) /\ Addends(cc, 1, N) /\ Addends(rc, 1, N)
      /\ Addends(dd, 1, N)
  BY <1>2 DEF Addends
<1>5. SumOf(1, N, dd) = Plus(Zero, Zero)
  BY <1>1, <1>2, <1>3, <1>4, SumPlus
<1>6. /\ SumOf(1, N, rr) \in Frac
      /\ SumOf(1, N, all) = Plus(SumOf(1, N, rr), SumOf(1, N, cc))
  BY <1>1, <1>2, <1>4, SumPlus
<1>7. SumOf(1, N, ss) \in Frac /\ SumOf(1, N, all) = Plus(SumOf(1, N, ss), SumOf(1, N, dd))
  BY <1>1, <1>2, <1>4, SumPlus
<1>8. SumOf(1, N, ss) = Plus(SumOf(1, N, rr), SumOf(1, N, cc))
  BY <1>5, <1>6, <1>7, Neutral, Constants
<1>9. SumOf(1, N, cc) \in Frac /\ SumOf(1, N, cc).n >= 0
  BY <1>1, <1>2, SumSign
<1>10. ~ Greater(SumOf(1, N, rr), SumOf(1, N, ss))
  BY <1>6, <1>8, <1>9, NotGreater
<1> QED
  BY <1>10 DEF rr, ss

\* Whatever fractions the coefficients of another polynomial of the order are,
\* it does not have a smaller squared error than the generic fit, which is
\* what least_squares_filter is for (method_of_least_squares.c 8-20, 146-193).
THEOREM GenericFitsAreBest ==
  RoutinesSpec =>
    [](IsFit /\ input.order >= 3 /\ result \notin {Nothing, Singular} =>
         \A b \in [0 .. input.order -> Frac] :
           ~ Greater(SquaredErrors(input.points, result, input.order),
                     SquaredErrors(input.points, b, input.order)))
<1>1. RoutinesInv /\ CubicIsLeastSquares =>
        (IsFit /\ input.order >= 3 /\ result \notin {Nothing, Singular} =>
           \A b \in [0 .. input.order -> Frac] :
             ~ Greater(SquaredErrors(input.points, result, input.order),
                       SquaredErrors(input.points, b, input.order)))
  <2> SUFFICES ASSUME RoutinesInv, CubicIsLeastSquares, IsFit, input.order >= 3,
                      result \notin {Nothing, Singular},
                      NEW b \in [0 .. input.order -> Frac]
               PROVE  ~ Greater(SquaredErrors(input.points, result, input.order),
                                SquaredErrors(input.points, b, input.order))
    OBVIOUS
  <2> DEFINE ps == input.points
             N == Len(ps)
             a == result
             c == [k \in 0 .. 3 |-> Minus(b[k], a[k])]
  <2>1. ps \in CubicLists /\ input.order = 3
    BY DEF RoutinesInv, IsFit
  <2>2. a = generic_filter(ps, 3) /\ a # Singular
    BY <2>1 DEF RoutinesInv, Called
  <2>3. ps \in Seq([x : Int, y : Int])
    BY <2>1, RoutinesAssumption
  <2>4. \A m \in 0 .. 3 :
          SumOf(1, Len(ps), [i \in DOMAIN ps |-> Times(Remainder(ps[i], a, 3),
                                                       Whole(Power(ps[i].x, m)))]) = Zero
    BY <2>1 DEF CubicIsLeastSquares, Zero
  <2> HIDE DEF ps
  <2>5. N \in Nat /\ ps \in Points(N) /\ DOMAIN ps = 1 .. N
    BY <2>3, SeqParts, Zenon DEF Points
  <2>6. Orthogonal(ps, N, 3, a)
    BY <2>4, <2>5 DEF Orthogonal
  <2>7. a \in [0 .. 3 -> Frac]
    <3> DEFINE F == Table(FractionsOf(NormalEquations(ps, 3)))
    <3>1. 3 \in Nat /\ 4 = 3 + 1 /\ 4 - 1 = 3
      OBVIOUS
    <3> HIDE DEF N, a
    <3>2. generic_filter(ps, 3) \in Vec(4)
      BY <2>2, <2>5, <3>1, GenericSolves
    <3> QED
      BY <2>2, <3>1, <3>2 DEF Vec
  <2> HIDE DEF N, a
  <2>8. Differ(3, a, b, c)
    <3>1. b \in [0 .. 3 -> Frac]
      BY <2>1
    <3>2. \A k \in 0 .. 3 : c[k] \in Frac /\ b[k] = Plus(c[k], a[k])
      <4> TAKE k \in 0 .. 3
      <4> DEFINE u == b[k]
                 v == a[k]
      <4>1. u \in Frac /\ v \in Frac /\ c[k] = Minus(u, v)
        BY <2>7, <3>1
      <4> HIDE DEF u, v, c
      <4>2. Minus(u, v) \in Frac /\ Plus(Minus(u, v), v) = u
        BY <4>1, Closed, MinusPlus
      <4> QED
        BY <4>1, <4>2 DEF u, v
    <3>3. c \in [0 .. 3 -> Frac]
      BY <3>2
    <3> QED
      BY <2>7, <3>1, <3>2, <3>3 DEF Differ
  <2> HIDE DEF c
  <2>9. ~ Greater(SumOf(1, N, [i \in 1 .. N |-> Times(Remainder(ps[i], a, 3), Remainder(ps[i], a, 3))]),
                  SumOf(1, N, [i \in 1 .. N |-> Times(Remainder(ps[i], b, 3), Remainder(ps[i], b, 3))]))
    BY <2>5, <2>6, <2>8, OrthogonalIsBest
  <2> QED
    BY <2>1, <2>5, <2>9 DEF SquaredErrors, N, ps, a
<1> QED
  BY <1>1, RoutinesInvHolds, GenericFitsAreLeastSquares, PTL
=============================================================================
