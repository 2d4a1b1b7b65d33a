---------------------------- MODULE LeastSquares ----------------------------
(***************************************************************************)
(* method_of_least_squares.c: the polynomial fits, by their normal         *)
(* equations.  The points are a sequence of records with integer fields x  *)
(* and y.  The coefficients come back as numerators over one `div`.        *)
(***************************************************************************)
EXTENDS NumericalBasics

\* The sum of term(p) over the points, one after the other.
SumOver(points, term(_)) ==
  Total([i \in DOMAIN points |-> term(points[i])])

\* x to the power of e.
Power(x, e) == LET power[k \in 0 .. e] == IF k = 0 THEN 1 ELSE power[k - 1] * x
               IN power[e]

\* MUTANT: the number of points is left out of the equations.
NormalEquationsNoCount(points, order) ==
  Mat(order + 1, order + 1,
      LAMBDA m, n : IF m + n = 0 THEN 1
                    ELSE SumOver(points, LAMBDA p : Power(p.x, m + n)))

\* `eq` and `ac`.
NormalEquations(points, order) ==
  Mat(order + 1, order + 1,
      LAMBDA m, n : SumOver(points, LAMBDA p : Power(p.x, m + n)))
RightHandSide(points, order) ==
  Mat(order + 1, 1, LAMBDA m, n : SumOver(points, LAMBDA p : p.y * Power(p.x, m)))

\* matmul(matinv(eq, ei), ac, co); matinv() asserts that eq is regular.
SolveNormal(points, order) ==
  LET inv == matinv_safe(NormalEquations(points, order))
  IN IF inv = Singular THEN Singular
     ELSE [a   |-> matmul(inv.num, RightHandSide(points, order)).vals,
           div |-> inv.div]

zero_order_least_squares_filter(points) ==
  [a |-> [i \in {0} |-> SumOver(points, LAMBDA p : p.y)], div |-> Len(points)]

first_order_least_squares_filter(points) == SolveNormal(points, 1)
second_order_least_squares_filter(points) == SolveNormal(points, 2)

\* least_squares_filter, for the orders it passes on.
least_squares_filter(points, order) ==
  CASE order = 0 -> zero_order_least_squares_filter(points)
    [] order = 1 -> first_order_least_squares_filter(points)
    [] order = 2 -> second_order_least_squares_filter(points)
=============================================================================
