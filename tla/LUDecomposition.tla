--------------------------- MODULE LUDecomposition ---------------------------
(***************************************************************************)
(* numerical_basics.c and method_of_least_squares.c for sizes above 3:     *)
(* the LU decomposition with scaled partial pivoting, the determinant and  *)
(* the inverse made from it, and the fits of order 3 and more.  Doubles    *)
(* are exact fractions here.                                               *)
(***************************************************************************)
EXTENDS LeastSquares, Fractions

\* The matrix of integers `a` in fractions.
FractionsOf(a) == Mat(a.rows, a.cols, LAMBDA m, n : Whole(Entry(a, m, n)))

Rows(a) == 0 .. a.rows - 1

-----------------------------------------------------------------------------
(* _lu_decomp_mat: [m, d, indx] and, while it is under way, the scale vv.   *)

\* The first of the elements of S, a set of indices, whose value v no other
\* exceeds.
FirstGreatest(S, v) ==
  CHOOSE i \in S : \A j \in S : IF j < i THEN Greater(v[i], v[j]) ELSE ~Greater(v[j], v[i])

\* The row with the largest entry in column k, for its scale.
PivotRow(s, k) ==
  LET below == k .. s.m.rows - 1
  IN FirstGreatest(below, [i \in below |-> Times(s.vv[i], fabs(Entry(s.m, i, k)))])

\* a with rows k and l exchanged.
Exchanged(a, k, l) ==
  LET row(i) == CASE i = k -> l [] i = l -> k [] OTHER -> i
  IN Mat(a.rows, a.cols, LAMBDA i, j : Entry(a, row(i), j))

\* MUTANT: the sign of the determinant is forgotten when rows are exchanged.
PivotedSameSign(s, k) ==
  LET imax == PivotRow(s, k)
  IN [s EXCEPT !.m = Exchanged(s.m, k, imax),
               !.vv[imax] = s.vv[k],
               !.indx[k] = imax]

\* The pivot row becomes row k.
Pivoted(s, k) ==
  LET imax == PivotRow(s, k)
  IN [s EXCEPT !.m = Exchanged(s.m, k, imax),
               !.d = IF imax = k THEN s.d ELSE -s.d,
               !.vv[imax] = s.vv[k],
               !.indx[k] = imax]

\* Column k is divided by the pivot and the rows below are reduced by it.
Eliminated(s, k) ==
  LET factor(i) == Over(Entry(s.m, i, k), Entry(s.m, k, k))
      reduced(i, j) ==
        CASE i <= k \/ j < k -> Entry(s.m, i, j)
          [] i > k /\ j = k  -> factor(i)
          [] OTHER -> Minus(Entry(s.m, i, j), Times(factor(i), Entry(s.m, k, j)))
  IN [s EXCEPT !.m = Mat(s.m.rows, s.m.cols, reduced)]

\* The loop over the columns.
Column(s, k) ==
  IF s = Singular THEN Singular
  ELSE LET p == Pivoted(s, k)
       IN IF Entry(p.m, k, k).n = 0 THEN Singular ELSE Eliminated(p, k)

\* The largest entry of a row.
Big(f, i) ==
  LET sizes == [j \in Rows(f) |-> fabs(Entry(f, i, j))]
  IN sizes[FirstGreatest(Rows(f), sizes)]

_lu_decomp_mat(a) ==
  LET f == FractionsOf(a)
      scaled == [m |-> f, d |-> 1, indx |-> [i \in Rows(a) |-> i],
                 vv |-> [i \in Rows(a) |-> Over(Whole(1), Big(f, i))]]
      lu[k \in 0 .. a.rows] == IF k = 0 THEN scaled ELSE Column(lu[k - 1], k - 1)
  IN IF \E i \in Rows(a) : Big(f, i).n = 0 THEN Singular ELSE lu[a.rows]

-----------------------------------------------------------------------------
(* _solve_mat                                                               *)

\* MUTANT: the exchanges of rows are not made in x.
ForwardUnpermuted(lu, s, i) ==
  LET sum == IF s.ii = 0 THEN s.x[i]
             ELSE Minus(s.x[i], SumOf(s.ii - 1, i - 1,
                     [j \in s.ii - 1 .. i - 1 |-> Times(Entry(lu.m, i, j), s.x[j])]))
  IN [x  |-> [s.x EXCEPT ![i] = sum],
      ii |-> IF s.ii = 0 /\ sum.n # 0 THEN i + 1 ELSE s.ii]

\* Forward substitution, which undoes the exchanges of rows on the way; ii
\* is 0 until it has met an entry other than 0, and then where that is + 1.
Forward(lu, s, i) ==
  LET ip == lu.indx[i]
      x == [s.x EXCEPT ![ip] = s.x[i]]
      sum == IF s.ii = 0 THEN s.x[ip]
             ELSE Minus(s.x[ip], SumOf(s.ii - 1, i - 1,
                     [j \in s.ii - 1 .. i - 1 |-> Times(Entry(lu.m, i, j), x[j])]))
  IN [x  |-> [x EXCEPT ![i] = sum],
      ii |-> IF s.ii = 0 /\ sum.n # 0 THEN i + 1 ELSE s.ii]

\* Back substitution for row i.
Backward(lu, x, i) ==
  LET last == lu.m.rows - 1
      known == SumOf(i + 1, last, [j \in i + 1 .. last |-> Times(Entry(lu.m, i, j), x[j])])
  IN [x EXCEPT ![i] = Over(Minus(x[i], known), Entry(lu.m, i, i))]

\* The first loop goes through the rows from the first, the second from the
\* last.
_solve_mat(lu, b) ==
  LET n == lu.m.rows
      y[k \in 0 .. n] == IF k = 0 THEN [x |-> b, ii |-> 0] ELSE Forward(lu, y[k - 1], k - 1)
      x[k \in 0 .. n] == IF k = 0 THEN y[n].x ELSE Backward(lu, x[k - 1], n - k)
  IN x[n]

-----------------------------------------------------------------------------
(* What uses it.                                                            *)

\* matinv_safe, default case: the columns of the identity are solved for.
matinv_default(a) ==
  LET lu == _lu_decomp_mat(a)
      column == [j \in Rows(a) |->
                   _solve_mat(lu, [i \in Rows(a) |-> Whole(IF i = j THEN 1 ELSE 0)])]
  IN IF lu = Singular THEN Singular
     ELSE Mat(a.rows, a.rows, LAMBDA i, j : column[j][i])

\* matdet, default case.
matdet_default(a) ==
  LET lu == _lu_decomp_mat(a)
  IN IF lu = Singular THEN Whole(0)
     ELSE Times(Whole(lu.d), ProductOf(0, a.rows - 1, [i \in Rows(a) |-> Entry(lu.m, i, i)]))

\* The product of the inverse with the right-hand side.
Coefficient(ei, ac, i) ==
  SumOf(0, ei.rows - 1, [k \in Rows(ei) |-> Times(Entry(ei, i, k), Whole(Entry(ac, k, 0)))])

\* MUTANT: the matrix is filled up to its diagonal only.
generic_filterTriangle(points, order) ==
  LET eq == NormalEquations(points, order)
      ac == RightHandSide(points, order)
      ei == matinv_default(Mat(order + 1, order + 1,
                               LAMBDA m, n : IF n > m THEN 0 ELSE Entry(eq, m, n)))
  IN IF ei = Singular THEN Singular
     ELSE [i \in 0 .. order |-> Coefficient(ei, ac, i)]

\* least_squares_filter, default case: the coefficients, the zeroth first.
generic_filter(points, order) ==
  LET eq == NormalEquations(points, order)
      ac == RightHandSide(points, order)
      ei == matinv_default(eq)
  IN IF ei = Singular THEN Singular
     ELSE [i \in 0 .. order |-> Coefficient(ei, ac, i)]
=============================================================================
