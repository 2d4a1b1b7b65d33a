--------------------------- MODULE NumericalBasics ---------------------------
(***************************************************************************)
(* numerical_basics.c: the matrices the calibration is computed with, up   *)
(* to the sizes that are inverted in closed form.  A matrix is stored row  *)
(* after row in `vals`, as in the code.  Entries are integers and nothing  *)
(* is divided: an inverse is returned as its numerators over one           *)
(* determinant, so that the arithmetic is exact.                           *)
(***************************************************************************)
EXTENDS Integers, SequencesExt

\* The rows x cols matrix whose entry in row m, column n is entry(m, n).
Mat(rows, cols, entry(_, _)) ==
  [rows |-> rows, cols |-> cols,
   vals |-> [pos \in 0 .. rows * cols - 1 |-> entry(pos \div cols, pos % cols)]]

Entry(a, m, n) == a.vals[n + m * a.cols]

\* What a loop with `sum += t[i]` ends with.
Total(t) == FoldLeft(LAMBDA sum, v : sum + v, 0, t)

\* The result of an inversion that was refused.
Singular == [singular |-> TRUE]

mattrn(a) == Mat(a.cols, a.rows, LAMBDA m, n : Entry(a, n, m))

\* l.cols = r.rows
matmul(l, r) ==
  Mat(l.rows, r.cols,
      LAMBDA i, j : Total([k \in 1 .. l.cols |-> Entry(l, i, k - 1) * Entry(r, k - 1, j)]))

matsca(a, scalar) == Mat(a.rows, a.cols, LAMBDA m, n : Entry(a, m, n) * scalar)

matidn(rows) == Mat(rows, rows, LAMBDA m, n : IF m = n THEN 1 ELSE 0)

\* The determinant of a square matrix, also the `div` of matinv_safe.
matdet(a) ==
  LET v(i) == a.vals[i]
  IN CASE a.rows = 1 -> v(0)
       [] a.rows = 2 -> v(0) * v(3) - v(1) * v(2)
       [] a.rows = 3 -> v(0) * v(4) * v(8) + v(1) * v(5) * v(6)
                          + v(2) * v(3) * v(7) - v(2) * v(4) * v(6)
                          - v(1) * v(3) * v(8) - v(0) * v(5) * v(7)

\* What matinv_safe divides by `div`, in the order of `vals`.
Numerators(a) ==
  LET v(i) == a.vals[i]
      listed ==
        CASE a.rows = 1 -> <<1>>
          [] a.rows = 2 -> <<v(3), -v(1), -v(2), v(0)>>
          [] a.rows = 3 -> <<v(4) * v(8) - v(5) * v(7),
                             v(2) * v(7) - v(1) * v(8),
                             v(1) * v(5) - v(4) * v(2),
                             v(6) * v(5) - v(3) * v(8),
                             v(0) * v(8) - v(6) * v(2),
                             v(3) * v(2) - v(0) * v(5),
                             v(3) * v(7) - v(6) * v(4),
                             v(6) * v(1) - v(0) * v(7),
                             v(0) * v(4) - v(1) * v(3)>>
  IN Mat(a.rows, a.cols, LAMBDA m, n : listed[n + m * a.cols + 1])

\* MUTANT: the numerators are stored without the transposition.
matinv_safeCofactors(a) ==
  IF matdet(a) = 0 THEN Singular
  ELSE [num |-> mattrn(Numerators(a)), div |-> matdet(a)]

matinv_safe(a) ==
  IF matdet(a) = 0 THEN Singular
  ELSE [num |-> Numerators(a), div |-> matdet(a)]
=============================================================================
