------------------------------ MODULE Routines ------------------------------
(***************************************************************************)
(* The numerical routines that the programs call, each with any input:     *)
(* a state is an input and then the result, which is held against what the *)
(* routine is to compute.                                                  *)
(***************************************************************************)
EXTENDS LUDecomposition, Functions

CONSTANTS
  Entries,        \* what the matrices that are inverted are made of
  Abscissae,      \* the coordinates of the points of a fit
  Ordinates,
  MaxLen,         \* bound: number of points of a fit of order 0 to 2
  Offsets,        \* by what the coefficients of a fit are varied
  LargeMatrices,  \* square integer matrices of other sizes
  CubicLists      \* lists of points with integer coordinates

ASSUME RoutinesAssumption ==
  /\ Entries \subseteq Int /\ Abscissae \subseteq Int /\ Ordinates \subseteq Int
  /\ Offsets \subseteq Int
  /\ MaxLen \in Nat
  /\ \A a \in LargeMatrices :
       /\ a.rows \in Nat \ {0}
       /\ a \in [rows : {a.rows}, cols : {a.rows}, vals : [0 .. a.rows * a.rows - 1 -> Int]]
  /\ CubicLists \subseteq Seq([x : Int, y : Int])

VARIABLES input, result

routineVars == <<input, result>>

Nothing == [nothing |-> TRUE]

Square(n) == [rows : {n}, cols : {n}, vals : [0 .. n * n - 1 -> Entries]]
Matrices == UNION {Square(n) : n \in 1 .. 3}
PointLists ==
  UNION {[1 .. n -> [x : Abscissae, y : Ordinates]] : n \in 1 .. MaxLen}

IsMatrix == "matrix" \in DOMAIN input
IsLarge == "large" \in DOMAIN input
IsFit == "points" \in DOMAIN input

RoutinesInit ==
  /\ \/ input \in [matrix : Matrices]
     \/ input \in [large : LargeMatrices \cup Matrices]
     \/ input \in [points : PointLists, order : 0 .. 2]
     \/ input \in [points : CubicLists, order : {3}]
  /\ result = Nothing

Call(value) == result = Nothing /\ result' = value /\ UNCHANGED input

Invert == IsMatrix /\ Call(matinv_safe(input.matrix))
Decompose ==
  IsLarge /\ Call([inverse |-> matinv_default(input.large),
                   det     |-> matdet_default(input.large)])
Fit == IsFit /\ input.order < 3 /\ Call(least_squares_filter(input.points, input.order))
FitCubic == IsFit /\ input.order >= 3 /\ Call(generic_filter(input.points, input.order))

RoutinesNext == Invert \/ Decompose \/ Fit \/ FitCubic

RoutinesSpec == RoutinesInit /\ [][RoutinesNext]_routineVars

-----------------------------------------------------------------------------
(* The definitions the results are held against.                           *)

\* The determinant as the signed sum of the products over all permutations.
Perms(n) == Bijection(0 .. n - 1, 0 .. n - 1)
Inversions(p) ==
  {ij \in (DOMAIN p) \X (DOMAIN p) : ij[1] < ij[2] /\ p[ij[1]] > p[ij[2]]}
Sign(p) == IF Cardinality(Inversions(p)) % 2 = 0 THEN 1 ELSE -1
PermsOf == [n \in 1 .. 4 |-> {<<p, Sign(p)>> : p \in Perms(n)}]
Leibniz(a) ==
  MapThenSumSet(
    LAMBDA p : p[2] * FoldFunction(LAMBDA x, y : x * y, 1,
                                   [m \in 0 .. a.rows - 1 |-> Entry(a, m, p[1][m])]),
    PermsOf[a.rows])

\* The polynomial of order n with coefficients a, and the squared error of it
\* over `div`, times div squared.
Polynomial(a, n, x) == Total([i \in 1 .. n + 1 |-> a[i - 1] * Power(x, i - 1)])
Error(p, a, n, div) == div * p.y - Polynomial(a, n, p.x)
Loss(ps, a, n, div) == SumOver(ps, LAMBDA p : Error(p, a, n, div) * Error(p, a, n, div))

Places(ps) == Cardinality({ps[i].x : i \in DOMAIN ps})

\* What matinv_safe (numerical_basics.c 177-274) returns for a matrix that it
\* does not refuse is an inverse from both sides, over a determinant that is
\* not 0, and its transpose is the inverse of the transpose.
InverseIsExact ==
  IsMatrix /\ result \notin {Nothing, Singular} =>
    LET a == input.matrix
    IN /\ result.div # 0
       /\ matmul(a, result.num) = matsca(matidn(a.rows), result.div)
       /\ matmul(result.num, a) = matsca(matidn(a.rows), result.div)
       /\ matinv_safe(mattrn(a)) = [num |-> mattrn(result.num), div |-> result.div]

\* The product of two matrices of fractions.
Product(l, r) ==
  Mat(l.rows, r.cols,
      LAMBDA i, j : SumOf(0, r.rows - 1,
                          [k \in Rows(r) |-> Times(Entry(l, i, k), Entry(r, k, j))]))

\* Whatever rows are exchanged on the way (numerical_basics.c 276-378), the
\* decomposition solves for an inverse from both sides - for matrices of
\* every size, so it agrees with the closed forms where both exist, and these
\* refuse the same.
DecompositionInverts ==
  IsLarge /\ result # Nothing =>
    LET a == input.large
        inv == result.inverse
    IN /\ a.rows <= 3 => (matinv_safe(a) = Singular <=> inv = Singular)
       /\ inv # Singular =>
            /\ Product(FractionsOf(a), inv) = FractionsOf(matidn(a.rows))
            /\ Product(inv, FractionsOf(a)) = FractionsOf(matidn(a.rows))

\* The decomposition gives the determinant with its sign, and is refused
\* exactly when that is 0 (numerical_basics.c 276-340).
DeterminantIsLeibniz ==
  IsLarge /\ result # Nothing =>
    /\ result.det = Whole(Leibniz(input.large))
    /\ result.inverse = Singular <=> Leibniz(input.large) = 0

\* A fit of order n is there exactly when there are more than n different x
\* to fit through, otherwise matinv() asserts (numerical_basics.c 160); and
\* no polynomial that is got from it by changing numerators has a smaller
\* error (method_of_least_squares.c 8-20, 57-130).
FitIsLeastSquares ==
  IsFit /\ result # Nothing /\ input.order < 3 =>
    LET ps == input.points
        n == input.order
    IN /\ result = Singular <=> Places(ps) <= n
       /\ result # Singular =>
            \A d \in [0 .. n -> Offsets] :
              Loss(ps, result.a, n, result.div)
                <= Loss(ps, [i \in 0 .. n |-> result.a[i] + d[i]], n, result.div)

\* What the polynomial with coefficients a leaves of a point.
Remainder(p, a, n) ==
  Minus(Whole(p.y),
        SumOf(0, n, [i \in 0 .. n |-> Times(a[i], Whole(Power(p.x, i)))]))

\* The generic fit (method_of_least_squares.c 146-193), too, is refused
\* exactly when there are too few different x, and otherwise what the
\* polynomial leaves of the points is orthogonal to every power of x up to
\* its order.
CubicIsLeastSquares ==
  IsFit /\ result # Nothing /\ input.order >= 3 =>
    LET ps == input.points
        n == input.order
    IN /\ result = Singular <=> Places(ps) <= n
       /\ result # Singular =>
            \A m \in 0 .. n :
              SumOf(1, Len(ps),
                    [i \in DOMAIN ps |-> Times(Remainder(ps[i], result, n),
                                               Whole(Power(ps[i].x, m)))])
                = Whole(0)
=============================================================================
