----------------------------- MODULE MCNumerics -----------------------------
(***************************************************************************)
(* Inputs for TLC: every small matrix and list of points over a few        *)
(* numbers, and chosen ones of the larger sizes.  Calls of the routines    *)
(* and calibrations have nothing in common but the routines; a behaviour   *)
(* is one or the other, and the variables of the other are at rest.        *)
(***************************************************************************)
EXTENDS MCCalibration, Routines

EntryValues == {-1, 0, 2}
OrdinateValues == {0, 1, 3}
NextTo == {-1, 0, 1}

\* Matrices of size 4 made of rows with zeros in different places, some
\* multiples and sums of others: they need exchanges, or are singular.
LongRows == {<<0, 0, 0, 0>>, <<0, 0, 3, 1>>, <<0, 2, 0, 1>>, <<2, 0, 0, -4>>,
             <<1, 0, 0, -2>>, <<1, -1, 2, 0>>, <<0, 2, 3, 2>>, <<4, 1, 1, 1>>}
FourByFour ==
  {Mat(4, 4, LAMBDA m, n : rows[m + 1][n + 1]) : rows \in [1 .. 4 -> LongRows]}

\* Four or five points for a cubic, on three to five different places.
ForCubics ==
  {[i \in 1 .. Len(xs) |-> [x |-> xs[i], y |-> ys[i]]] :
     <<xs, ys>> \in {<<-1, 0, 1, 2>>, <<2, -1, -2, 1>>, <<0, 1, 1, 2>>}
                      \X [1 .. 4 -> {-1, 0, 2}]
     \cup {<<-2, 0, 1, 2, -1>>, <<1, 0, 1, 2, -1>>, <<0, 1, 2, 0, 1>>}
                      \X [1 .. 5 -> {0, 3}]}

-----------------------------------------------------------------------------
\* A calibration that is over.
Calibrated ==
  /\ route = "tool" /\ pc = "done"
  /\ cell = [gain |-> 2, zero |-> 4]
  /\ argv = <<>> /\ points = <<>> /\ mult = NoMultiplier
  /\ buf_len = 4 /\ room = 4 /\ intact = TRUE

EitherInit ==
  \/ Init /\ input = Nothing /\ result = Nothing
  \/ RoutinesInit /\ Calibrated

EitherNext ==
  \/ Next /\ UNCHANGED routineVars
  \/ RoutinesNext /\ UNCHANGED vars

EitherSpec == EitherInit /\ [][EitherNext]_<<vars, routineVars>>
=============================================================================
