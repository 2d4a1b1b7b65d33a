----------------------------- MODULE Calibration -----------------------------
(***************************************************************************)
(* The two ways to calibrate the stand.  Either load_cell_calibration.c    *)
(* fits a line through as many weights as its user measures, and the two   *)
(* numbers it prints are given to the server with -k; or the server is     *)
(* given the weights with -c and fits a line of its own before it serves.  *)
(*                                                                         *)
(* The load cell is linear and without noise, so that a weight has one     *)
(* reading and the right line is known.  Numbers are exact fractions.      *)
(***************************************************************************)
EXTENDS LeastSquares

CONSTANTS
  ADC_MAX,     \* largest reading of the ADC
  Weights,     \* known weights, of one or two decimal digits
  Gains,       \* the load cell: reading = gain * weight + zero
  Zeros,
  Precision,   \* printf("%lf") keeps 1 / Precision
  MaxWeights,  \* bound: weights measured in one calibration
  KnownRoom,   \* the server has memory for so many weights of -c
  Padded,      \* the server's list of weights begins with a blank
  AnyLine      \* bound: what comes out of harmed memory or of rounding

ASSUME CalibrationAssumption ==
  /\ ADC_MAX \in Nat \ {0}
  /\ Weights \subseteq 0 .. 99
  /\ Gains \subseteq Int \ {0}
  /\ Zeros \subseteq Int
  /\ Precision \in Nat \ {0}
  /\ MaxWeights \in Nat \ {0}
  /\ KnownRoom \in Nat \ {0}
  /\ Padded \in BOOLEAN
  /\ AnyLine \subseteq [m : [n : Int, d : Int \ {0}], b : [n : Int, d : Int \ {0}]]
  /\ \A line \in AnyLine : line.m.d = line.b.d

VARIABLES
  route,    \* "tool", or "-c" for the server's own calibration
  cell,     \* the gain and the zero of the load cell
  argv,     \* the weights in the server's argument
  points,   \* the reading x and the known weight y of each measurement
  buf_len,  \* number of entries the tool believes its buffers hold
  room,     \* number of entries that are allocated
  intact,   \* no write beyond the allocation has done harm
  mult,     \* multiplier_m and multiplier_b, as fractions
  pc        \* "prompt", "fit", "printed", "serving", or how it ended

vars == <<route, cell, argv, points, buf_len, room, intact, mult, pc>>

SizeofDouble == 8
NoMultiplier == [none |-> TRUE]

ReadingOf(w) == cell.gain * w + cell.zero
Fraction(n, d) == [n |-> n, d |-> d]

\* n / d as it is printed: the nearest multiple of 1 / Precision.
Printed(n, d) == Fraction((2 * n * Precision + d) \div (2 * d), Precision)

Init ==
  /\ route \in {"tool", "-c"}
  /\ cell \in [gain : Gains, zero : Zeros]
  /\ argv \in IF route = "-c" THEN UNION {[1 .. n -> Weights] : n \in 1 .. MaxWeights}
                              ELSE {<<>>}
  /\ points = <<>>
  /\ buf_len = 4
  /\ room = 4
  \* The weights of -c are stored before anything else, without a limit.
  /\ intact \in IF Len(argv) > KnownRoom THEN BOOLEAN ELSE {TRUE}
  /\ mult = NoMultiplier
  /\ pc = "prompt"

-----------------------------------------------------------------------------
(* load_cell_calibration.c                                                  *)

\* MUTANT: the buffer is grown one entry late.
MeasureGrowsLate(w) ==
  LET grows == Len(points) > buf_len
      room2 == IF grows THEN (buf_len * 2) \div SizeofDouble ELSE room
  IN /\ route = "tool" /\ pc = "prompt"
     /\ Len(points) < MaxWeights
     /\ buf_len' = IF grows THEN buf_len * 2 ELSE buf_len
     /\ room' = room2
     /\ points' = Append(points, [x |-> ReadingOf(w), y |-> w])
     /\ intact' \in IF Len(points) < room2 THEN {intact} ELSE {intact, FALSE}
     /\ UNCHANGED <<route, cell, argv, mult, pc>>

\* MUTANT: the length of the grown buffers is not noted.
MeasureKeepsLength(w) ==
  LET room2 == IF Len(points) = buf_len THEN buf_len * 2 ELSE room
  IN /\ route = "tool" /\ pc = "prompt"
     /\ Len(points) < MaxWeights
     /\ room' = room2
     /\ points' = Append(points, [x |-> ReadingOf(w), y |-> w])
     /\ UNCHANGED <<route, cell, argv, buf_len, intact, mult, pc>>

\* A line with a weight.  A full buffer is doubled first, with realloc()
\* given the new number of entries for the number of bytes; what a write
\* beyond the allocation does is up to the heap.
Measure(w) ==
  LET grows == Len(points) = buf_len
      room2 == IF grows THEN (buf_len * 2) \div SizeofDouble ELSE room
  IN /\ route = "tool" /\ pc = "prompt"
     /\ Len(points) < MaxWeights
     /\ buf_len' = IF grows THEN buf_len * 2 ELSE buf_len
     /\ room' = room2
     /\ points' = Append(points, [x |-> ReadingOf(w), y |-> w])
     /\ intact' \in IF Len(points) < room2 THEN {intact} ELSE {intact, FALSE}
     /\ UNCHANGED <<route, cell, argv, mult, pc>>

\* "b" takes back the last measurement.
Undo ==
  /\ route = "tool" /\ pc = "prompt"
  /\ points # <<>>
  /\ points' = SubSeq(points, 1, Len(points) - 1)
  /\ UNCHANGED <<route, cell, argv, buf_len, room, intact, mult, pc>>

\* "q"
Quit ==
  /\ route = "tool" /\ pc = "prompt"
  /\ pc' = IF points = <<>> THEN "done" ELSE "fit"
  /\ UNCHANGED <<route, cell, argv, points, buf_len, room, intact, mult>>

\* The input ends without a "q".  fgets() is not asked whether it read
\* anything: the line before is taken again, shorter by a character each
\* time, so its first digit may be measured as one more weight; once it is
\* empty the loop goes round for ever.
EndOfInput ==
  /\ route = "tool" /\ pc = "prompt"
  /\ pc' = "spinning"
  /\ UNCHANGED <<route, cell, argv, points, buf_len, room, intact, mult>>

\* MUTANT: the coefficients are taken in the order of the polynomial.
PrintLineSwapped ==
  /\ route = "tool" /\ pc = "fit"
  /\ intact
  /\ LET line == first_order_least_squares_filter(points)
     IN /\ line # Singular
        /\ mult' = [m |-> Printed(line.a[0], line.div),
                    b |-> Printed(line.a[1] * ADC_MAX, line.div)]
  /\ pc' = "printed"
  /\ UNCHANGED <<route, cell, argv, points, buf_len, room, intact>>

\* The fit is over reading / ADC_MAX, so its slope is ADC_MAX times that
\* over readings.
PrintLine ==
  /\ route = "tool" /\ pc = "fit"
  /\ intact
  /\ LET line == first_order_least_squares_filter(points)
     IN /\ line # Singular
        /\ mult' = [m |-> Printed(line.a[1] * ADC_MAX, line.div),
                    b |-> Printed(line.a[0], line.div)]
  /\ pc' = "printed"
  /\ UNCHANGED <<route, cell, argv, points, buf_len, room, intact>>

\* The assertion of matinv() that the normal equations are regular fails, or
\* the heap notices at some call what a write beyond the buffers did to it.
FitFails ==
  /\ route = "tool"
  /\ \/ pc \in {"prompt", "fit"} /\ ~intact
     \/ pc = "fit" /\ first_order_least_squares_filter(points) = Singular
  /\ pc' = "aborted"
  /\ UNCHANGED <<route, cell, argv, points, buf_len, room, intact, mult>>

\* The fit goes through although there is no line, or not this one: it is
\* made over what harmed buffers hold, or over doubles, of which more than
\* two equal ones may give a determinant that is not quite 0.  What comes
\* out is printed like any other line.
PrintAnyLine ==
  /\ route = "tool" /\ pc = "fit"
  /\ \/ ~intact
     \/ Len(points) > 2 /\ first_order_least_squares_filter(points) = Singular
  /\ mult' \in AnyLine
  /\ pc' = "printed"
  /\ UNCHANGED <<route, cell, argv, points, buf_len, room, intact>>

\* load_cell_serv -k: the two numbers are read back as they were printed.
ServeKnown ==
  /\ route = "tool" /\ pc = "printed"
  /\ pc' = "serving"
  /\ UNCHANGED <<route, cell, argv, points, buf_len, room, intact, mult>>

-----------------------------------------------------------------------------
(* load_cell_serv -c                                                        *)

\* The list is parsed from its second character on: unless that skips a
\* blank the first weight loses a digit, and is 0 when it had no other.
ParsedWeight(i) ==
  IF i > 1 \/ Padded THEN argv[i]
  ELSE IF argv[i] > 9 THEN argv[i] % 10 ELSE 0

\* The weights are put on the scale one after the other.
MeasureNext ==
  /\ route = "-c" /\ pc = "prompt"
  /\ LET i == Len(points) + 1
     IN /\ i <= Len(argv)
        /\ points' = Append(points, [x |-> ReadingOf(argv[i]), y |-> ParsedWeight(i)])
  /\ UNCHANGED <<route, cell, argv, buf_len, room, intact, mult, pc>>

\* The fit is over the readings themselves, and first_order_least_squares_-
\* filter, which stores the constant term first, is given &multiplier_m,
\* &multiplier_b.  Readings are integers, whose determinant is not rounded;
\* over a list that outgrew its memory any line may come out.
FitAndServe ==
  /\ route = "-c" /\ pc = "prompt"
  /\ Len(points) = Len(argv)
  /\ LET line == first_order_least_squares_filter(points)
     IN \/ /\ line = Singular \/ ~intact
           /\ pc' = "aborted"
           /\ UNCHANGED mult
        \/ /\ pc' = "serving"
           /\ \/ ~intact /\ mult' \in AnyLine
              \/ /\ intact /\ line # Singular
                 /\ mult' = [m |-> Fraction(line.a[0], line.div),
                             b |-> Fraction(line.a[1], line.div)]
  /\ UNCHANGED <<route, cell, argv, points, buf_len, room, intact>>

Next ==
  \/ \E w \in Weights : Measure(w)
  \/ Undo \/ Quit \/ EndOfInput \/ PrintLine \/ PrintAnyLine \/ FitFails
  \/ ServeKnown
  \/ MeasureNext \/ FitAndServe

Spec == Init /\ [][Next]_vars

-----------------------------------------------------------------------------
Magnitude(n) == IF n < 0 THEN -n ELSE n

\* Times ADC_MAX and the denominator that the multipliers share: the value
\* served for weight w, raw / ADC_MAX * m + b, less the weight.
ServedError(w) ==
  ReadingOf(w) * mult.m.n + ADC_MAX * mult.b.n - ADC_MAX * mult.m.d * w

\* Every variable holds what its declaration allows.
TypeOK ==
  /\ route \in {"tool", "-c"}
  /\ cell \in [gain : Gains, zero : Zeros]
  /\ argv \in Seq(Weights)
  /\ points \in Seq([x : Int, y : 0 .. 99]) /\ Len(points) <= MaxWeights
  /\ buf_len \in Nat /\ room \in Nat
  /\ route = "tool" => Len(points) <= buf_len
  /\ intact \in BOOLEAN
  /\ mult # NoMultiplier => mult \in [m : [n : Int, d : Int \ {0}], b : [n : Int, d : Int \ {0}]]
  /\ pc \in {"prompt", "fit", "printed", "serving", "done", "spinning", "aborted"}

\* The server serves every weight, measured or not, for its reading, but for
\* the digits that %lf drops from both multipliers.
ServesWeights ==
  \A w \in Weights :
    2 * Magnitude(ServedError(w)) <= Magnitude(ReadingOf(w)) + ADC_MAX

\* Weights were measured that read differently, so that there is a line.
TwoReadings == \E i, j \in DOMAIN points : points[i].x # points[j].x

\* What the tool prints, given to the server with -k, makes it serve the
\* weights (load_cell_calibration.c 93-101, load_cell_serv.c 227-232, 347),
\* whatever was measured and taken back.  The program does not keep this in
\* general: for more than four measurements at a time its buffers shrink,
\* and for three with one reading there may be a line where none exists.
ToolCalibrates ==
  route = "tool" /\ pc = "serving" /\ TwoReadings /\ buf_len = 4 => ServesWeights

\* A calibration that does not end with a line was given only one weight,
\* or more of them than the tool's first buffers or the server's list hold.
FailsOnlyWithoutALine ==
  pc = "aborted" =>
    \/ ~TwoReadings
    \/ route = "tool" /\ buf_len > 4
    \/ route = "-c" /\ Len(argv) > KnownRoom

-----------------------------------------------------------------------------
(* What the programs say and do not keep.                                   *)

\* "the first and zeroth term in the least squares fit, i.e. in the equation
\* mx + b" (load_cell_serv.c 157-159): the server serves the weights it was
\* calibrated with for their readings, like the tool's line does.
ServerCalibrates ==
  route = "-c" /\ pc = "serving" =>
    \A i \in DOMAIN argv :
      2 * Magnitude(ServedError(argv[i])) <= Magnitude(ReadingOf(argv[i])) + ADC_MAX
=============================================================================
