-------------------------- MODULE CalibrationProofs --------------------------
(***************************************************************************)
(* That a calibration is right, for load cells, weights, sizes of the ADC  *)
(* and numbers of measurements of any kind.  NumericsProofs is there for    *)
(* its facts about lines; the inputs of Routines play no part.             *)
(***************************************************************************)
EXTENDS Calibration, NumericsProofs

-----------------------------------------------------------------------------
(* Arithmetic.                                                              *)

\* Division with a positive divisor rounds down.
LEMMA Division ==
  ASSUME NEW a \in Int, NEW b \in Nat \ {0}
  PROVE  a \div b \in Int /\ b * (a \div b) <= a /\ a < b * (a \div b) + b
OBVIOUS

LEMMA CancelAtMost ==
  ASSUME NEW d \in Int, d > 0, NEW u \in Int, NEW v \in Int, d * u <= d * v
  PROVE  u <= v
<1> SUFFICES ASSUME u > v PROVE FALSE
  OBVIOUS
<1>1. u - v > 0 /\ d * (u - v) <= 0
  OBVIOUS
<1>2. d * (u - v) > 0
  BY <1>1
<1> QED
  BY <1>1, <1>2

\* A factor that is off by at most d makes a product be off by d times the
\* other factor.
LEMMA ProductIsNear ==
  ASSUME NEW r \in Int, NEW e \in Int, NEW d \in Int, -d <= e, e <= d
  PROVE  /\ r * e <= Magnitude(r) * d
         /\ -(Magnitude(r) * d) <= r * e
<1>1. CASE r >= 0
  <2>1. Magnitude(r) = r
    BY <1>1 DEF Magnitude
  <2>2. r * (d - e) >= 0 /\ r * (d + e) >= 0
    BY <1>1
  <2> QED
    BY <2>1, <2>2
<1>2. CASE r < 0
  <2>1. Magnitude(r) = -r
    BY <1>2 DEF Magnitude
  <2>2. (-r) * (d - e) >= 0 /\ (-r) * (d + e) >= 0
    BY <1>2
  <2> QED
    BY <2>1, <2>2
<1> QED
  BY <1>1, <1>2

\* The line a0 / d + (a1 / d) * x is that of a load cell with gain g and zero z.
IsLineOf(g, z, a1, a0, d) ==
  /\ g \in Int /\ g # 0 /\ z \in Int /\ a1 \in Int /\ a0 \in Int /\ d \in Int /\ d > 0
  /\ g * a1 = d
  /\ g * a0 = -(z * d)

\* Its two printed numbers serve a weight w for its reading, but for half of
\* the last digit of each.
LEMMA PrintedServes ==
  ASSUME NEW g, NEW z, NEW a1, NEW a0, NEW d, IsLineOf(g, z, a1, a0, d), NEW w \in Int
  PROVE  LET r == g * w + z
             m == (2 * (a1 * ADC_MAX) * Precision + d) \div (2 * d)
             b == (2 * a0 * Precision + d) \div (2 * d)
         IN /\ m \in Int /\ b \in Int
            /\ 2 * Magnitude(r * m + ADC_MAX * b - ADC_MAX * Precision * w)
                 <= Magnitude(r) + ADC_MAX
<1> DEFINE A == ADC_MAX
           P == Precision
           r == g * w + z
           m == (2 * (a1 * A) * P + d) \div (2 * d)
           b == (2 * a0 * P + d) \div (2 * d)
<1>0. /\ A \in Nat \ {0} /\ P \in Nat \ {0}
      /\ g \in Int /\ g # 0 /\ z \in Int /\ a1 \in Int /\ a0 \in Int /\ d \in Int /\ d > 0
      /\ g * a1 = d /\ g * a0 = -(z * d)
  BY CalibrationAssumption DEF IsLineOf
<1> HIDE DEF A, P
<1> USE <1>0
<1>1. 2 * d \in Nat \ {0}
  OBVIOUS
<1>13. m \in Int /\ b \in Int /\ r \in Int
  <2> DEFINE n1 == 2 * (a1 * A) * P + d
             n0 == 2 * a0 * P + d
  <2>1. n1 \in Int /\ n0 \in Int
    OBVIOUS
  <2> HIDE DEF n0, n1
  <2>2. n1 \div (2 * d) \in Int /\ n0 \div (2 * d) \in Int
    BY <1>1, <2>1, Division
  <2> QED
    BY <2>2 DEF n0, n1
<1> HIDE DEF m, b
<1> USE <1>13
<1> DEFINE e1 == (2 * d) * m - 2 * (a1 * A) * P
           e0 == (2 * d) * b - 2 * a0 * P
           E == r * m + A * b - A * P * w
<1>2. e1 \in Int /\ -d <= e1 /\ e1 <= d
  <2> DEFINE a == 2 * (a1 * A) * P + d
  <2>1. a \in Int
    OBVIOUS
  <2>2. (2 * d) * m <= a /\ a < (2 * d) * m + 2 * d
    <3> HIDE DEF a
    <3>1. m = a \div (2 * d)
      BY DEF a, m
    <3> QED
      BY <1>1, <2>1, <3>1, Division
  <2>3. (2 * d) * m \in Int /\ 2 * (a1 * A) * P \in Int
    OBVIOUS
  <2> QED
    BY <2>2, <2>3
<1>3. e0 \in Int /\ -d <= e0 /\ e0 <= d
  <2> DEFINE a == 2 * a0 * P + d
  <2>1. a \in Int
    OBVIOUS
  <2>2. (2 * d) * b <= a /\ a < (2 * d) * b + 2 * d
    <3> HIDE DEF a
    <3>1. b = a \div (2 * d)
      BY DEF a, b
    <3> QED
      BY <1>1, <2>1, <3>1, Division
  <2>3. (2 * d) * b \in Int /\ 2 * a0 * P \in Int
    OBVIOUS
  <2> QED
    BY <2>2, <2>3
<1>4. r * a1 + a0 = w * d
  <2>1. g * (r * a1 + a0) = r * (g * a1) + g * a0
    OBVIOUS
  <2>2. r * d - z * d = g * (w * d)
    OBVIOUS
  <2>3. g * (r * a1 + a0) = g * (w * d)
    BY <2>1, <2>2
  <2>4. r * a1 + a0 \in Int /\ w * d \in Int
    OBVIOUS
  <2> QED
    BY <2>3, <2>4, CancelFactor
<1>5. (2 * d) * E = r * e1 + A * e0
  <2> DEFINE M == (2 * d) * m
             B == (2 * d) * b
             q == 2 * A * P
             t == A * P * w
  <2>1. M \in Int /\ B \in Int /\ q \in Int /\ t \in Int /\ A \in Int
    OBVIOUS
  <2>2. (2 * d) * E = r * M + A * B - (2 * d) * t
    <3> DEFINE k == 2 * d
               u == r * m
               v == A * b
    <3>1. k \in Int /\ u \in Int /\ v \in Int
      OBVIOUS
    <3>2. k * u = r * M /\ k * v = A * B
      OBVIOUS
    <3>3. E = u + v - t
      OBVIOUS
    <3> HIDE DEF k, u, v, t, M, B, E
    <3>4. k * (u + v - t) = k * u + k * v - k * t
      BY <2>1, <3>1
    <3> QED
      BY <3>2, <3>3, <3>4, Zenon DEF k
  <2>3. (2 * d) * t = q * (w * d)
    <3> DEFINE ap == A * P
    <3>1. ap \in Int /\ q = 2 * ap /\ t = ap * w
      OBVIOUS
    <3> HIDE DEF ap, q, t
    <3>2. (2 * d) * (ap * w) = (2 * ap) * (w * d)
      BY <3>1
    <3> QED
      BY <3>1, <3>2
  <2>4. e1 = M - q * a1 /\ A * e0 = A * B - q * a0
    OBVIOUS
  <2> HIDE DEF M, B, q, t, E, e1, e0
  <2>5. r * (M - q * a1) = r * M - q * (r * a1)
    BY <2>1
  <2>6. q * (r * a1 + a0) = q * (r * a1) + q * a0
    BY <2>1
  <2>7. /\ r * M \in Int /\ A * B \in Int /\ q * a0 \in Int /\ q * (r * a1) \in Int
        /\ q * (r * a1 + a0) \in Int
    BY <2>1
  <2>8. r * (M - q * a1) + (A * B - q * a0) = r * M + A * B - q * (r * a1 + a0)
    BY <2>5, <2>6, <2>7
  <2> QED
    BY <1>4, <2>2, <2>3, <2>4, <2>8, Zenon
<1>6. E \in Int
  OBVIOUS
<1> HIDE DEF e1, e0, E
<1>7. Magnitude(r) \in Int
  BY DEF Magnitude
<1>8. r * e1 <= Magnitude(r) * d /\ -(Magnitude(r) * d) <= r * e1
  BY <1>2, ProductIsNear
<1>9. A * e0 <= A * d /\ -(A * d) <= A * e0
  <2>1. A * (d - e0) >= 0 /\ A * (d + e0) >= 0
    BY <1>3
  <2> QED
    BY <1>3, <2>1
<1>10. d * (2 * E) <= d * (Magnitude(r) + A) /\ d * (-(2 * E)) <= d * (Magnitude(r) + A)
  <2>1. d * (2 * E) = (2 * d) * E /\ d * (-(2 * E)) = -((2 * d) * E)
    BY <1>6
  <2>2. d * (Magnitude(r) + A) = Magnitude(r) * d + A * d
    BY <1>7
  <2>3. r * e1 \in Int /\ A * e0 \in Int /\ Magnitude(r) * d \in Int /\ A * d \in Int
    BY <1>2, <1>3, <1>7
  <2> QED
    BY <1>5, <1>8, <1>9, <2>1, <2>2, <2>3
<1>11. 2 * E <= Magnitude(r) + A /\ -(2 * E) <= Magnitude(r) + A
  BY <1>6, <1>7, <1>10, CancelAtMost
<1>12. 2 * Magnitude(E) <= Magnitude(r) + A
  BY <1>6, <1>7, <1>11 DEF Magnitude
<1> QED
  BY <1>12, <1>13 DEF E, m, b, A, P

-----------------------------------------------------------------------------
(* The invariant.                                                           *)

\* The tool's buffers are intact until they are grown for the first time;
\* the server's list is unless it is too long.
BuffersInv ==
  /\ buf_len >= 4
  /\ route = "tool" /\ buf_len = 4 => room = 4 /\ intact
  /\ route = "-c" => /\ buf_len = 4
                     /\ Len(points) <= Len(argv) /\ Len(argv) <= MaxWeights
                     /\ Len(argv) <= KnownRoom => intact

\* The tool's points are on the line of the load cell.
PointsInv ==
  route = "tool" => \A i \in DOMAIN points : points[i].x = ReadingOf(points[i].y)

\* The two numbers are right as soon as they are printed, if no harm was done
\* to the buffers and there is a line.
PrintedInv ==
  route = "tool" /\ pc \in {"printed", "serving"} /\ TwoReadings /\ intact =>
    ServesWeights

\* The inductive invariant.
CalibrationInv ==
  TypeOK /\ BuffersInv /\ PointsInv /\ PrintedInv /\ FailsOnlyWithoutALine

\* What the load cell reads is an integer.
LEMMA Readings ==
  ASSUME TypeOK
  PROVE  /\ cell.gain \in Int /\ cell.gain # 0 /\ cell.zero \in Int
         /\ \A w \in Int : ReadingOf(w) \in Int /\ ReadingOf(w) = cell.gain * w + cell.zero
         /\ Weights \subseteq Int
<1>1. cell.gain \in Gains /\ cell.zero \in Zeros
  BY DEF TypeOK
<1>2. cell.gain \in Int /\ cell.gain # 0 /\ cell.zero \in Int /\ Weights \subseteq Int
  <2>1. \A v \in 0 .. 99 : v \in Int
    OBVIOUS
  <2>2. Weights \subseteq Int
    BY <2>1, CalibrationAssumption
  <2>3. cell.gain \in Int \ {0} /\ cell.zero \in Int
    BY <1>1, CalibrationAssumption
  <2> QED
    BY <2>2, <2>3
<1>3. \A w \in Int : cell.gain * w + cell.zero \in Int
  BY <1>2
<1> QED
  BY <1>2, <1>3 DEF ReadingOf

LEMMA Sequence ==
  ASSUME NEW T, NEW s \in Seq(T)
  PROVE  Len(s) \in Nat /\ DOMAIN s = 1 .. Len(s) /\ s \in [1 .. Len(s) -> T]
OBVIOUS

LEMMA Shortened ==
  ASSUME NEW T, NEW s \in Seq(T), s # <<>>
  PROVE  /\ Len(s) \in Nat \ {0}
         /\ SubSeq(s, 1, Len(s) - 1) \in Seq(T)
         /\ Len(SubSeq(s, 1, Len(s) - 1)) = Len(s) - 1
         /\ DOMAIN SubSeq(s, 1, Len(s) - 1) = 1 .. Len(s) - 1
         /\ \A i \in 1 .. Len(s) - 1 : SubSeq(s, 1, Len(s) - 1)[i] = s[i]
<1> DEFINE t == [i \in 1 .. Len(s) - 1 |-> s[i]]
<1>1. Len(s) \in Nat \ {0}
  OBVIOUS
<1>2. SubSeq(s, 1, Len(s) - 1) = t
  BY <1>1
<1>3. Len(s) - 1 \in Nat /\ \A i \in 1 .. Len(s) - 1 : s[i] \in T
  BY <1>1
<1>4. t \in Seq(T) /\ Len(t) = Len(s) - 1
  BY <1>3
<1> QED
  BY <1>1, <1>2, <1>4

LEMMA PointsAre ==
  ASSUME TypeOK
  PROVE  Len(points) \in Nat /\ points \in Points(Len(points)) /\ DOMAIN points = 1 .. Len(points)
<1> DEFINE T == [x : Int, y : 0 .. 99]
<1>1. points \in Seq(T)
  BY DEF TypeOK
<1>2. Len(points) \in Nat /\ DOMAIN points = 1 .. Len(points) /\ points \in [1 .. Len(points) -> T]
  <2> HIDE DEF T
  <2> QED
    BY <1>1, Sequence
<1>3. \A i \in 1 .. Len(points) : points[i] \in [x : Int, y : Int]
  <2> TAKE i \in 1 .. Len(points)
  <2>1. points[i] \in T
    BY <1>2
  <2>2. ASSUME NEW q \in T  PROVE q \in [x : Int, y : Int]
    <3>1. q.x \in Int /\ q.y \in 0 .. 99
      OBVIOUS
    <3>2. q.y \in Int
      <4>1. \A y \in 0 .. 99 : y \in Int
        OBVIOUS
      <4> HIDE DEF T
      <4> QED
        BY <3>1, <4>1
    <3>3. q = [x |-> q.x, y |-> q.y]
      OBVIOUS
    <3> QED
      BY <3>1, <3>2, <3>3
  <2> QED
    BY <2>1, <2>2
<1>4. points \in [1 .. Len(points) -> [x : Int, y : Int]]
  BY <1>2, <1>3
<1> QED
  BY <1>2, <1>4 DEF Points

\* Without a line all the readings are the same one, and with one it has
\* integers over a determinant that is positive.
LEMMA FitOfPoints ==
  ASSUME TypeOK
  PROVE  LET line == first_order_least_squares_filter(points)
         IN /\ line = Singular => \A i, j \in DOMAIN points : points[i].x = points[j].x
            /\ line # Singular =>
                 /\ line.div = LineDet(points) /\ line.div \in Int /\ line.div > 0
                 /\ line.a[0] = Constant(points) /\ line.a[0] \in Int
                 /\ line.a[1] = Slope(points) /\ line.a[1] \in Int
<1>1. Len(points) \in Nat /\ points \in Points(Len(points)) /\ DOMAIN points = 1 .. Len(points)
  BY PointsAre
<1>2. LineDet(points) \in Int /\ Constant(points) \in Int /\ Slope(points) \in Int
  BY <1>1, LineTypes
<1>3. /\ LineDet(points) >= 0
      /\ LineDet(points) = 0 =>
           \A i, j \in 1 .. Len(points) : points[i].x = points[j].x
  BY <1>1, LineExists
<1>4. /\ LineDet(points) = 0 => first_order_least_squares_filter(points) = Singular
      /\ LineDet(points) # 0 =>
           first_order_least_squares_filter(points) =
             [a |-> [pos \in 0 .. 1 |-> IF pos = 0 THEN Constant(points) ELSE Slope(points)],
              div |-> LineDet(points)]
      /\ LineDet(points) # 0 => first_order_least_squares_filter(points) # Singular
  BY <1>1, LineIs
<1> QED
  BY <1>1, <1>2, <1>3, <1>4

LEMMA CalibrationInitial == Init => CalibrationInv
<1> SUFFICES ASSUME Init PROVE CalibrationInv
  OBVIOUS
<1>1. argv \in Seq(Weights) /\ Len(argv) \in Nat
      /\ (route = "-c" => Len(argv) <= MaxWeights)
  <2>1. CASE route = "-c"
    <3>1. PICK n \in 1 .. MaxWeights : argv \in [1 .. n -> Weights]
      BY <2>1 DEF Init
    <3>2. n \in Nat /\ n <= MaxWeights
      BY CalibrationAssumption
    <3> QED
      BY <3>1, <3>2
  <2>2. CASE route # "-c"
    BY <2>2 DEF Init
  <2> QED
    BY <2>1, <2>2
<1>2. points = <<>> /\ points \in Seq([x : Int, y : 0 .. 99]) /\ Len(points) = 0
  BY DEF Init
<1>3. TypeOK
  <2>1. intact \in BOOLEAN /\ MaxWeights \in Nat
    BY CalibrationAssumption DEF Init
  <2>2. /\ route \in {"tool", "-c"} /\ cell \in [gain : Gains, zero : Zeros]
        /\ buf_len = 4 /\ room = 4 /\ mult = NoMultiplier /\ pc = "prompt"
    BY DEF Init
  <2> QED
    BY <1>1, <1>2, <2>1, <2>2 DEF TypeOK
<1>4. BuffersInv
  <2>1. route = "tool" => intact
    <3> SUFFICES ASSUME route = "tool" PROVE intact
      OBVIOUS
    <3>1. argv = <<>>
      BY DEF Init
    <3>2. Len(argv) = 0 /\ ~ (Len(argv) > KnownRoom)
      BY <3>1, CalibrationAssumption
    <3> QED
      BY <3>2 DEF Init
  <2>2. Len(argv) <= KnownRoom => intact
    <3>1. Len(argv) <= KnownRoom => ~ (Len(argv) > KnownRoom)
      BY <1>1, CalibrationAssumption
    <3> QED
      BY <3>1 DEF Init
  <2>3. buf_len = 4 /\ room = 4
    BY DEF Init
  <2> QED
    BY <1>1, <1>2, <2>1, <2>2, <2>3 DEF BuffersInv
<1>5. PointsInv /\ PrintedInv /\ FailsOnlyWithoutALine
  BY <1>2 DEF Init, PointsInv, PrintedInv, FailsOnlyWithoutALine
<1> QED
  BY <1>3, <1>4, <1>5 DEF CalibrationInv

\* One measurement more.
LEMMA PointAppended ==
  ASSUME TypeOK, NEW p \in [x : Int, y : 0 .. 99]
  PROVE  /\ Append(points, p) \in Seq([x : Int, y : 0 .. 99])
         /\ Len(Append(points, p)) = Len(points) + 1
         /\ DOMAIN Append(points, p) = 1 .. Len(points) + 1
         /\ \A i \in 1 .. Len(points) : Append(points, p)[i] = points[i]
         /\ Append(points, p)[Len(points) + 1] = p
BY DEF TypeOK

LEMMA MeasureInv == ASSUME CalibrationInv, NEW w \in Weights, Measure(w) PROVE CalibrationInv'
<1> DEFINE p == [x |-> ReadingOf(w), y |-> w]
<1> USE DEF CalibrationInv
<1>1. w \in Int /\ w \in 0 .. 99 /\ p \in [x : Int, y : 0 .. 99] /\ p.x = ReadingOf(p.y)
  BY Readings, CalibrationAssumption
<1>2. points' = Append(points, p) /\ route = "tool" /\ pc = "prompt" /\ Len(points) < MaxWeights
      /\ UNCHANGED <<route, cell, argv, mult, pc>>
  BY DEF Measure
<1> HIDE DEF p
<1>3. /\ points' \in Seq([x : Int, y : 0 .. 99])
      /\ Len(points') = Len(points) + 1
      /\ DOMAIN points' = 1 .. Len(points) + 1
      /\ \A i \in 1 .. Len(points) : points'[i] = points[i]
      /\ points'[Len(points) + 1] = p
  BY <1>1, <1>2, PointAppended
<1>4. Len(points) \in Nat /\ DOMAIN points = 1 .. Len(points) /\ buf_len \in Nat /\ room \in Nat
      /\ Len(points) <= buf_len /\ buf_len >= 4 /\ MaxWeights \in Nat
  BY <1>2, CalibrationAssumption DEF TypeOK, BuffersInv
<1> DEFINE L == Len(points)
           room2 == IF L = buf_len THEN (buf_len * 2) \div SizeofDouble ELSE room
<1>0. /\ buf_len' = IF L = buf_len THEN buf_len * 2 ELSE buf_len
      /\ room' = room2
      /\ intact' \in IF L < room2 THEN {intact} ELSE {intact, FALSE}
  BY DEF Measure
<1> HIDE DEF L
<1>5. buf_len' \in Nat /\ room' \in Nat /\ Len(points') <= buf_len' /\ buf_len' >= 4
  <2>1. (buf_len * 2) \div SizeofDouble \in Nat
    BY <1>4 DEF SizeofDouble
  <2>2. room' \in Nat
    BY <1>0, <1>4, <2>1
  <2>3. L \in Nat /\ L <= buf_len /\ Len(points') = L + 1
    BY <1>3, <1>4 DEF L
  <2>4. buf_len' \in Nat /\ L + 1 <= buf_len' /\ buf_len' >= 4
    BY <1>0, <1>4, <2>3
  <2> QED
    BY <2>2, <2>3, <2>4
<1>6. intact' \in BOOLEAN
  BY DEF Measure, TypeOK
<1>7. TypeOK'
  BY <1>2, <1>3, <1>4, <1>5, <1>6 DEF TypeOK
<1>8. BuffersInv'
  <2>1. buf_len' = 4 => buf_len = 4 /\ room' = 4 /\ intact'
    <3> SUFFICES ASSUME buf_len' = 4 PROVE buf_len = 4 /\ room' = 4 /\ intact'
      OBVIOUS
    <3>1. L # buf_len /\ buf_len = 4
      BY <1>0, <1>4
    <3>2. room = 4 /\ intact
      BY <1>2, <3>1 DEF BuffersInv
    <3>3. room' = 4 /\ L < room2
      BY <1>0, <1>4, <3>1, <3>2 DEF L
    <3>4. intact' = intact
      BY <1>0, <3>3
    <3> QED
      BY <3>1, <3>2, <3>3, <3>4
  <2> QED
    BY <1>2, <1>5, <2>1 DEF BuffersInv
<1>9. PointsInv'
  <2>1. \A i \in DOMAIN points' : points'[i].x = ReadingOf(points'[i].y)
    BY <1>1, <1>2, <1>3, <1>4 DEF PointsInv
  <2> QED
    BY <1>2, <2>1 DEF PointsInv, ReadingOf
<1>10. PrintedInv' /\ FailsOnlyWithoutALine'
  BY <1>2 DEF PrintedInv, FailsOnlyWithoutALine
<1> QED
  BY <1>7, <1>8, <1>9, <1>10

\* A measurement that is taken back leaves the others on their line.
LEMMA UndoInv == ASSUME CalibrationInv, Undo PROVE CalibrationInv'
<1> USE DEF CalibrationInv
<1>1. /\ route = "tool" /\ pc = "prompt" /\ points # <<>>
      /\ points' = SubSeq(points, 1, Len(points) - 1)
      /\ UNCHANGED <<route, cell, argv, buf_len, room, intact, mult, pc>>
  BY DEF Undo
<1>2. points \in Seq([x : Int, y : 0 .. 99]) /\ Len(points) \in Nat \ {0}
      /\ DOMAIN points = 1 .. Len(points)
  BY <1>1 DEF TypeOK
<1>3. /\ points' \in Seq([x : Int, y : 0 .. 99])
      /\ Len(points') = Len(points) - 1
      /\ DOMAIN points' = 1 .. Len(points) - 1
      /\ \A i \in 1 .. Len(points) - 1 : points'[i] = points[i]
  <2> DEFINE T == [x : Int, y : 0 .. 99]
  <2>1. points \in Seq(T)
    BY <1>2
  <2>2. /\ points' \in Seq(T) /\ Len(points') = Len(points) - 1
        /\ DOMAIN points' = 1 .. Len(points) - 1
        /\ \A i \in 1 .. Len(points) - 1 : points'[i] = points[i]
    <3> HIDE DEF T
    <3> QED
      BY <1>1, <2>1, Shortened
  <2> QED
    BY <2>2
<1>4. TypeOK'
  <2>1. Len(points) <= MaxWeights /\ Len(points) <= buf_len /\ buf_len \in Nat /\ MaxWeights \in Nat
    BY <1>1, CalibrationAssumption DEF TypeOK
  <2>2. Len(points') <= MaxWeights /\ Len(points') <= buf_len
    BY <1>2, <1>3, <2>1
  <2> QED
    BY <1>1, <1>3, <2>2 DEF TypeOK
<1>5. BuffersInv'
  BY <1>1 DEF BuffersInv
<1>6. PointsInv'
  BY <1>1, <1>2, <1>3 DEF PointsInv, ReadingOf
<1>7. PrintedInv' /\ FailsOnlyWithoutALine'
  BY <1>1 DEF PrintedInv, FailsOnlyWithoutALine
<1> QED
  BY <1>4, <1>5, <1>6, <1>7

\* What leaves all but pc alone.
LEMMA OnlyPcInv ==
  ASSUME CalibrationInv, UNCHANGED <<route, cell, argv, points, buf_len, room, intact, mult>>,
         pc' \in {"prompt", "fit", "printed", "serving", "done", "spinning", "aborted"},
         PrintedInv', FailsOnlyWithoutALine'
  PROVE  CalibrationInv'
BY DEF CalibrationInv, TypeOK, BuffersInv, PointsInv, ReadingOf

LEMMA QuitInv == ASSUME CalibrationInv, Quit \/ EndOfInput PROVE CalibrationInv'
<1>1. UNCHANGED <<route, cell, argv, points, buf_len, room, intact, mult>>
      /\ pc' \in {"fit", "done", "spinning"}
  BY DEF Quit, EndOfInput
<1>2. PrintedInv' /\ FailsOnlyWithoutALine'
  BY <1>1 DEF PrintedInv, FailsOnlyWithoutALine
<1> QED
  BY <1>1, <1>2, OnlyPcInv

LEMMA ServeKnownInv == ASSUME CalibrationInv, ServeKnown PROVE CalibrationInv'
<1>1. UNCHANGED <<route, cell, argv, points, buf_len, room, intact, mult>>
      /\ pc = "printed" /\ pc' = "serving"
  BY DEF ServeKnown
<1>2. PrintedInv'
  BY <1>1 DEF CalibrationInv, PrintedInv, TwoReadings, ServesWeights, ServedError, ReadingOf
<1>3. FailsOnlyWithoutALine'
  BY <1>1 DEF FailsOnlyWithoutALine
<1> QED
  BY <1>1, <1>2, <1>3, OnlyPcInv

LEMMA FitFailsInv == ASSUME CalibrationInv, FitFails PROVE CalibrationInv'
<1>1. UNCHANGED <<route, cell, argv, points, buf_len, room, intact, mult>>
      /\ pc' = "aborted" /\ route = "tool"
  BY DEF FitFails
<1>2. PrintedInv'
  BY <1>1 DEF PrintedInv
<1>3. FailsOnlyWithoutALine'
  <2>1. CASE ~intact
    BY <1>1, <2>1 DEF CalibrationInv, BuffersInv, TypeOK, FailsOnlyWithoutALine
  <2>2. CASE first_order_least_squares_filter(points) = Singular
    <3>1. ~TwoReadings
      BY <2>2, FitOfPoints DEF CalibrationInv, TwoReadings
    <3> QED
      BY <1>1, <3>1 DEF FailsOnlyWithoutALine, TwoReadings
  <2> QED
    BY <2>1, <2>2 DEF FitFails
<1> QED
  BY <1>1, <1>2, <1>3, OnlyPcInv

\* A line that is not that of the points is printed only from buffers that
\* were harmed, or where all the readings are the same.
LEMMA PrintAnyLineInv == ASSUME CalibrationInv, PrintAnyLine PROVE CalibrationInv'
<1>1. /\ route = "tool" /\ pc' = "printed" /\ mult' \in AnyLine
      /\ UNCHANGED <<route, cell, argv, points, buf_len, room, intact>>
  BY DEF PrintAnyLine
<1>2. TypeOK'
  <2>1. mult' \in [m : [n : Int, d : Int \ {0}], b : [n : Int, d : Int \ {0}]]
    BY <1>1, CalibrationAssumption
  <2> QED
    BY <1>1, <2>1 DEF CalibrationInv, TypeOK
<1>3. BuffersInv' /\ PointsInv'
  BY <1>1 DEF CalibrationInv, BuffersInv, PointsInv, ReadingOf
<1>4. PrintedInv'
  <2>1. ~intact \/ ~TwoReadings
    BY FitOfPoints DEF PrintAnyLine, CalibrationInv, TwoReadings
  <2> QED
    BY <1>1, <2>1 DEF PrintedInv, TwoReadings
<1>5. FailsOnlyWithoutALine'
  BY <1>1 DEF FailsOnlyWithoutALine
<1> QED
  BY <1>2, <1>3, <1>4, <1>5 DEF CalibrationInv

\* The step that prints the numbers: the line through the points is that of
\* the load cell, and printing rounds each by half of a digit at most.
LEMMA PrintLineInv == ASSUME CalibrationInv, PrintLine PROVE CalibrationInv'
<1> DEFINE line == first_order_least_squares_filter(points)
           d == LineDet(points)
           a1 == Slope(points)
           a0 == Constant(points)
<1>1. /\ line # Singular /\ route = "tool" /\ pc' = "printed"
      /\ mult' = [m |-> Printed(line.a[1] * ADC_MAX, line.div), b |-> Printed(line.a[0], line.div)]
      /\ UNCHANGED <<route, cell, argv, points, buf_len, room, intact>>
  BY DEF PrintLine
<1>2. /\ line.div = d /\ d \in Int /\ d > 0
      /\ line.a[0] = a0 /\ a0 \in Int /\ line.a[1] = a1 /\ a1 \in Int
  BY <1>1, FitOfPoints DEF CalibrationInv
<1> HIDE DEF line
<1>3. ADC_MAX \in Nat \ {0} /\ Precision \in Nat \ {0}
  BY CalibrationAssumption
<1>4. cell.gain \in Int /\ cell.gain # 0 /\ cell.zero \in Int
      /\ \A w \in Int : ReadingOf(w) \in Int /\ ReadingOf(w) = cell.gain * w + cell.zero
      /\ Weights \subseteq Int
  BY Readings DEF CalibrationInv
<1>5. cell.gain * a1 = d /\ cell.gain * a0 = - (cell.zero * d)
  <2>1. Len(points) \in Nat /\ points \in Points(Len(points))
        /\ DOMAIN points = 1 .. Len(points)
    BY PointsAre DEF CalibrationInv
  <2>2. \A i \in 1 .. Len(points) : points[i].y \in Int
    BY <2>1 DEF Points
  <2>3. \A i \in 1 .. Len(points) : points[i].x = cell.gain * points[i].y + cell.zero
    BY <1>1, <1>4, <2>1, <2>2 DEF CalibrationInv, PointsInv
  <2> QED
    BY <1>4, <2>1, <2>3, LineIsExact
<1> DEFINE m == (2 * (a1 * ADC_MAX) * Precision + d) \div (2 * d)
           b == (2 * a0 * Precision + d) \div (2 * d)
<1>6. IsLineOf(cell.gain, cell.zero, a1, a0, d)
  BY <1>2, <1>4, <1>5 DEF IsLineOf
<1>12. m \in Int /\ b \in Int
  <2> HIDE DEF d, a1, a0
  <2> QED
    BY <1>6, PrintedServes
<1>7. mult' = [m |-> [n |-> m, d |-> Precision], b |-> [n |-> b, d |-> Precision]]
  BY <1>1, <1>2 DEF Printed, Fraction
<1>8. TypeOK'
  <2>1. mult' \in [m : [n : Int, d : Int \ {0}], b : [n : Int, d : Int \ {0}]]
    BY <1>3, <1>12, <1>7
  <2> HIDE DEF m, b
  <2> QED
    BY <1>1, <2>1 DEF CalibrationInv, TypeOK
<1>9. PrintedInv'
  <2> SUFFICES ASSUME NEW w \in Weights
               PROVE  2 * Magnitude(ServedError(w)') <= Magnitude(ReadingOf(w)') + ADC_MAX
    BY DEF PrintedInv, ServesWeights, Magnitude
  <2> DEFINE r == ReadingOf(w)
  <2>1. w \in Int /\ r \in Int /\ r = cell.gain * w + cell.zero
    BY <1>4
  <2>2. ReadingOf(w)' = r
    BY <1>1 DEF ReadingOf
  <2>3. ServedError(w)' = r * m + ADC_MAX * b - ADC_MAX * Precision * w
    <3> HIDE DEF m, b, r
    <3> QED
      BY <1>7, <2>2 DEF ServedError
  <2> HIDE DEF d, a1, a0
  <2>4. 2 * Magnitude(r * m + ADC_MAX * b - ADC_MAX * Precision * w) <= Magnitude(r) + ADC_MAX
    BY <1>6, <2>1, PrintedServes
  <2> QED
    BY <2>2, <2>3, <2>4
<1>10. BuffersInv' /\ PointsInv'
  BY <1>1 DEF CalibrationInv, BuffersInv, PointsInv, ReadingOf
<1>11. FailsOnlyWithoutALine'
  BY <1>1 DEF FailsOnlyWithoutALine
<1> QED
  BY <1>8, <1>9, <1>10, <1>11 DEF CalibrationInv

LEMMA MeasureNextInv == ASSUME CalibrationInv, MeasureNext PROVE CalibrationInv'
<1> DEFINE i == Len(points) + 1
           p == [x |-> ReadingOf(argv[i]), y |-> ParsedWeight(i)]
<1> USE DEF CalibrationInv
<1>1. /\ route = "-c" /\ pc = "prompt" /\ i <= Len(argv) /\ points' = Append(points, p)
      /\ UNCHANGED <<route, cell, argv, buf_len, room, intact, mult, pc>>
  BY DEF MeasureNext
<1>2. Len(points) \in Nat /\ argv \in Seq(Weights) /\ Len(argv) <= MaxWeights
  BY <1>1 DEF TypeOK, BuffersInv
<1>3. argv[i] \in Weights /\ argv[i] \in 0 .. 99
  <2>1. argv \in [1 .. Len(argv) -> Weights] /\ Len(argv) \in Nat
    BY <1>2, Sequence
  <2>2. i \in 1 .. Len(argv)
    BY <1>1, <1>2, <2>1
  <2> QED
    BY <2>1, <2>2, CalibrationAssumption
<1>4. ParsedWeight(i) \in 0 .. 99
  <2> DEFINE v == argv[i]
  <2>1. v \in 0 .. 99
    BY <1>3
  <2> HIDE DEF v
  <2>2. v % 10 \in 0 .. 99
    BY <2>1
  <2> QED
    BY <2>1, <2>2 DEF ParsedWeight, v
<1>5. p \in [x : Int, y : 0 .. 99]
  BY <1>3, <1>4, Readings
<1> HIDE DEF p
<1>6. /\ points' \in Seq([x : Int, y : 0 .. 99])
      /\ Len(points') = Len(points) + 1
  BY <1>1, <1>5, PointAppended
<1>7. MaxWeights \in Nat /\ Len(argv) \in Nat
  BY <1>2, CalibrationAssumption
<1>8. TypeOK'
  BY <1>1, <1>2, <1>6, <1>7 DEF TypeOK
<1>9. BuffersInv'
  BY <1>1, <1>2, <1>6, <1>7 DEF BuffersInv
<1>10. PointsInv' /\ PrintedInv' /\ FailsOnlyWithoutALine'
  BY <1>1 DEF PointsInv, PrintedInv, FailsOnlyWithoutALine
<1> QED
  BY <1>8, <1>9, <1>10

LEMMA FitAndServeInv == ASSUME CalibrationInv, FitAndServe PROVE CalibrationInv'
<1> DEFINE line == first_order_least_squares_filter(points)
<1>1. /\ route = "-c"
      /\ UNCHANGED <<route, cell, argv, points, buf_len, room, intact>>
      /\ \/ (line = Singular \/ ~intact) /\ pc' = "aborted" /\ mult' = mult
         \/ pc' = "serving" /\ mult' \in AnyLine
         \/ /\ line # Singular /\ pc' = "serving"
            /\ mult' = [m |-> Fraction(line.a[0], line.div), b |-> Fraction(line.a[1], line.div)]
  BY DEF FitAndServe
<1>2. /\ line = Singular => ~TwoReadings
      /\ line # Singular => line.div \in Int /\ line.div > 0 /\ line.a[0] \in Int /\ line.a[1] \in Int
  BY FitOfPoints DEF CalibrationInv, TwoReadings
<1> HIDE DEF line
<1>3. TypeOK'
  <2>1. mult' = mult \/ mult' \in [m : [n : Int, d : Int \ {0}], b : [n : Int, d : Int \ {0}]]
    BY <1>1, <1>2, CalibrationAssumption DEF Fraction
  <2>2. pc' \in {"serving", "aborted"}
    BY <1>1
  <2> QED
    BY <1>1, <2>1, <2>2 DEF CalibrationInv, TypeOK
<1>4. BuffersInv' /\ PointsInv' /\ PrintedInv'
  BY <1>1 DEF CalibrationInv, BuffersInv, PointsInv, PrintedInv, ReadingOf
<1>5. FailsOnlyWithoutALine'
  <2>1. CASE ~intact
    <3>1. Len(argv) > KnownRoom
      BY <1>1, <2>1, CalibrationAssumption DEF CalibrationInv, TypeOK, BuffersInv
    <3> QED
      BY <1>1, <3>1 DEF FailsOnlyWithoutALine
  <2>2. CASE line = Singular
    BY <1>1, <1>2, <2>2 DEF FailsOnlyWithoutALine, TwoReadings
  <2>3. CASE pc' = "serving"
    BY <2>3 DEF FailsOnlyWithoutALine
  <2> QED
    BY <1>1, <2>1, <2>2, <2>3
<1> QED
  BY <1>3, <1>4, <1>5 DEF CalibrationInv

LEMMA CalibrationStep == CalibrationInv /\ [Next]_vars => CalibrationInv'
<1> SUFFICES ASSUME CalibrationInv, [Next]_vars PROVE CalibrationInv'
  OBVIOUS
<1>1. CASE \E w \in Weights : Measure(w)
  BY <1>1, MeasureInv
<1>2. CASE Undo
  BY <1>2, UndoInv
<1>3. CASE Quit \/ EndOfInput
  BY <1>3, QuitInv
<1>4. CASE PrintLine
  BY <1>4, PrintLineInv
<1>5. CASE FitFails
  BY <1>5, FitFailsInv
<1>6. CASE ServeKnown
  BY <1>6, ServeKnownInv
<1>7. CASE MeasureNext
  BY <1>7, MeasureNextInv
<1>8. CASE FitAndServe
  BY <1>8, FitAndServeInv
<1>9. CASE PrintAnyLine
  BY <1>9, PrintAnyLineInv
<1>10. CASE UNCHANGED vars
  BY <1>10 DEF vars, CalibrationInv, TypeOK, BuffersInv, PointsInv, PrintedInv,
               FailsOnlyWithoutALine, TwoReadings, ServesWeights, ServedError, ReadingOf
<1> QED
  BY <1>1, <1>2, <1>3, <1>4, <1>5, <1>6, <1>7, <1>8, <1>9, <1>10 DEF Next

\* The invariant holds.
LEMMA CalibrationCorrect == Spec => []CalibrationInv
BY CalibrationInitial, CalibrationStep, PTL DEF Spec

-----------------------------------------------------------------------------
\* Every variable of a calibration holds what its declaration allows.
THEOREM CalibrationTypeCorrect == Spec => []TypeOK
<1>1. CalibrationInv => TypeOK
  BY DEF CalibrationInv
<1> QED
  BY <1>1, CalibrationCorrect, PTL

\* Whatever load cell, weights, size of the ADC and printed digits: as long as
\* the tool's first buffers were enough, and two readings differ, the numbers
\* that load_cell_calibration prints make the server serve every weight, but
\* for the digits that %lf drops (load_cell_calibration.c 93-101).
THEOREM TheToolCalibrates == Spec => []ToolCalibrates
<1>1. CalibrationInv => ToolCalibrates
  BY DEF CalibrationInv, BuffersInv, PrintedInv, ToolCalibrates
<1> QED
  BY <1>1, CalibrationCorrect, PTL

\* A calibration that does not end with a line had but one reading, or more
\* of them than there is memory for (load_cell_calibration.c 62-66,
\* load_cell_serv.c 216): the normal equations of two readings are regular.
THEOREM FailureHasAReason == Spec => []FailsOnlyWithoutALine
<1>1. CalibrationInv => FailsOnlyWithoutALine
  BY DEF CalibrationInv
<1> QED
  BY <1>1, CalibrationCorrect, PTL
=============================================================================
