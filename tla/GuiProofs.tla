------------------------------ MODULE GuiProofs ------------------------------
(***************************************************************************)
(* Theorems about the graphical client, for any size of the plot, any      *)
(* values and any supply of timer names.                                   *)
(***************************************************************************)
EXTENDS Gui, SequenceTheorems, TLAPS

\* Only the test button touches the timers and the mode they belong to; a
\* recording starts and stops elsewhere.
LEMMA OthersKeepTimers ==
  ASSUME \/ \E value \in Values : Packet(value) \/ Simulate(value)
         \/ HandlePacket \/ ClickStartStop \/ ClickReset
         \/ UNCHANGED vars
  PROVE  UNCHANGED <<test_mode, test_timer_id, timers>>
<1>1. ASSUME NEW value \in Values, Packet(value) \/ Simulate(value)
      PROVE  UNCHANGED <<test_mode, test_timer_id, timers>>
  BY <1>1 DEF Packet, Simulate, modes
<1>2. CASE HandlePacket
  BY <1>2 DEF HandlePacket
<1>3. CASE ClickStartStop
  BY <1>3 DEF ClickStartStop
<1>4. CASE ClickReset
  BY <1>4 DEF ClickReset
<1>5. CASE UNCHANGED vars
  BY <1>5 DEF vars, modes
<1> QED
  BY <1>1, <1>2, <1>3, <1>4, <1>5

\* The main loop of the GUI runs one test timer in test mode and none
\* otherwise, whatever is clicked and received (teststandui.c 198-210).
THEOREM NoTimerLeaks == Spec => []OneTestTimer
<1>1. Init => OneTestTimer
  BY DEF Init, OneTestTimer
<1>2. OneTestTimer /\ [Next]_vars => OneTestTimer'
  <2> SUFFICES ASSUME OneTestTimer, [Next]_vars
               PROVE  OneTestTimer'
    OBVIOUS
  <2>1. CASE \E value \in Values : Packet(value) \/ Simulate(value)
    BY <2>1, OthersKeepTimers DEF OneTestTimer
  <2>2. CASE HandlePacket \/ ClickStartStop \/ ClickReset
    BY <2>2, OthersKeepTimers DEF OneTestTimer
  <2>3. ASSUME NEW id \in TimerIds \ timers, TestOn(id)
        PROVE  OneTestTimer'
    <3>1. id # 0
      BY <2>3, GuiAssumption
    <3>2. timers = {}
      BY <2>3 DEF TestOn, OneTestTimer
    <3>3. timers' = {id} /\ test_timer_id' = id /\ test_mode'
      BY <2>3, <3>2 DEF TestOn
    <3> QED
      BY <3>1, <3>3 DEF OneTestTimer
  <2>4. CASE TestOff
    <3>1. timers' = {} /\ test_timer_id' = 0 /\ ~test_mode'
      BY <2>4 DEF TestOff, OneTestTimer
    <3> QED
      BY <3>1 DEF OneTestTimer
  <2>5. CASE UNCHANGED vars
    BY <2>5, OthersKeepTimers DEF OneTestTimer
  <2> QED
    BY <2>1, <2>2, <2>3, <2>4, <2>5 DEF Next, ClickTest
<1> QED
  BY <1>1, <1>2, PTL DEF Spec

-----------------------------------------------------------------------------
\* What the plot and the table are made of, and what they are filled from.
DataOK ==
  /\ trace \in Seq(Point)
  /\ table \in Seq(Point)
  /\ pending \in Seq(Values)
  /\ PlotIsTailOfTable

\* A point that is logged goes to the end of the table and of the plot,
\* which drops its oldest point when it would hold one too many.
LEMMA LogKeepsTail ==
  ASSUME DataOK, NEW value \in Values, Log(value), UNCHANGED pending \/ pending' \in Seq(Values)
  PROVE  DataOK'
<1> DEFINE point == [x_time |-> current_time + 1, y_value |-> value]
           longer == Append(trace, point)
<1> USE GuiAssumption
<1>1. /\ Len(table) \in Nat /\ Len(trace) \in Nat
      /\ current_time = Len(table) /\ Len(table) < MaxRows
  BY LenProperties DEF DataOK, PlotIsTailOfTable, Log
<1>2. point \in Point
  BY <1>1 DEF Point
<1>3. /\ table' = Append(table, point)
      /\ trace' = IF Len(longer) > Keep THEN Tail(longer) ELSE longer
      /\ current_time' = current_time + 1
  BY DEF Log, Trimmed
<1> HIDE DEF point
<1>4. /\ table' \in Seq(Point)
      /\ Len(table') = Len(table) + 1
      /\ \A i \in 1 .. Len(table) : table'[i] = table[i]
      /\ table'[Len(table) + 1] = point
  BY <1>2, <1>3, AppendProperties DEF DataOK
<1>5. /\ longer \in Seq(Point)
      /\ longer # <<>>
      /\ Len(longer) = Len(trace) + 1
      /\ \A i \in 1 .. Len(trace) : longer[i] = trace[i]
      /\ longer[Len(trace) + 1] = point
  BY <1>2, AppendProperties DEF DataOK
<1> HIDE DEF longer
<1>6. \A i \in 1 .. Len(longer) : longer[i] = table'[Len(table') - Len(longer) + i]
  <2> SUFFICES ASSUME NEW i \in 1 .. Len(longer)
               PROVE  longer[i] = table'[Len(table') - Len(longer) + i]
    OBVIOUS
  <2>1. CASE i = Len(trace) + 1
    BY <2>1, <1>1, <1>4, <1>5
  <2>2. CASE i \in 1 .. Len(trace)
    <3>1. trace[i] = table[Len(table) - Len(trace) + i]
      BY <2>2 DEF DataOK, PlotIsTailOfTable
    <3>2. Len(table) - Len(trace) + i \in 1 .. Len(table)
      BY <2>2, <1>1 DEF DataOK, PlotIsTailOfTable
    <3> QED
      BY <2>2, <3>1, <3>2, <1>1, <1>4, <1>5
  <2> QED
    BY <2>1, <2>2, <1>1, <1>5
<1>7. trace' \in Seq(Point)
  BY <1>3, <1>5, HeadTailProperties
<1>8. Len(trace') = IF Len(table') < Keep THEN Len(table') ELSE Keep
  <2>1. Len(trace) = IF Len(table) < Keep THEN Len(table) ELSE Keep
    BY DEF DataOK, PlotIsTailOfTable
  <2>2. CASE Len(longer) > Keep
    <3>1. Len(trace') = Len(longer) - 1
      BY <2>2, <1>3, <1>5, HeadTailProperties
    <3> QED
      BY <2>1, <2>2, <3>1, <1>1, <1>4, <1>5
  <2>3. CASE ~(Len(longer) > Keep)
    BY <2>1, <2>3, <1>1, <1>3, <1>4, <1>5
  <2> QED
    BY <2>2, <2>3
<1>9. \A i \in 1 .. Len(trace') : trace'[i] = table'[Len(table') - Len(trace') + i]
  <2>1. CASE Len(longer) > Keep
    <3>1. /\ Len(trace') = Len(longer) - 1
          /\ \A i \in 1 .. Len(trace') : trace'[i] = longer[i + 1]
      BY <2>1, <1>3, <1>5, HeadTailProperties
    <3>2. ASSUME NEW i \in 1 .. Len(trace')
          PROVE  /\ i + 1 \in 1 .. Len(longer)
                 /\ Len(table') - Len(longer) + (i + 1) = Len(table') - Len(trace') + i
      BY <3>1, <3>2, <1>1, <1>4, <1>5
    <3>3. ASSUME NEW i \in 1 .. Len(trace')
          PROVE  longer[i + 1] = table'[Len(table') - Len(trace') + i]
      BY <3>2, <1>6
    <3> QED
      BY <3>1, <3>3
  <2>2. CASE ~(Len(longer) > Keep)
    BY <2>2, <1>3, <1>6
  <2> QED
    BY <2>1, <2>2
<1>10. \A i \in 1 .. Len(table') : table'[i].x_time = i
  <2>1. \A i \in 1 .. Len(table) : table[i].x_time = i
    BY DEF DataOK, PlotIsTailOfTable
  <2>2. point.x_time = Len(table) + 1
    BY <1>1 DEF point
  <2> QED
    BY <2>1, <2>2, <1>1, <1>4
<1>11. current_time' = Len(table')
  BY <1>1, <1>3, <1>4
<1> QED
  BY <1>4, <1>7, <1>8, <1>9, <1>10, <1>11 DEF DataOK, PlotIsTailOfTable

\* The plot and the table stay so, whatever is clicked and received.
LEMMA DataHolds == Spec => []DataOK
<1>1. Init => DataOK
  BY GuiAssumption, EmptySeq DEF Init, DataOK, PlotIsTailOfTable
<1>2. DataOK /\ [Next]_vars => DataOK'
  <2> SUFFICES ASSUME DataOK, [Next]_vars
               PROVE  DataOK'
    OBVIOUS
  <2>1. ASSUME UNCHANGED plot, pending' \in Seq(Values)
        PROVE  DataOK'
    BY <2>1 DEF DataOK, PlotIsTailOfTable, plot
  <2>2. ASSUME NEW value \in Values, Packet(value)
        PROVE  DataOK'
    <3>1. pending' \in Seq(Values)
      BY <2>2, AppendProperties DEF Packet, DataOK
    <3> QED
      BY <2>1, <2>2, <3>1 DEF Packet
  <2>3. ASSUME NEW value \in Values, Simulate(value)
        PROVE  DataOK'
    <3>1. UNCHANGED pending /\ LogIfRecording(value)
      BY <2>3 DEF Simulate
    <3>2. CASE is_recording
      BY <3>1, <3>2, LogKeepsTail DEF LogIfRecording
    <3>3. CASE ~is_recording
      BY <2>1, <3>1, <3>3 DEF LogIfRecording, DataOK
    <3> QED
      BY <3>2, <3>3
  <2>4. CASE HandlePacket
    <3>1. /\ Head(pending) \in Values
          /\ pending' \in Seq(Values)
          /\ LogIfRecording(Head(pending))
      BY <2>4, HeadTailProperties DEF HandlePacket, DataOK
    <3>2. CASE is_recording
      BY <3>1, <3>2, LogKeepsTail DEF LogIfRecording
    <3>3. CASE ~is_recording
      BY <2>1, <3>1, <3>3 DEF LogIfRecording
    <3> QED
      BY <3>2, <3>3
  <2>5. CASE ClickStartStop \/ ClickTest
    <3>1. UNCHANGED <<plot, pending>>
      BY <2>5 DEF ClickStartStop, ClickTest, TestOn, TestOff
    <3> QED
      BY <2>1, <3>1 DEF DataOK
  <2>6. CASE ClickReset
    <3>1. /\ trace' = <<>> /\ table' = <<>> /\ current_time' = 0
          /\ pending' = pending
      BY <2>6 DEF ClickReset
    <3> QED
      BY <3>1, GuiAssumption, EmptySeq DEF DataOK, PlotIsTailOfTable
  <2>7. CASE UNCHANGED vars
    BY <2>1, <2>7 DEF vars, DataOK
  <2> QED
    BY <2>2, <2>3, <2>4, <2>5, <2>6, <2>7 DEF Next
<1> QED
  BY <1>1, <1>2, PTL DEF Spec

\* The plot shows the newest rows of the table, stamped without a gap from
\* the last reset on, for any number of points kept (teststandui.c 66-86).
THEOREM PlotFollowsTable == Spec => []PlotIsTailOfTable
<1>1. DataOK => PlotIsTailOfTable
  BY DEF DataOK
<1> QED
  BY <1>1, DataHolds, PTL

-----------------------------------------------------------------------------
(* The axes.                                                                *)

\* The points from k on have a peak, wherever in the plot they begin.  That
\* a list of any length has one takes an induction; here it goes along the
\* steps that build the list up and take it down again.
PeakFrom(points, k) ==
  \E j \in k .. Len(points) :
    \A i \in k .. Len(points) : points[i].y_value <= points[j].y_value

Peaked(points) == \A k \in 1 .. Len(points) : PeakFrom(points, k)

\* A point more at the end leaves every part with a peak.
LEMMA AppendPeaked ==
  ASSUME NEW s \in Seq(Point), Peaked(s), NEW point \in Point
  PROVE  Peaked(Append(s, point))
<1> DEFINE t == Append(s, point)
           n == Len(s)
<1>1. /\ t \in Seq(Point)
      /\ n \in Nat
      /\ Len(t) = n + 1
      /\ \A i \in 1 .. n : t[i] = s[i]
      /\ t[n + 1] = point
  BY AppendProperties, LenProperties
<1>2. \A i \in 1 .. n + 1 : t[i].y_value \in Int
  <2> TAKE i \in 1 .. n + 1
  <2>1. t[i] \in Point
    BY <1>1, ElementOfSeq
  <2> QED BY <2>1, GuiAssumption DEF Point
<1> HIDE DEF t
<1>3. ASSUME NEW k \in 1 .. n + 1 PROVE PeakFrom(t, k)
  <2>1. CASE k = n + 1
    <3>1. \A i \in k .. Len(t) : i = n + 1
      BY <1>1, <2>1
    <3>2. \A i \in k .. Len(t) : t[i].y_value <= t[n + 1].y_value
      BY <1>1, <1>2, <3>1
    <3> QED BY <1>1, <2>1, <3>2 DEF PeakFrom
  <2>2. CASE k \in 1 .. n
    <3>1. PICK j \in k .. n : \A i \in k .. n : s[i].y_value <= s[j].y_value
      BY <2>2 DEF Peaked, PeakFrom
    <3>2. j \in 1 .. n /\ \A i \in k .. n : t[i].y_value <= t[j].y_value
      BY <1>1, <2>2, <3>1
    <3>3. CASE t[n + 1].y_value <= t[j].y_value
      <4>1. ASSUME NEW i \in k .. n + 1
            PROVE  t[i].y_value <= t[j].y_value
        <5>1. i \in k .. n \/ i = n + 1
          BY <1>1, <2>2
        <5> QED BY <3>2, <3>3, <5>1
      <4> QED BY <1>1, <3>1, <4>1 DEF PeakFrom
    <3>4. CASE t[j].y_value < t[n + 1].y_value
      <4>1. ASSUME NEW i \in k .. n + 1
            PROVE  t[i].y_value <= t[n + 1].y_value
        <5>1. i \in 1 .. n + 1
          BY <2>2
        <5>2. t[i].y_value \in Int /\ t[j].y_value \in Int
                /\ t[n + 1].y_value \in Int
          BY <1>1, <1>2, <3>2, <5>1
        <5>3. i = n + 1 \/ t[i].y_value <= t[j].y_value
          BY <1>1, <3>2
        <5> QED BY <3>4, <5>2, <5>3
      <4>2. n + 1 \in k .. Len(t)
        BY <1>1, <2>2
      <4>3. \A i \in k .. Len(t) : t[i].y_value <= t[n + 1].y_value
        BY <1>1, <4>1
      <4> QED BY <4>2, <4>3 DEF PeakFrom
    <3>5. t[n + 1].y_value \in Int /\ t[j].y_value \in Int
      <4>1. n + 1 \in 1 .. n + 1 /\ j \in 1 .. n + 1
        BY <1>1, <3>2
      <4> QED BY <1>2, <4>1
    <3> QED BY <3>3, <3>4, <3>5
  <2> QED BY <1>1, <2>1, <2>2
<1> QED BY <1>1, <1>3 DEF Peaked, t

\* Dropping the oldest point does, too.
LEMMA TailPeaked ==
  ASSUME NEW s \in Seq(Point), s # <<>>, Peaked(s)
  PROVE  Peaked(Tail(s))
<1> DEFINE t == Tail(s)
<1>1. /\ Len(s) \in Nat
      /\ Len(t) = Len(s) - 1
      /\ \A i \in 1 .. Len(t) : t[i] = s[i + 1]
  BY HeadTailProperties, LenProperties
<1> HIDE DEF t
<1>2. ASSUME NEW k \in 1 .. Len(t) PROVE PeakFrom(t, k)
  <2>1. PICK j \in k + 1 .. Len(s) :
          \A i \in k + 1 .. Len(s) : s[i].y_value <= s[j].y_value
    BY <1>1 DEF Peaked, PeakFrom
  <2>2. j - 1 \in k .. Len(t) /\ t[j - 1] = s[j]
    BY <1>1, <2>1
  <2>3. ASSUME NEW i \in k .. Len(t)
        PROVE  t[i].y_value <= t[j - 1].y_value
    <3>1. i \in 1 .. Len(t) /\ i + 1 \in k + 1 .. Len(s)
      BY <1>1
    <3>2. t[i] = s[i + 1]
      BY <1>1, <3>1
    <3>3. s[i + 1].y_value <= s[j].y_value
      BY <2>1, <3>1
    <3> QED BY <2>2, <3>2, <3>3
  <2> QED BY <2>2, <2>3 DEF PeakFrom
<1> QED BY <1>2 DEF Peaked, t

\* The headroom of points with a peak is what it is meant to be.
LEMMA HeadroomIsPeak ==
  ASSUME NEW s \in Seq(Point), Peaked(s)
  PROVE  /\ Headroom(s) \in Nat
         /\ \A p \in ToSet(s) : 11 * p.y_value <= Headroom(s)
         /\ Headroom(s) # 11 => \E p \in ToSet(s) : Headroom(s) = 11 * p.y_value
<1> DEFINE heights == {p.y_value : p \in ToSet(s)}
           peak == Max({1} \cup heights)
<1>1. Len(s) \in Nat /\ \A i \in 1 .. Len(s) : s[i] \in Point
  BY LenProperties, ElementOfSeq
<1>2. \A p : p \in ToSet(s) <=> \E i \in 1 .. Len(s) : p = s[i]
  BY <1>1, LenProperties DEF ToSet
<1>3. heights \subseteq Int
  BY <1>1, <1>2, GuiAssumption DEF Point
<1>4. \E x \in {1} \cup heights : \A y \in {1} \cup heights : x >= y
  <2>1. CASE Len(s) = 0
    <3>1. heights = {}
      <4>1. \A i \in 1 .. Len(s) : FALSE
        BY <2>1
      <4>2. \A p : p \notin ToSet(s)
        BY <1>2, <4>1
      <4> QED BY <4>2
    <3> HIDE DEF heights
    <3>2. 1 \in {1} \cup heights /\ \A y \in {1} \cup heights : y = 1
      BY <3>1
    <3>3. \A y \in {1} \cup heights : 1 >= y
      BY <3>2
    <3> QED BY <3>2, <3>3
  <2>2. CASE Len(s) > 0
    <3>1. PICK j \in 1 .. Len(s) :
            \A i \in 1 .. Len(s) : s[i].y_value <= s[j].y_value
      <4>1. 1 \in 1 .. Len(s)
        BY <1>1, <2>2
      <4>2. PeakFrom(s, 1)
        BY <4>1 DEF Peaked
      <4> QED BY <4>2 DEF PeakFrom
    <3>2. s[j].y_value \in heights
      BY <1>2, <3>1
    <3>3. \A y \in heights : s[j].y_value >= y
      <4> SUFFICES ASSUME NEW p \in ToSet(s) PROVE s[j].y_value >= p.y_value
        OBVIOUS
      <4>1. PICK i \in 1 .. Len(s) : p = s[i]
        BY <1>2
      <4>2. s[i].y_value \in Int /\ s[j].y_value \in Int
        BY <1>1, GuiAssumption DEF Point
      <4> QED BY <3>1, <4>1, <4>2
    <3> HIDE DEF heights
    <3>4. s[j].y_value \in Int
      BY <1>3, <3>2
    <3>5. CASE s[j].y_value >= 1
      BY <1>3, <3>2, <3>3, <3>5
    <3>6. CASE s[j].y_value < 1
      <4>1. \A y \in heights : 1 >= y
        BY <1>3, <3>3, <3>4, <3>6
      <4> QED BY <4>1
    <3> QED BY <3>4, <3>5, <3>6
  <2> QED BY <1>1, <2>1, <2>2
<1>5. peak \in {1} \cup heights /\ \A y \in {1} \cup heights : peak >= y
  BY <1>4 DEF Max
<1> HIDE DEF peak
<1>6. peak \in Nat
  BY <1>3, <1>5
<1>7. Headroom(s) = 11 * peak
  BY DEF Headroom, peak
<1>8. \A p \in ToSet(s) : p.y_value \in Int /\ p.y_value <= peak
  <2> TAKE p \in ToSet(s)
  <2>1. p.y_value \in heights
    OBVIOUS
  <2> HIDE DEF heights
  <2> QED BY <1>3, <1>5, <1>6, <2>1
<1>9. peak = 1 \/ \E p \in ToSet(s) : peak = p.y_value
  BY <1>5
<1> QED BY <1>6, <1>7, <1>8, <1>9

\* The plot and its axes change in two ways: a recorded point, or a reset.
LEMMA PlotStep ==
  ASSUME DataOK, [Next]_vars
  PROVE  \/ UNCHANGED plot
         \/ ClickReset
         \/ is_recording /\ \E value \in Values : Log(value)
<1>1. ASSUME NEW value \in Values, Packet(value) \/ Simulate(value)
      PROVE  \/ UNCHANGED plot
             \/ is_recording /\ \E v \in Values : Log(v)
  BY <1>1 DEF Packet, Simulate, LogIfRecording
<1>2. CASE HandlePacket
  <2>1. Head(pending) \in Values
    BY <1>2, HeadTailProperties DEF HandlePacket, DataOK
  <2> QED BY <1>2, <2>1 DEF HandlePacket, LogIfRecording
<1>3. CASE ClickStartStop \/ ClickTest \/ UNCHANGED vars
  BY <1>3 DEF ClickStartStop, ClickTest, TestOn, TestOff, vars
<1> QED BY <1>1, <1>2, <1>3 DEF Next

\* Nothing is added to the table while the recording is stopped, from
\* whichever source it comes (teststandui.c 118-121, 188).
THEOREM StoppedMeansStopped == Spec => NothingAfterStop
<1>1. DataOK /\ [Next]_vars => [Len(table') > Len(table) => is_recording]_vars
  <2> SUFFICES ASSUME DataOK, [Next]_vars, Len(table') > Len(table)
               PROVE  is_recording
    OBVIOUS
  <2>1. Len(table) \in Nat
    BY LenProperties DEF DataOK
  <2>2. ~ UNCHANGED plot
    BY <2>1 DEF plot
  <2>3. ~ ClickReset
    <3> SUFFICES ASSUME ClickReset PROVE FALSE OBVIOUS
    <3>1. Len(table') = 0
      BY EmptySeq DEF ClickReset
    <3> QED BY <2>1, <3>1
  <2> QED BY <2>2, <2>3, PlotStep
<1> QED BY <1>1, DataHolds, PTL DEF Spec, NothingAfterStop

-----------------------------------------------------------------------------
\* The axes belong to the points that are shown.
AxesOK ==
  /\ Peaked(trace)
  /\ max_x \in 0 .. MaxRows
  /\ max_y \in Nat
  /\ trace # <<>> => max_x = current_time /\ max_y = Headroom(trace)

\* A recorded point leaves a plot with a peak, and moves the axes to it.
LEMMA LogKeepsAxes ==
  ASSUME DataOK, DataOK', AxesOK, NEW value \in Values, Log(value)
  PROVE  AxesOK'
<1> DEFINE point == [x_time |-> current_time + 1, y_value |-> value]
           longer == Append(trace, point)
<1>1. current_time \in 0 .. MaxRows - 1 /\ current_time' = current_time + 1
  <2>1. Len(table) \in Nat
    BY LenProperties DEF DataOK
  <2> QED BY <2>1, GuiAssumption DEF Log, DataOK, PlotIsTailOfTable
<1>2. point \in Point
  BY <1>1, GuiAssumption DEF Point
<1>3. trace' = IF Len(longer) > Keep THEN Tail(longer) ELSE longer
  BY DEF Log, Trimmed
<1> HIDE DEF point
<1>4. longer \in Seq(Point) /\ longer # <<>>
  BY <1>2, AppendProperties DEF DataOK
<1>5. Peaked(longer)
  BY <1>2, AppendPeaked DEF DataOK, AxesOK
<1> HIDE DEF longer
<1>6. Peaked(trace')
  BY <1>3, <1>4, <1>5, TailPeaked
<1>7. max_x' = current_time' /\ max_y' = Headroom(trace')
  BY DEF Log
<1>8. Headroom(trace') \in Nat
  BY <1>6, HeadroomIsPeak DEF DataOK
<1>9. max_x' \in 0 .. MaxRows
  BY <1>1, <1>7, GuiAssumption
<1> QED BY <1>6, <1>7, <1>8, <1>9 DEF AxesOK

LEMMA AxesHold == Spec => []AxesOK
<1>1. Init => AxesOK
  <2> SUFFICES ASSUME Init PROVE AxesOK OBVIOUS
  <2>1. Peaked(trace)
    BY EmptySeq DEF Init, Peaked
  <2> QED BY <2>1, GuiAssumption DEF Init, AxesOK
<1>2. DataOK /\ DataOK' /\ AxesOK /\ [Next]_vars => AxesOK'
  <2> SUFFICES ASSUME DataOK, DataOK', AxesOK, [Next]_vars PROVE AxesOK'
    OBVIOUS
  <2>1. CASE UNCHANGED plot
    BY <2>1 DEF plot, AxesOK
  <2>2. CASE ClickReset
    <3>1. trace' = <<>> /\ max_x' = 0 /\ max_y' = 1500
      BY <2>2 DEF ClickReset
    <3>2. Peaked(trace')
      BY <3>1, EmptySeq DEF Peaked
    <3> QED BY <3>1, <3>2, GuiAssumption DEF AxesOK
  <2>3. ASSUME NEW value \in Values, Log(value) PROVE AxesOK'
    BY <2>3, LogKeepsAxes
  <2> QED BY <2>1, <2>2, <2>3, PlotStep
<1> QED BY <1>1, <1>2, DataHolds, PTL DEF Spec

\* Time ends at the newest point and the scale at the peak of the points
\* shown, for any number of points kept and any values (86-97).
THEOREM AxesFit == Spec => []PlotFitsAxes
<1>1. DataOK /\ AxesOK => PlotFitsAxes
  <2> SUFFICES ASSUME DataOK, AxesOK, trace # <<>> PROVE PlotFitsAxes
    BY DEF PlotFitsAxes
  <2>1. Len(trace) \in Nat \ {0} /\ Len(table) \in Nat
    BY EmptySeq, LenProperties DEF DataOK
  <2>2. Last(trace) = table[Len(table)]
    BY <2>1 DEF DataOK, PlotIsTailOfTable, Last
  <2>3. Len(table) \in 1 .. Len(table)
    BY <2>1, GuiAssumption DEF DataOK, PlotIsTailOfTable
  <2>4. max_x = Last(trace).x_time
    BY <2>2, <2>3 DEF DataOK, PlotIsTailOfTable, AxesOK
  <2> QED BY <2>4, HeadroomIsPeak DEF DataOK, AxesOK, PlotFitsAxes
<1> QED BY <1>1, DataHolds, AxesHold, PTL

-----------------------------------------------------------------------------
\* The switches and texts of the window, and the bounds of what it keeps.
WindowOK ==
  /\ {is_recording, has_data_input, test_mode} \subseteq BOOLEAN
  /\ test_timer_id \in TimerIds \cup {0}
  /\ timers \subseteq TimerIds
  /\ Len(table) <= MaxRows
  /\ Len(pending) <= MaxPending
  /\ label \in {"Start", "Stop"}
  /\ status \in {"idle", "recording", "paused", "no source", "testing",
                 "tested", "cleared"}

LEMMA WindowHolds == Spec => []WindowOK
<1>1. Init => WindowOK
  <2> SUFFICES ASSUME Init PROVE WindowOK OBVIOUS
  <2>1. Len(table) <= MaxRows /\ Len(pending) <= MaxPending
    BY GuiAssumption, EmptySeq DEF Init
  <2> QED BY <2>1 DEF Init, WindowOK
<1>2. DataOK /\ WindowOK /\ [Next]_vars => WindowOK'
  <2> SUFFICES ASSUME DataOK, WindowOK, [Next]_vars PROVE WindowOK'
    OBVIOUS
  <2>1. Len(table') <= MaxRows
    <3>1. CASE UNCHANGED plot
      BY <3>1 DEF plot, WindowOK
    <3>2. CASE ClickReset
      BY <3>2, EmptySeq, GuiAssumption DEF ClickReset
    <3>3. ASSUME NEW value \in Values, Log(value) PROVE Len(table') <= MaxRows
      <4>1. Len(table') = Len(table) + 1 /\ Len(table) < MaxRows
        BY <3>3, LenProperties DEF Log, DataOK
      <4>2. Len(table) \in Nat
        BY LenProperties DEF DataOK
      <4> QED BY <4>1, <4>2, GuiAssumption
    <3> QED BY <3>1, <3>2, <3>3, PlotStep
  <2>2. ASSUME NEW value \in Values, Packet(value) PROVE WindowOK'
    <3>1. Len(pending') = Len(pending) + 1 /\ Len(pending) < MaxPending
      BY <2>2, AppendProperties DEF Packet, DataOK
    <3>2. Len(pending) \in Nat
      BY LenProperties DEF DataOK
    <3>3. Len(pending') <= MaxPending
      BY <3>1, <3>2, GuiAssumption
    <3> QED BY <2>1, <2>2, <3>3 DEF Packet, modes, widgets, WindowOK
  <2>3. ASSUME NEW value \in Values, Simulate(value) PROVE WindowOK'
    BY <2>1, <2>3 DEF Simulate, modes, widgets, WindowOK
  <2>4. CASE HandlePacket
    <3>1. Len(pending') = Len(pending) - 1 /\ Len(pending) \in Nat
      BY <2>4, HeadTailProperties, LenProperties DEF HandlePacket, DataOK
    <3>2. Len(pending) <= MaxPending
      BY DEF WindowOK
    <3>3. Len(pending') <= MaxPending
      BY <3>1, <3>2, GuiAssumption
    <3> QED BY <2>1, <2>4, <3>3 DEF HandlePacket, widgets, WindowOK
  <2>5. CASE ClickStartStop
    <3>1. /\ is_recording' \in BOOLEAN
          /\ label' \in {"Start", "Stop"}
          /\ status' \in {"recording", "paused", "no source"}
      <4>1. CASE HasSource
        BY <2>5, <4>1 DEF ClickStartStop
      <4>2. CASE ~HasSource
        BY <2>5, <4>2 DEF ClickStartStop, WindowOK
      <4> QED BY <4>1, <4>2
    <3>2. UNCHANGED <<has_data_input, test_mode, test_timer_id, timers, pending>>
      BY <2>5 DEF ClickStartStop
    <3> QED BY <2>1, <3>1, <3>2 DEF WindowOK
  <2>6. CASE ClickTest
    BY <2>1, <2>6 DEF ClickTest, TestOn, TestOff, WindowOK
  <2>7. CASE ClickReset
    <3>1. is_recording' \in BOOLEAN /\ status' = "cleared"
      BY <2>7 DEF ClickReset
    <3>2. UNCHANGED <<has_data_input, test_mode, test_timer_id, timers, label, pending>>
      BY <2>7 DEF ClickReset
    <3> QED BY <2>1, <3>1, <3>2 DEF WindowOK
  <2>8. CASE UNCHANGED vars
    BY <2>8 DEF vars, modes, plot, widgets, WindowOK
  <2> QED BY <2>2, <2>3, <2>4, <2>5, <2>6, <2>7, <2>8 DEF Next
<1> QED BY <1>1, <1>2, DataHolds, PTL DEF Spec

\* Every variable of the graphical client keeps its type, for any size of
\* the plot and any supply of timer names.
THEOREM GuiTypeCorrect == Spec => []TypeOK
<1>1. DataOK /\ AxesOK /\ WindowOK => TypeOK
  <2> SUFFICES ASSUME DataOK, AxesOK, WindowOK PROVE TypeOK
    OBVIOUS
  <2>1. Len(table) \in Nat
    BY LenProperties DEF DataOK
  <2>2. current_time \in 0 .. MaxRows
    <3>1. Len(table) <= MaxRows
      BY DEF WindowOK
    <3> QED BY <2>1, <3>1, GuiAssumption DEF DataOK, PlotIsTailOfTable
  <2>3. Len(trace) <= Keep
    BY <2>1, GuiAssumption DEF DataOK, PlotIsTailOfTable
  <2>4. {is_recording, has_data_input, test_mode} \subseteq BOOLEAN
    BY DEF WindowOK
  <2>5. /\ test_timer_id \in TimerIds \cup {0}
        /\ timers \subseteq TimerIds
        /\ Len(table) <= MaxRows
        /\ Len(pending) <= MaxPending
        /\ label \in {"Start", "Stop"}
        /\ status \in {"idle", "recording", "paused", "no source", "testing",
                       "tested", "cleared"}
    BY DEF WindowOK
  <2>6. /\ trace \in Seq(Point) /\ table \in Seq(Point) /\ pending \in Seq(Values)
        /\ max_x \in 0 .. MaxRows /\ max_y \in Nat
    BY DEF DataOK, AxesOK
  <2> QED BY <2>2, <2>3, <2>4, <2>5, <2>6, Zenon DEF TypeOK
<1> QED BY <1>1, DataHolds, AxesHold, WindowHolds, PTL
=============================================================================
