--------------------------------- MODULE Gui ---------------------------------
(***************************************************************************)
(* teststandui.c: the graphical client.  Clicks, the test timer and the    *)
(* packets that the receive thread hands to the main loop as idle sources  *)
(* arrive in any order; the main loop handles one of them at a time.       *)
(*                                                                         *)
(* Lines 122-129 are the remains of a merge and keep the file from being   *)
(* compiled.  The data path modelled here is the one around them: the      *)
(* callback of the receive thread (135-148) queues a copy of the packet,   *)
(* idle_handle_output (114-121, 130-132) takes it up on the main loop.     *)
(***************************************************************************)
EXTENDS Integers, Sequences, SequencesExt, FiniteSetsExt

CONSTANTS
  Keep,        \* DATA_POINTS_TO_KEEP
  Values,      \* values of a packet, or of the simulation
  Network,     \* the receive thread was started
  MaxRows,     \* bound: rows in the table
  MaxPending,  \* bound: packets waiting for the main loop
  TimerIds     \* bound: names of GLib timer sources

ASSUME GuiAssumption ==
  /\ Keep \in Nat \ {0}
  /\ Values \subseteq Int
  /\ Network \in BOOLEAN
  /\ MaxRows \in Nat
  /\ MaxPending \in Nat
  /\ TimerIds \subseteq Nat \ {0}

VARIABLES
  is_recording,
  has_data_input,
  test_mode,       \* also the state of the check button that toggles it
  test_timer_id,   \* the timer to remove, 0 for none
  timers,          \* the timer sources the main loop runs
  current_time,    \* g_current_time, in tenths of a second
  trace,           \* the points of the plot
  table,           \* the rows of the list store
  max_x, max_y,    \* the ends of the axes, in tenths
  pending,         \* value_tare of the packets queued for the main loop
  label,           \* what the button says a click does: "Start" or "Stop"
  status           \* the last message on the status bar

modes == <<is_recording, has_data_input, test_mode, test_timer_id, timers>>
plot == <<current_time, trace, table, max_x, max_y>>
widgets == <<label, status>>
vars == <<modes, plot, widgets, pending>>

Point == [x_time : 1 .. MaxRows, y_value : Values]

\* The peak of the points with 10% headroom; without a positive point the
\* plot is scaled as if its peak were 1.
Headroom(points) == 11 * Max({1} \cup {p.y_value : p \in ToSet(points)})

Init ==
  /\ is_recording = FALSE
  /\ has_data_input = FALSE
  /\ test_mode = FALSE
  /\ test_timer_id = 0
  /\ timers = {}
  /\ current_time = 0
  /\ trace = <<>>
  /\ table = <<>>
  /\ max_x = 0
  /\ max_y = 0
  /\ pending = <<>>
  /\ label = "Stop"
  /\ status = "idle"

-----------------------------------------------------------------------------
(* Data.                                                                    *)

\* MUTANT: the list is trimmed one point late.
TrimmedLate(points) == IF Len(points) > Keep + 1 THEN Tail(points) ELSE points

\* MUTANT: the newest point is dropped in place of the oldest.
TrimmedNewest(points) == IF Len(points) > Keep THEN Front(points) ELSE points

\* The list keeps the last Keep points.
Trimmed(points) == IF Len(points) > Keep THEN Tail(points) ELSE points

\* MUTANT: the peak is only ever raised.
LogPeakKept(value) ==
  LET point == [x_time |-> current_time + 1, y_value |-> value]
  IN /\ Len(table) < MaxRows
     /\ current_time' = current_time + 1
     /\ trace' = Trimmed(Append(trace, point))
     /\ table' = Append(table, point)
     /\ max_x' = current_time'
     /\ max_y' = Max({max_y, Headroom(trace')})

\* log_new_data()
Log(value) ==
  LET point == [x_time |-> current_time + 1, y_value |-> value]
  IN /\ Len(table) < MaxRows
     /\ current_time' = current_time + 1
     /\ trace' = Trimmed(Append(trace, point))
     /\ table' = Append(table, point)
     /\ max_x' = current_time'
     /\ max_y' = Headroom(trace')

LogIfRecording(value) == IF is_recording THEN Log(value) ELSE UNCHANGED plot

\* on_tick_timer, on the receive thread: g_idle_add() of a copy.
Packet(value) ==
  /\ Network
  /\ Len(pending) < MaxPending
  /\ pending' = Append(pending, value)
  /\ UNCHANGED <<modes, plot, widgets>>

\* MUTANT: whether to log is decided when the packet is queued.
HandlePacketUnchecked ==
  /\ pending # <<>>
  /\ has_data_input' = TRUE
  /\ Log(Head(pending))
  /\ pending' = Tail(pending)
  /\ UNCHANGED <<is_recording, test_mode, test_timer_id, timers, widgets>>

\* idle_handle_output, on the main loop.
HandlePacket ==
  /\ pending # <<>>
  /\ has_data_input' = TRUE
  /\ LogIfRecording(Head(pending))
  /\ pending' = Tail(pending)
  /\ UNCHANGED <<is_recording, test_mode, test_timer_id, timers, widgets>>

\* test_timer_cb, for as long as its source lives.
Simulate(value) ==
  /\ timers # {}
  /\ LogIfRecording(value)
  /\ UNCHANGED <<modes, widgets, pending>>

-----------------------------------------------------------------------------
(* Clicks.                                                                  *)

HasSource == has_data_input \/ test_mode

\* on_start_stop_clicked: the click is refused without a source of data.
ClickStartStop ==
  /\ IF HasSource
       THEN /\ is_recording' = ~is_recording
            /\ label' = IF is_recording' THEN "Stop" ELSE "Start"
            /\ status' = IF is_recording' THEN "recording" ELSE "paused"
       ELSE status' = "no source" /\ UNCHANGED <<is_recording, label>>
  /\ UNCHANGED <<has_data_input, test_mode, test_timer_id, timers, plot, pending>>

TestOn(id) ==
  /\ ~test_mode
  /\ test_mode' = TRUE
  /\ has_data_input' = TRUE
  /\ test_timer_id' = id
  /\ timers' = timers \cup {id}
  /\ status' = "testing"
  /\ UNCHANGED <<is_recording, plot, label, pending>>

\* MUTANT: the timer is left to find out that it is no longer wanted.
TestOffKeepsTimer ==
  /\ test_mode
  /\ test_mode' = FALSE
  /\ has_data_input' = FALSE
  /\ test_timer_id' = 0
  /\ status' = "tested"
  /\ UNCHANGED <<is_recording, timers, plot, label, pending>>

TestOff ==
  /\ test_mode
  /\ test_mode' = FALSE
  /\ has_data_input' = FALSE
  /\ timers' = timers \ {test_timer_id}
  /\ test_timer_id' = 0
  /\ status' = "tested"
  /\ UNCHANGED <<is_recording, plot, label, pending>>

\* on_test_toggled; g_timeout_add_full() names the source with a free id.
ClickTest == (\E id \in TimerIds \ timers : TestOn(id)) \/ TestOff

\* on_reset_clicked: a recording is stopped by on_start_stop_clicked, which
\* is called with no button to relabel and refuses as it does for a click;
\* then reset_graph_data clears the plot.
ClickReset ==
  /\ is_recording' = (is_recording /\ ~HasSource)
  /\ current_time' = 0
  /\ trace' = <<>>
  /\ table' = <<>>
  /\ max_x' = 0
  /\ max_y' = 1500
  /\ status' = "cleared"
  /\ UNCHANGED <<has_data_input, test_mode, test_timer_id, timers, label, pending>>

Next ==
  \/ \E value \in Values : Packet(value) \/ Simulate(value)
  \/ HandlePacket \/ ClickStartStop \/ ClickTest \/ ClickReset

Spec == Init /\ [][Next]_vars

-----------------------------------------------------------------------------
(* Properties.                                                              *)

\* Every variable holds what its declaration in the C source allows, and
\* the plot never holds more points than it is to keep.
TypeOK ==
  /\ {is_recording, has_data_input, test_mode} \subseteq BOOLEAN
  /\ test_timer_id \in TimerIds \cup {0}
  /\ timers \subseteq TimerIds
  /\ current_time \in 0 .. MaxRows
  /\ trace \in Seq(Point) /\ Len(trace) <= Keep
  /\ table \in Seq(Point) /\ Len(table) <= MaxRows
  /\ max_x \in 0 .. MaxRows
  /\ max_y \in Nat
  /\ pending \in Seq(Values) /\ Len(pending) <= MaxPending
  /\ label \in {"Start", "Stop"}
  /\ status \in {"idle", "recording", "paused", "no source", "testing",
                 "tested", "cleared"}

\* The plot shows the newest rows of the table, all of them until there are
\* more than it keeps, and the rows are stamped one after the other from
\* the last reset on (66-86, 215-227), over pauses and changes of source.
PlotIsTailOfTable ==
  /\ Len(trace) = IF Len(table) < Keep THEN Len(table) ELSE Keep
  /\ \A i \in 1 .. Len(trace) : trace[i] = table[Len(table) - Len(trace) + i]
  /\ current_time = Len(table)
  /\ \A i \in 1 .. Len(table) : table[i].x_time = i

\* The axes fit the points that are shown, not ones that were dropped from
\* the plot or cleared (86-97): time ends at the newest point and the scale
\* at the peak, or at 1 when no point is positive.
PlotFitsAxes ==
  trace # <<>> =>
    /\ max_x = Last(trace).x_time
    /\ \A p \in ToSet(trace) : 11 * p.y_value <= max_y
    /\ max_y # 11 => \E p \in ToSet(trace) : max_y = 11 * p.y_value

\* The main loop runs one test timer while the test mode is on and none
\* while it is off (198-210): none is leaked by toggling.
OneTestTimer ==
  /\ timers = {test_timer_id} \ {0}
  /\ test_mode <=> timers # {}

\* Nothing is added to the plot while the recording is stopped, by a packet
\* that was queued before the stop no more than by the timer (118-121, 188).
NothingAfterStop == [][Len(table') > Len(table) => is_recording]_vars

\* "Graph data cleared. Ready to record." (229): a reset stops a recording
\* before it clears the plot (236-240).
ReadyMeansStopped == status = "cleared" => ~is_recording
=============================================================================
