------------------------------- MODULE Sampler -------------------------------
(***************************************************************************)
(* The main thread of load_cell_serv.c from the moment the SIGINT handler  *)
(* is installed: it launches the auxiliary server, resets the ADC and then *)
(* repeats one iteration per sample - read the ADC, stamp and convert the  *)
(* reading, publish it (alone, or in batches when FAST_AS_POSSIBLE is      *)
(* set), write it through to disk, and serve a pending reset.              *)
(*                                                                         *)
(* Each action holds at most one access to a variable another thread may   *)
(* change.  Time stamps are taken from a clock that only has to tell       *)
(* consecutive samples apart: it counts modulo Horizon, so that the        *)
(* service can run forever in a finite state space.                        *)
(***************************************************************************)
EXTENDS ServerState

CONSTANTS
  BatchSize,       \* BATCH_SIZE: samples in one datagram
  Horizon,         \* bound: number of distinct time stamps
  Readings,        \* raw values the ADC may deliver
  multiplier_m,    \* first and zeroth order term of the calibration
  multiplier_b,
  writethrough     \* -w was given: the samples are also written to a file

ASSUME SamplerAssumption ==
  /\ BatchSize \in Nat \ {0}
  /\ Horizon \in Nat \ {0}
  /\ Readings \subseteq Int
  /\ multiplier_m \in Int
  /\ multiplier_b \in Int
  /\ writethrough \in BOOLEAN

VARIABLES
  mpc,       \* program counter of main()
  expected,  \* the local `expected` of main()'s compare-and-swap loop
  o,         \* the sample being handled
  batch,     \* the batch being filled
  wire,      \* the last message handed to sendto(), NoMsg before the first
  file       \* time stamp of the last record written through

samplerVars == <<mpc, expected, o, batch, wire, file>>

ADC_MAX == 32767

\* raw / ADC_MAX * m + b in units of 1 / ADC_MAX, which keeps it exact.
Calibrated(raw) == raw * multiplier_m + multiplier_b * ADC_MAX

\* The stamp of the sample that follows one stamped t.
Tick(t) == IF t = Horizon - 1 THEN 0 ELSE t + 1

Stamps == 0 .. Horizon - 1
Slots == 0 .. BatchSize - 1

Minimal == [collect_time : Stamps, raw_value : Readings \cup {0}]
Output == [collect_time : Stamps, raw_value : Readings \cup {0},
           value : Int, value_tare : Int]
Batch == [count : 0 .. BatchSize, data : [Slots -> Minimal]]
NoMsg == [none |-> TRUE]
Datagram == IF FastAsPossible THEN Batch ELSE Output

MainPcs == {"launch", "init", "loop", "sample", "publish", "write", "poll",
            "load", "swap", "resetadc", "closing", "exited"}

SamplerTypeOK ==
  /\ mpc \in MainPcs
  /\ expected \in {0, 1}
  /\ o \in Output
  /\ batch \in Batch
  /\ batch.count < BatchSize
  /\ wire \in Datagram \cup {NoMsg}
  /\ file \in Stamps

SamplerInit ==
  /\ mpc = "launch"
  /\ expected = 0
  /\ o = [collect_time |-> 0, raw_value |-> 0, value |-> 0, value_tare |-> 0]
  /\ batch = [count |-> 0,
              data |-> [i \in Slots |-> [collect_time |-> 0, raw_value |-> 0]]]
  /\ wire = NoMsg
  /\ file = 0

Goto(from, to) == mpc = from /\ mpc' = to

-----------------------------------------------------------------------------
(* Start of service.                                                        *)

\* pthread_create(run_auxillary_server); its result is not looked at, so
\* the server samples on without an auxiliary thread when it fails.
Launch ==
  /\ Goto("launch", "init")
  /\ apc' \in {"setup", "failed"}
  /\ UNCHANGED <<global, reset, tare, up, owed, stale,
                 expected, o, batch, wire, file>>

\* The reset_adc() before the loop.  The auxiliary server is already
\* running, so requests may be waiting: this reset comes after them.
FirstReset ==
  /\ Goto("init", "loop")
  /\ owed' = {}
  /\ UNCHANGED <<global, reset, tare, apc, up, stale,
                 expected, o, batch, wire, file>>

-----------------------------------------------------------------------------
(* One iteration.                                                           *)

\* MUTANT: `global` is neither volatile nor atomic; the compiler may keep it
\* in a register once the loop is entered.
LoopTestHoisted ==
  /\ Goto("loop", "sample")
  /\ UNCHANGED <<sharedVars, expected, o, batch, wire, file>>

LoopTest ==
  /\ mpc = "loop"
  /\ mpc' = IF global THEN "sample" ELSE "closing"
  /\ UNCHANGED <<sharedVars, expected, o, batch, wire, file>>

\* MUTANT: the tare is loaded once, before the loop.
SampleOldTare ==
  /\ Goto("sample", "publish")
  /\ \E raw \in Readings :
       o' = [collect_time |-> Tick(o.collect_time),
             raw_value    |-> raw,
             value        |-> Calibrated(raw),
             value_tare   |-> Calibrated(raw)]
  /\ UNCHANGED <<sharedVars, expected, batch, wire, file>>

\* next_value(), the conversion, the time stamp and the load of tare.
Sample ==
  /\ Goto("sample", "publish")
  /\ \E raw \in Readings :
       o' = [collect_time |-> Tick(o.collect_time),
             raw_value    |-> raw,
             value        |-> Calibrated(raw),
             value_tare   |-> Calibrated(raw) - tare]
  /\ UNCHANGED <<sharedVars, expected, batch, wire, file>>

\* MUTANT: the count is not reset after a batch is sent.
PushBatchNoReset(entry) ==
  LET filled == [count |-> batch.count + 1,
                 data  |-> [batch.data EXCEPT ![batch.count] = entry]]
  IN /\ batch' = filled
     /\ wire' = IF filled.count = BatchSize THEN filled ELSE wire

\* MUTANT: the batch is sent before the last entry is stored.
PushBatchSendFirst(entry) ==
  LET filled == [count |-> batch.count + 1,
                 data  |-> [batch.data EXCEPT ![batch.count] = entry]]
  IN IF filled.count = BatchSize
       THEN /\ wire' = [batch EXCEPT !.count = BatchSize]
            /\ batch' = [filled EXCEPT !.count = 0]
       ELSE batch' = filled /\ UNCHANGED wire

\* MUTANT: the next batch starts in the second slot.
PushBatchFromOne(entry) ==
  LET filled == [count |-> batch.count + 1,
                 data  |-> [batch.data EXCEPT ![batch.count] = entry]]
  IN IF filled.count = BatchSize
       THEN wire' = filled /\ batch' = [filled EXCEPT !.count = 1]
       ELSE batch' = filled /\ UNCHANGED wire

\* push_batch(): store the entry, and when that fills the batch send the
\* whole structure and start over.  The slots keep their old contents.
PushBatch(entry) ==
  LET filled == [count |-> batch.count + 1,
                 data  |-> [batch.data EXCEPT ![batch.count] = entry]]
  IN IF filled.count = BatchSize
       THEN wire' = filled /\ batch' = [filled EXCEPT !.count = 0]
       ELSE batch' = filled /\ UNCHANGED wire

Publish ==
  /\ Goto("publish", "write")
  /\ IF FastAsPossible
       THEN /\ PushBatch([collect_time |-> o.collect_time,
                          raw_value    |-> o.raw_value])
            /\ UNCHANGED stale
       ELSE /\ wire' = o
            /\ stale' = IF o.value - o.value_tare = tare THEN stale
                                                         ELSE stale + 1
            /\ UNCHANGED batch
  /\ UNCHANGED <<global, reset, tare, apc, up, owed, expected, o, file>>

\* MUTANT: the file is written once per batch.
WriteThroughPerBatch ==
  /\ Goto("write", "poll")
  /\ file' = IF writethrough /\ batch.count = 0 THEN o.collect_time ELSE file
  /\ UNCHANGED <<sharedVars, expected, o, batch, wire>>

WriteThrough ==
  /\ Goto("write", "poll")
  /\ file' = IF writethrough THEN o.collect_time ELSE file
  /\ UNCHANGED <<sharedVars, expected, o, batch, wire>>

\* MUTANT: the poll looks at main()'s own copy of the flag.
PollOwnCopy ==
  /\ mpc = "poll"
  /\ mpc' = IF expected = 1 THEN "load" ELSE "loop"
  /\ UNCHANGED <<sharedVars, expected, o, batch, wire, file>>

\* if (atomic_load(&reset))
Poll ==
  /\ mpc = "poll"
  /\ mpc' = IF reset = 1 THEN "load" ELSE "loop"
  /\ UNCHANGED <<sharedVars, expected, o, batch, wire, file>>

\* expected = atomic_load(&reset)
LoadReset ==
  /\ Goto("load", "swap")
  /\ expected' = reset
  /\ UNCHANGED <<sharedVars, o, batch, wire, file>>

\* MUTANT: once the flag is cleared the call of reset_adc() is left out.
SwapResetForgets ==
  /\ mpc = "swap"
  /\ IF reset = expected THEN reset' = 0 /\ mpc' = "loop"
                         ELSE mpc' = "load" /\ UNCHANGED reset
  /\ UNCHANGED <<global, tare, apc, up, owed, stale,
                 expected, o, batch, wire, file>>

\* atomic_compare_exchange_strong(&reset, &expected, 0)
SwapReset ==
  /\ mpc = "swap"
  /\ IF reset = expected
       THEN reset' = 0 /\ mpc' = "resetadc"
       ELSE mpc' = "load" /\ UNCHANGED reset
  /\ UNCHANGED <<global, tare, apc, up, owed, stale,
                 expected, o, batch, wire, file>>

\* reset_adc(): every request noted so far is served by this one reset.
ResetAdc ==
  /\ Goto("resetadc", "loop")
  /\ owed' = {}
  /\ UNCHANGED <<global, reset, tare, apc, up, stale,
                 expected, o, batch, wire, file>>

-----------------------------------------------------------------------------
\* The closing calls after the loop and the return from main(), which ends
\* the process with all its threads and sockets.
Exit ==
  /\ Goto("closing", "exited")
  /\ up' = FALSE
  /\ UNCHANGED <<global, reset, tare, apc, owed, stale,
                 expected, o, batch, wire, file>>

SamplerNext ==
  \/ Launch \/ FirstReset \/ LoopTest \/ Sample \/ Publish \/ WriteThrough
  \/ Poll \/ LoadReset \/ SwapReset \/ ResetAdc \/ Exit
=============================================================================
