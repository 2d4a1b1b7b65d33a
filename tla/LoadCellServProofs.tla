------------------------- MODULE LoadCellServProofs -------------------------
(***************************************************************************)
(* Theorems about the load cell server for every number of connections,    *)
(* every batch size and calibration, and both builds.                      *)
(***************************************************************************)
EXTENDS LoadCellServ, TLAPS

-----------------------------------------------------------------------------
(* The clock and the conversion.                                            *)

\* The clock of the samples stays within its horizon.
LEMMA TickType == \A t \in Stamps : Tick(t) \in Stamps
BY SamplerAssumption DEF Stamps, Tick

\* A conversion of a reading is a value.
LEMMA CalibratedType == \A raw \in Readings : Calibrated(raw) \in Int
BY SamplerAssumption DEF Calibrated, ADC_MAX

\* Pushing a sample onto a batch that has room leaves a batch with room, and
\* sends nothing or a full batch (push_batch, 130-142).
LEMMA PushBatchType ==
  ASSUME FastAsPossible, batch \in Batch, batch.count < BatchSize,
         wire \in Datagram \cup {NoMsg},
         NEW entry \in Minimal, PushBatch(entry)
  PROVE  /\ batch' \in Batch /\ batch'.count < BatchSize
         /\ wire' \in Datagram \cup {NoMsg}
<1> DEFINE filled == [count |-> batch.count + 1,
                      data  |-> [batch.data EXCEPT ![batch.count] = entry]]
<1>1. filled \in Batch
  BY SamplerAssumption DEF Batch, Slots
<1>2. [filled EXCEPT !.count = 0] \in Batch
  BY <1>1, SamplerAssumption DEF Batch
<1>3. CASE filled.count = BatchSize
  BY <1>1, <1>2, <1>3, SamplerAssumption DEF PushBatch, Batch, Datagram
<1>4. CASE filled.count # BatchSize
  <2>1. batch' = filled /\ wire' = wire
    BY <1>4 DEF PushBatch
  <2>2. filled.count < BatchSize
    BY <1>4, SamplerAssumption DEF Batch
  <2> QED BY <1>1, <2>1, <2>2
<1> QED BY <1>3, <1>4

-----------------------------------------------------------------------------
(* Types.                                                                   *)

LEMMA InitType == Init => TypeOK
<1> SUFFICES ASSUME Init PROVE TypeOK OBVIOUS
<1>1. SharedTypeOK
  BY TareAssumption DEF Init, SharedInit, SharedTypeOK
<1>2. SamplerTypeOK
  BY SamplerAssumption
  DEF Init, SamplerInit, SamplerTypeOK, MainPcs, Output, Batch, Minimal,
      Slots, Stamps
<1>3. AuxTypeOK
  BY DEF Init, AuxInit, AuxTypeOK, Silence, HandlerPcs
<1> QED BY <1>1, <1>2, <1>3 DEF TypeOK

\* A step of main() keeps the types.
LEMMA MainType == TypeOK /\ SamplerNext /\ UNCHANGED auxVars => TypeOK'
<1> SUFFICES ASSUME TypeOK, SamplerNext, UNCHANGED auxVars PROVE TypeOK'
  OBVIOUS
<1> USE DEF TypeOK
<1>0. AuxTypeOK'
  BY DEF AuxTypeOK, auxVars, tcpVars, handlerVars
<1>1. CASE Launch
  BY <1>0, <1>1 DEF Launch, Goto, SharedTypeOK, SamplerTypeOK, MainPcs
<1>2. CASE FirstReset
  BY <1>0, <1>2 DEF FirstReset, Goto, SharedTypeOK, SamplerTypeOK, MainPcs
<1>3. CASE LoopTest
  BY <1>0, <1>3 DEF LoopTest, sharedVars, SharedTypeOK, SamplerTypeOK, MainPcs
<1>4. CASE Sample
  <2> PICK raw \in Readings :
        o' = [collect_time |-> Tick(o.collect_time), raw_value |-> raw,
              value |-> Calibrated(raw), value_tare |-> Calibrated(raw) - tare]
    BY <1>4 DEF Sample
  <2>1. Tick(o.collect_time) \in Stamps
    BY TickType DEF SamplerTypeOK, Output
  <2>2. Calibrated(raw) \in Int /\ tare \in Int
    BY CalibratedType, TareAssumption DEF SharedTypeOK
  <2>3. o' \in Output
    BY <2>1, <2>2 DEF Output
  <2> QED
    BY <1>0, <1>4, <2>3
    DEF Sample, Goto, sharedVars, SharedTypeOK, SamplerTypeOK, MainPcs
<1>5. CASE Publish
  <2>1. /\ batch' \in Batch /\ batch'.count < BatchSize
        /\ wire' \in Datagram \cup {NoMsg}
        /\ stale' \in Nat
    <3>1. CASE FastAsPossible
      <4> DEFINE entry == [collect_time |-> o.collect_time,
                           raw_value |-> o.raw_value]
      <4>1. entry \in Minimal
        BY DEF SamplerTypeOK, Output, Minimal
      <4>2. PushBatch(entry) /\ stale' = stale
        BY <1>5, <3>1 DEF Publish
      <4> HIDE DEF entry
      <4> QED BY <3>1, <4>1, <4>2, PushBatchType DEF SamplerTypeOK, SharedTypeOK
    <3>2. CASE ~FastAsPossible
      BY <1>5, <3>2 DEF Publish, SamplerTypeOK, SharedTypeOK, Datagram
    <3> QED BY <3>1, <3>2
  <2> QED
    BY <1>0, <1>5, <2>1
    DEF Publish, Goto, SharedTypeOK, SamplerTypeOK, MainPcs, Datagram
<1>6. CASE WriteThrough
  BY <1>0, <1>6
  DEF WriteThrough, Goto, sharedVars, SharedTypeOK, SamplerTypeOK, MainPcs,
      Output
<1>7. CASE Poll
  BY <1>0, <1>7 DEF Poll, sharedVars, SharedTypeOK, SamplerTypeOK, MainPcs
<1>8. CASE LoadReset
  BY <1>0, <1>8
  DEF LoadReset, Goto, sharedVars, SharedTypeOK, SamplerTypeOK, MainPcs
<1>9. CASE SwapReset
  BY <1>0, <1>9 DEF SwapReset, SharedTypeOK, SamplerTypeOK, MainPcs
<1>10. CASE ResetAdc
  BY <1>0, <1>10 DEF ResetAdc, Goto, SharedTypeOK, SamplerTypeOK, MainPcs
<1>11. CASE Exit
  BY <1>0, <1>11 DEF Exit, Goto, SharedTypeOK, SamplerTypeOK, MainPcs
<1> QED
  BY <1>1, <1>2, <1>3, <1>4, <1>5, <1>6, <1>7, <1>8, <1>9, <1>10, <1>11
  DEF SamplerNext

\* A step of the auxiliary server or of a client keeps the types.
LEMMA AuxType == TypeOK /\ AuxNext /\ UNCHANGED samplerVars => TypeOK'
<1> SUFFICES ASSUME TypeOK, AuxNext, UNCHANGED samplerVars PROVE TypeOK'
  OBVIOUS
<1> USE DEF TypeOK
<1>0. SamplerTypeOK'
  BY DEF SamplerTypeOK, samplerVars
<1>1. CASE Setup
  BY <1>0, <1>1
  DEF Setup, SharedTypeOK, AuxTypeOK, auxVars, tcpVars, handlerVars
<1>2. ASSUME NEW c \in Conns, Accept(c) PROVE TypeOK'
  BY <1>0, <1>2
  DEF Accept, SharedTypeOK, AuxTypeOK, sharedVars, HandlerPcs
<1>3. ASSUME NEW c \in Conns, Handler(c) PROVE TypeOK'
  <2> USE DEF HandlerAt, HandlerGoto
  <2>1. CASE HandlerRead(c)
    <3>1. Dispatch(req[c].type) \in HandlerPcs
      BY DEF Dispatch, HandlerPcs
    <3> QED
      BY <1>0, <2>1, <3>1
      DEF HandlerRead, SharedTypeOK, AuxTypeOK, sharedVars
  <2>2. CASE HandlerLoad(c)
    BY <1>0, <2>2
    DEF HandlerLoad, SharedTypeOK, AuxTypeOK, sharedVars, tcpVars, HandlerPcs
  <2>3. CASE HandlerSwap(c)
    BY <1>0, <2>3
    DEF HandlerSwap, SharedTypeOK, AuxTypeOK, tcpVars, HandlerPcs
  <2>4. CASE HandlerTare(c)
    <3>1. hmsg[c].value \in TareValues
      BY TareAssumption DEF AuxTypeOK, Command, Silence
    <3> QED
      BY <1>0, <2>4, <3>1
      DEF HandlerTare, SharedTypeOK, AuxTypeOK, tcpVars, HandlerPcs
  <2>5. CASE HandlerAck(c)
    <3>1. [hmsg[c] EXCEPT !.type = "OP_ACK"] \in Command
      BY TareAssumption DEF AuxTypeOK, Command, Silence, Ops
    <3>2. hmsg' = [hmsg EXCEPT ![c] = [hmsg[c] EXCEPT !.type = "OP_ACK"]]
      BY <2>5 DEF HandlerAck
    <3> QED
      BY <1>0, <2>5, <3>1, <3>2
      DEF HandlerAck, SharedTypeOK, AuxTypeOK, sharedVars, HandlerPcs
  <2>6. CASE HandlerFinish(c)
    BY <1>0, <2>6
    DEF HandlerFinish, SharedTypeOK, AuxTypeOK, sharedVars, HandlerPcs
  <2> QED BY <1>3, <2>1, <2>2, <2>3, <2>4, <2>5, <2>6 DEF Handler
<1>4. ASSUME NEW c \in Conns, Client(c) PROVE TypeOK'
  <2> USE DEF SharedTypeOK, AuxTypeOK, sharedVars, handlerVars
  <2>1. CASE Connect(c)
    BY <1>0, <2>1 DEF Connect
  <2>2. CASE Leave(c)
    BY <1>0, <2>2 DEF Leave
  <2>3. ASSUME NEW m \in Command, Send(c, m) PROVE TypeOK'
    <3>1. m.type \in Ops \cup {"unknown"}
      BY DEF Command
    <3> QED BY <1>0, <2>3, <3>1 DEF Send
  <2> QED BY <1>4, <2>1, <2>2, <2>3 DEF Client
<1> QED BY <1>1, <1>2, <1>3, <1>4 DEF AuxNext

LEMMA StepType == TypeOK /\ [Next]_vars => TypeOK'
<1> SUFFICES ASSUME TypeOK, [Next]_vars PROVE TypeOK' OBVIOUS
<1>1. CASE Main
  BY <1>1, MainType DEF Main
<1>2. CASE Auxiliary
  BY <1>2, AuxType DEF Auxiliary
<1>3. CASE Interrupt
  BY <1>3
  DEF Interrupt, Sigint, TypeOK, SharedTypeOK, SamplerTypeOK, AuxTypeOK,
      samplerVars, auxVars, tcpVars, handlerVars
<1>4. CASE UNCHANGED vars
  BY <1>4
  DEF vars, TypeOK, SharedTypeOK, SamplerTypeOK, AuxTypeOK,
      sharedVars, samplerVars, auxVars, tcpVars, handlerVars
<1> QED BY <1>1, <1>2, <1>3, <1>4 DEF Next

\* Every variable of the server keeps to its declaration: in particular the
\* batch always has room for the next sample, so that the store in
\* push_batch (132) stays inside the array whatever the batch size.
THEOREM TypeCorrect == Spec => []TypeOK
<1>1. Init => TypeOK
  BY InitType
<1>2. TypeOK /\ [Next]_vars => TypeOK'
  BY StepType
<1> QED BY <1>1, <1>2, PTL DEF Spec
-----------------------------------------------------------------------------
(* Resets.                                                                  *)

\* No interleaving of main()'s polling and compare-and-swap with those of
\* any number of handlers drops a reset that was asked for.  With the types
\* the property is inductive as it stands: `reset` falls to 0 only in the
\* swap that sends main() to reset_adc(), and that call settles every debt.
THEOREM ResetsAreNotLost == Spec => []NoLostReset
<1>1. Init => NoLostReset
  BY DEF Init, SharedInit, NoLostReset
<1>2. TypeOK /\ NoLostReset /\ [Next]_vars => NoLostReset'
  <2> SUFFICES ASSUME TypeOK, NoLostReset, [Next]_vars PROVE NoLostReset'
    OBVIOUS
  <2> USE DEF NoLostReset
  <2>1. CASE Main
    <3> SUFFICES ASSUME SamplerNext PROVE NoLostReset'
      BY <2>1 DEF Main
    <3>1. CASE Launch
      BY <3>1 DEF Launch, Goto
    <3>2. CASE FirstReset
      BY <3>2 DEF FirstReset
    <3>3. CASE LoopTest
      BY <3>3 DEF LoopTest, sharedVars
    <3>4. CASE Sample
      BY <3>4 DEF Sample, Goto, sharedVars
    <3>5. CASE Publish
      BY <3>5 DEF Publish, Goto
    <3>6. CASE WriteThrough
      BY <3>6 DEF WriteThrough, Goto, sharedVars
    <3>7. CASE Poll
      BY <3>7 DEF Poll, sharedVars
    <3>8. CASE LoadReset
      BY <3>8 DEF LoadReset, Goto, sharedVars
    <3>9. CASE SwapReset
      BY <3>9 DEF SwapReset
    <3>10. CASE ResetAdc
      BY <3>10 DEF ResetAdc
    <3>11. CASE Exit
      BY <3>11 DEF Exit, Goto
    <3> QED
      BY <3>1, <3>2, <3>3, <3>4, <3>5, <3>6, <3>7, <3>8, <3>9, <3>10, <3>11
      DEF SamplerNext
  <2>2. CASE Auxiliary
    <3> SUFFICES ASSUME AuxNext, UNCHANGED samplerVars PROVE NoLostReset'
      BY <2>2 DEF Auxiliary
    <3> USE DEF samplerVars, sharedVars
    <3>1. CASE Setup
      BY <3>1 DEF Setup
    <3>2. ASSUME NEW c \in Conns, Accept(c) PROVE NoLostReset'
      BY <3>2 DEF Accept
    <3>3. ASSUME NEW c \in Conns, Handler(c) PROVE NoLostReset'
      <4>1. CASE HandlerSwap(c)
        BY <4>1 DEF HandlerSwap
      <4>2. CASE ~HandlerSwap(c)
        BY <3>3, <4>2
        DEF Handler, HandlerRead, HandlerLoad, HandlerTare, HandlerAck,
            HandlerFinish
      <4> QED BY <4>1, <4>2
    <3>4. ASSUME NEW c \in Conns, Client(c) PROVE NoLostReset'
      BY <3>4 DEF Client, Connect, Leave, Send
    <3> QED BY <3>1, <3>2, <3>3, <3>4 DEF AuxNext
  <2>3. CASE Interrupt
    BY <2>3 DEF Interrupt, Sigint, samplerVars
  <2>4. CASE UNCHANGED vars
    BY <2>4 DEF vars, sharedVars, samplerVars
  <2> QED BY <2>1, <2>2, <2>3, <2>4 DEF Next
<1> QED BY <1>1, <1>2, TypeCorrect, PTL DEF Spec

-----------------------------------------------------------------------------
(* The stream of samples.                                                   *)

\* What the steps below do not touch keeps StreamHasNoHoles: it only looks
\* at the batch, the last message, the sample and where main() stands.
LEMMA StreamUntouched ==
  ASSUME StreamHasNoHoles, UNCHANGED <<o, batch, wire>>,
         mpc # "publish", mpc' # "publish"
  PROVE  StreamHasNoHoles'
BY DEF StreamHasNoHoles, LastPublished, LastSent, LastStamp, Consecutive

\* push_batch (130-142) extends the run of samples by the one it is given.
LEMMA StreamPublish ==
  TypeOK /\ StreamHasNoHoles /\ Publish => StreamHasNoHoles'
<1> SUFFICES ASSUME TypeOK, StreamHasNoHoles, Publish PROVE StreamHasNoHoles'
  OBVIOUS
<1> USE SamplerAssumption DEF TypeOK, SamplerTypeOK
<1> DEFINE n == batch.count
           entry == [collect_time |-> o.collect_time, raw_value |-> o.raw_value]
           stored == [batch.data EXCEPT ![n] = entry]
<1>1. mpc = "publish" /\ mpc' = "write" /\ o' = o
  BY DEF Publish, Goto
<1>2. o.collect_time = Tick(LastPublished)
  BY <1>1 DEF StreamHasNoHoles
<1>3. CASE FastAsPossible
  <2>1. PushBatch(entry)
    BY <1>3 DEF Publish
  <2>2. n \in 0 .. BatchSize - 1 /\ batch.data \in [Slots -> Minimal]
    BY DEF Batch
  <2>3. stored[n] = entry /\ \A i \in 0 .. n - 1 : stored[i] = batch.data[i]
    BY <2>2 DEF Slots
  <2>4. Consecutive(stored, n + 1)
    <3> SUFFICES ASSUME NEW i \in 0 .. (n + 1) - 2
                 PROVE  stored[i + 1].collect_time
                          = Tick(stored[i].collect_time)
      BY DEF Consecutive
    <3>1. CASE i = n - 1
      <4>1. n > 0 /\ LastPublished = batch.data[n - 1].collect_time
        BY <2>2, <3>1 DEF LastPublished
      <4> QED BY <1>2, <2>2, <2>3, <3>1, <4>1
    <3>2. CASE i # n - 1
      <4>1. i \in 0 .. n - 2 /\ i + 1 \in 0 .. n - 1 /\ i \in 0 .. n - 1
        BY <2>2, <3>2
      <4>2. batch.data[i + 1].collect_time = Tick(batch.data[i].collect_time)
        BY <4>1 DEF StreamHasNoHoles, Consecutive
      <4> QED BY <2>3, <4>1, <4>2
    <3> QED BY <3>1, <3>2
  <2>5. stored[0].collect_time = Tick(LastSent)
    <3>1. CASE n = 0
      BY <1>2, <2>3, <3>1 DEF LastPublished
    <3>2. CASE n > 0
      BY <2>2, <2>3, <3>2 DEF StreamHasNoHoles
    <3> QED BY <2>2, <3>1, <3>2
  <2>6. CASE n + 1 = BatchSize
    <3>1. /\ wire' = [count |-> BatchSize, data |-> stored]
          /\ batch'.count = 0
      BY <2>1, <2>6 DEF PushBatch
    <3>2. wire' # NoMsg
      BY <3>1 DEF NoMsg
    <3>3. LastSent' = o.collect_time
      BY <1>3, <2>2, <2>3, <2>6, <3>1, <3>2 DEF LastSent, LastStamp
    <3>4. LastPublished' = LastSent'
      BY <3>1 DEF LastPublished
    <3>5. Consecutive(wire'.data, BatchSize)
      BY <2>4, <2>6, <3>1
    <3>6. Consecutive(batch'.data, batch'.count)
      BY <3>1 DEF Consecutive
    <3> QED
      BY <1>1, <1>3, <3>1, <3>3, <3>4, <3>5, <3>6 DEF StreamHasNoHoles
  <2>7. CASE n + 1 # BatchSize
    <3>1. batch' = [count |-> n + 1, data |-> stored] /\ wire' = wire
      BY <2>1, <2>7 DEF PushBatch
    <3>2. LastSent' = LastSent
      BY <3>1 DEF LastSent, LastStamp
    <3>3. LastPublished' = o.collect_time
      BY <2>2, <2>3, <3>1 DEF LastPublished
    <3> QED
      BY <1>1, <1>3, <2>4, <2>5, <3>1, <3>2, <3>3
      DEF StreamHasNoHoles, Consecutive
  <2> QED BY <2>6, <2>7
<1>4. CASE ~FastAsPossible
  <2>1. wire' = o /\ batch' = batch /\ n = 0
    BY <1>4 DEF Publish, StreamHasNoHoles
  <2>2. o # NoMsg
    BY DEF NoMsg, Output
  <2>3. LastPublished' = o.collect_time
    BY <1>4, <2>1, <2>2 DEF LastPublished, LastSent, LastStamp
  <2> QED BY <1>1, <1>4, <2>1, <2>3 DEF StreamHasNoHoles, Consecutive
<1> QED BY <1>3, <1>4

\* Between them the steps of main() keep the stream whole.
LEMMA StreamStep ==
  TypeOK /\ StreamHasNoHoles /\ [Next]_vars => StreamHasNoHoles'
<1> SUFFICES ASSUME TypeOK, StreamHasNoHoles, [Next]_vars
             PROVE  StreamHasNoHoles'
  OBVIOUS
<1>1. CASE Main
  <2>1. CASE Sample
    <3>1. /\ mpc = "sample" /\ mpc' = "publish" /\ batch' = batch /\ wire' = wire
          /\ o'.collect_time = Tick(o.collect_time)
      BY <2>1 DEF Sample, Goto
    <3>2. LastPublished' = LastPublished /\ LastSent' = LastSent
      BY <3>1 DEF LastPublished, LastSent, LastStamp
    <3> QED BY <3>1, <3>2 DEF StreamHasNoHoles, Consecutive
  <2>2. CASE Publish
    BY <2>2, StreamPublish
  <2>3. CASE ~Sample /\ ~Publish
    <3>1. mpc # "publish" /\ mpc' # "publish" /\ UNCHANGED <<o, batch, wire>>
      BY <1>1, <2>3
      DEF Main, SamplerNext, Launch, FirstReset, LoopTest, WriteThrough, Poll,
          LoadReset, SwapReset, ResetAdc, Exit, Goto
    <3> QED BY <3>1, StreamUntouched
  <2> QED BY <2>1, <2>2, <2>3
<1>2. CASE UNCHANGED samplerVars
  BY <1>2
  DEF samplerVars, StreamHasNoHoles, LastPublished, LastSent, LastStamp,
      Consecutive
<1> QED BY <1>1, <1>2 DEF Next, Auxiliary, Interrupt, vars

\* What has been broadcast and what waits in the batch is one unbroken run
\* of samples, for every batch size and in both builds.
THEOREM StreamIsWhole == Spec => []StreamHasNoHoles
<1>1. Init => StreamHasNoHoles
  BY SamplerAssumption
  DEF Init, SamplerInit, StreamHasNoHoles, LastPublished, LastSent,
      Consecutive
<1> QED BY <1>1, StreamStep, TypeCorrect, PTL DEF Spec

\* A step that sends a message publishes the sample main() holds, and the
\* message ends with that sample.
LEMMA SendsNewest ==
  ASSUME TypeOK, [Next]_vars, wire' # wire
  PROVE  /\ Publish /\ LastStamp(wire') = o.collect_time
         /\ FastAsPossible =>
              /\ batch.count = BatchSize - 1
              /\ FirstStamp(wire') = IF batch.count = 0 THEN o.collect_time
                                     ELSE batch.data[0].collect_time
         /\ ~FastAsPossible => FirstStamp(wire') = o.collect_time
<1> USE SamplerAssumption DEF TypeOK, SamplerTypeOK
<1>1. Publish
  BY DEF Next, Main, Auxiliary, Interrupt, vars, samplerVars, SamplerNext,
         Launch, FirstReset, LoopTest, Sample, WriteThrough, Poll, LoadReset,
         SwapReset, ResetAdc, Exit
<1>2. CASE FastAsPossible
  <2> DEFINE entry == [collect_time |-> o.collect_time,
                       raw_value |-> o.raw_value]
             stored == [batch.data EXCEPT ![batch.count] = entry]
  <2>1. PushBatch(entry)
    BY <1>1, <1>2 DEF Publish
  <2>2. batch.count + 1 = BatchSize /\ wire'.data = stored
    BY <2>1 DEF PushBatch
  <2>3. batch.count \in Slots /\ batch.data \in [Slots -> Minimal]
    BY DEF Batch, Slots
  <2>4. /\ stored[batch.count] = entry
        /\ batch.count # 0 => stored[0] = batch.data[0]
    BY <2>3 DEF Slots
  <2>5. batch.count = BatchSize - 1
    BY <2>2, <2>3 DEF Slots
  <2> QED BY <1>1, <1>2, <2>2, <2>4, <2>5 DEF FirstStamp, LastStamp
<1>3. CASE ~FastAsPossible
  BY <1>1, <1>3 DEF Publish, FirstStamp, LastStamp
<1> QED BY <1>2, <1>3

\* Every message takes up where the one before ended.
THEOREM DatagramsAreConsecutive == Spec => DatagramsFollow
<1>1. ASSUME TypeOK, StreamHasNoHoles, [Next]_vars, wire' # wire
      PROVE  FirstStamp(wire') = Tick(LastSent)
  <2>1. o.collect_time = Tick(LastPublished)
    BY <1>1, SendsNewest DEF StreamHasNoHoles, Publish, Goto
  <2>2. CASE FastAsPossible
    <3>1. CASE batch.count = 0
      BY <1>1, <2>1, <2>2, <3>1, SendsNewest DEF LastPublished
    <3>2. CASE batch.count # 0
      <4>1. batch.count > 0
        BY <1>1, <3>2 DEF TypeOK, SamplerTypeOK, Batch
      <4> QED BY <1>1, <2>2, <4>1, SendsNewest DEF StreamHasNoHoles
    <3> QED BY <3>1, <3>2
  <2>3. CASE ~FastAsPossible
    <3>1. LastPublished = LastSent
      BY <1>1, <2>3 DEF StreamHasNoHoles, LastPublished
    <3> QED BY <1>1, <2>1, <2>3, <3>1, SendsNewest
  <2> QED BY <2>2, <2>3
<1>2. TypeOK /\ StreamHasNoHoles /\ [Next]_vars
        => [wire' # wire => FirstStamp(wire') = Tick(LastSent)]_vars
  BY <1>1
<1> QED BY <1>2, TypeCorrect, StreamIsWhole, PTL DEF Spec, DatagramsFollow

-----------------------------------------------------------------------------
(* The writethrough file.                                                   *)

\* The file is one sample behind between taking a sample and writing it.
FileInStep ==
  writethrough =>
    o.collect_time = IF mpc \in {"publish", "write"} THEN Tick(file) ELSE file

LEMMA FileStep == FileInStep /\ [Next]_vars => FileInStep'
<1> SUFFICES ASSUME FileInStep, [Next]_vars PROVE FileInStep'
  OBVIOUS
<1> USE DEF FileInStep
<1>1. CASE Main
  <2>1. CASE Sample
    BY <2>1 DEF Sample, Goto
  <2>2. CASE Publish
    BY <2>2 DEF Publish, Goto
  <2>3. CASE WriteThrough
    BY <2>3 DEF WriteThrough, Goto
  <2>4. CASE ~Sample /\ ~Publish /\ ~WriteThrough
    <3>1. /\ mpc \notin {"publish", "write"} /\ mpc' \notin {"publish", "write"}
          /\ UNCHANGED <<o, file>>
      BY <1>1, <2>4
      DEF Main, SamplerNext, Launch, FirstReset, LoopTest, Poll, LoadReset,
          SwapReset, ResetAdc, Exit, Goto
    <3> QED BY <3>1
  <2> QED BY <2>1, <2>2, <2>3, <2>4
<1>2. CASE UNCHANGED samplerVars
  BY <1>2 DEF samplerVars
<1> QED BY <1>1, <1>2 DEF Next, Auxiliary, Interrupt, vars

\* Every sample reaches the file once, in order, right after it was
\* broadcast or put in the batch.
THEOREM FileHasEverySample == Spec => FileIsComplete
<1>1. Init => FileInStep
  BY DEF Init, SamplerInit, FileInStep
<1>2. Spec => []FileInStep
  BY <1>1, FileStep, PTL DEF Spec
<1>3. ASSUME TypeOK, FileInStep, [Next]_vars, writethrough
      PROVE  /\ file' # file => file' = Tick(file)
             /\ wire' # wire => LastStamp(wire') = Tick(file)
  <2>1. ASSUME file' # file PROVE file' = Tick(file)
    <3>1. WriteThrough
      BY <1>3, <2>1
      DEF Next, Main, Auxiliary, Interrupt, vars, samplerVars, SamplerNext,
          Launch, FirstReset, LoopTest, Sample, Publish, Poll, LoadReset,
          SwapReset, ResetAdc, Exit
    <3> QED BY <1>3, <3>1 DEF WriteThrough, Goto, FileInStep
  <2>2. ASSUME wire' # wire PROVE LastStamp(wire') = Tick(file)
    BY <1>3, <2>2, SendsNewest DEF Publish, Goto, FileInStep
  <2> QED BY <2>1, <2>2
<1>4. TypeOK /\ FileInStep /\ [Next]_vars
        => [writethrough =>
              /\ file' # file => file' = Tick(file)
              /\ wire' # wire => LastStamp(wire') = Tick(file)]_vars
  BY <1>3
<1> QED BY <1>2, <1>4, TypeCorrect, PTL DEF Spec, FileIsComplete

-----------------------------------------------------------------------------
(* The abstract specification.                                              *)

\* Taking a sample is a Take of Stream.
LEMMA SampleTakes ==
  TypeOK /\ StreamHasNoHoles /\ FileInStep /\ Sample => Promised!Take
<1> SUFFICES ASSUME TypeOK, StreamHasNoHoles, FileInStep, Sample
             PROVE  Promised!Take
  OBVIOUS
<1>1. /\ mpc = "sample" /\ mpc' = "publish" /\ batch' = batch /\ wire' = wire
      /\ file' = file /\ o'.collect_time = Tick(o.collect_time)
  BY DEF Sample, Goto
<1>2. LastSent' = LastSent
  BY <1>1 DEF LastSent, LastStamp
<1>3. batch.count < IF FastAsPossible THEN BatchSize ELSE 1
  BY DEF TypeOK, SamplerTypeOK, StreamHasNoHoles
<1>4. writethrough => file = o.collect_time
  BY <1>1 DEF FileInStep
<1> QED BY <1>1, <1>2, <1>3, <1>4 DEF Promised!Take, Promised!Next, Tick

\* Publishing it is a Send when it completes a message, and otherwise only
\* moves it from main()'s hands into the batch.
LEMMA PublishSends ==
  ASSUME TypeOK, StreamHasNoHoles, Publish
  PROVE  Promised!Send \/ UNCHANGED Promised!streamVars
<1> USE SamplerAssumption DEF TypeOK, SamplerTypeOK
<1> DEFINE n == batch.count
           entry == [collect_time |-> o.collect_time, raw_value |-> o.raw_value]
           stored == [batch.data EXCEPT ![n] = entry]
<1>1. mpc = "publish" /\ mpc' = "write" /\ o' = o /\ file' = file
  BY DEF Publish, Goto
<1>2. CASE FastAsPossible
  <2>1. PushBatch(entry)
    BY <1>2 DEF Publish
  <2>2. n \in Slots /\ batch.data \in [Slots -> Minimal]
    BY DEF Batch, Slots
  <2>3. CASE n + 1 = BatchSize
    <3>1. wire' = [count |-> BatchSize, data |-> stored] /\ batch'.count = 0
      BY <2>1, <2>3 DEF PushBatch
    <3>2. stored[n] = entry /\ n = BatchSize - 1
      BY <2>2, <2>3 DEF Slots
    <3>3. wire' # NoMsg
      BY <3>1 DEF NoMsg
    <3>4. LastSent' = o.collect_time
      BY <1>2, <3>1, <3>2, <3>3 DEF LastSent, LastStamp
    <3> QED BY <1>1, <1>2, <2>3, <3>1, <3>4 DEF Promised!Send
  <2>4. CASE n + 1 # BatchSize
    <3>1. batch'.count = n + 1 /\ wire' = wire
      BY <2>1, <2>4 DEF PushBatch
    <3>2. LastSent' = LastSent
      BY <3>1 DEF LastSent, LastStamp
    <3> QED BY <1>1, <3>1, <3>2 DEF Promised!streamVars
  <2> QED BY <2>3, <2>4
<1>3. CASE ~FastAsPossible
  <2>1. wire' = o /\ batch' = batch /\ n = 0
    BY <1>3 DEF Publish, StreamHasNoHoles
  <2>2. LastSent' = o.collect_time
    BY <1>3, <2>1 DEF LastSent, LastStamp, NoMsg, Output
  <2> QED BY <1>1, <1>3, <2>1, <2>2 DEF Promised!Send
<1> QED BY <1>2, <1>3

\* Writing it is a Keep.
LEMMA WriteKeeps ==
  ASSUME TypeOK, StreamHasNoHoles, WriteThrough
  PROVE  Promised!Keep \/ UNCHANGED Promised!streamVars
<1>1. /\ mpc = "write" /\ mpc' = "poll" /\ UNCHANGED <<o, batch, wire>>
      /\ file' = IF writethrough THEN o.collect_time ELSE file
  BY DEF WriteThrough, Goto
<1>2. LastSent' = LastSent
  BY <1>1 DEF LastSent, LastStamp
<1>3. batch.count < IF FastAsPossible THEN BatchSize ELSE 1
  BY DEF TypeOK, SamplerTypeOK, StreamHasNoHoles
<1> QED
  BY <1>1, <1>2, <1>3 DEF Promised!Keep, Promised!streamVars

\* The server implements Stream, in both builds and for every batch size.
THEOREM ServerImplementsStream == Spec => ImplementsStream
<1>1. Init => Promised!Init
  BY DEF Init, SamplerInit, LastSent, Promised!Init
<1>2. Spec => []FileInStep
  <2>1. Init => FileInStep
    BY DEF Init, SamplerInit, FileInStep
  <2> QED BY <2>1, FileStep, PTL DEF Spec
<1>3. TypeOK /\ StreamHasNoHoles /\ FileInStep /\ [Next]_vars
        => [Promised!Take \/ Promised!Send \/ Promised!Keep]_(Promised!streamVars)
  <2> SUFFICES ASSUME TypeOK, StreamHasNoHoles, FileInStep, [Next]_vars
               PROVE  \/ Promised!Take \/ Promised!Send \/ Promised!Keep
                      \/ UNCHANGED Promised!streamVars
    OBVIOUS
  <2>1. CASE Main
    <3>1. CASE Sample
      BY <3>1, SampleTakes
    <3>2. CASE Publish
      BY <3>2, PublishSends
    <3>3. CASE WriteThrough
      BY <3>3, WriteKeeps
    <3>4. CASE ~Sample /\ ~Publish /\ ~WriteThrough
      <4>1. /\ mpc # "publish" /\ mpc' # "publish"
            /\ UNCHANGED <<o, batch, wire, file>>
        BY <2>1, <3>4
        DEF Main, SamplerNext, Launch, FirstReset, LoopTest, Poll, LoadReset,
            SwapReset, ResetAdc, Exit, Goto
      <4>2. LastSent' = LastSent
        BY <4>1 DEF LastSent, LastStamp
      <4> QED BY <4>1, <4>2 DEF Promised!streamVars
    <3> QED BY <3>1, <3>2, <3>3, <3>4
  <2>2. CASE UNCHANGED samplerVars
    BY <2>2 DEF samplerVars, LastSent, LastStamp, Promised!streamVars
  <2> QED BY <2>1, <2>2 DEF Next, Auxiliary, Interrupt, vars
<1> QED
  BY <1>1, <1>2, <1>3, TypeCorrect, StreamIsWhole, PTL
  DEF Spec, ImplementsStream, Promised!Spec

-----------------------------------------------------------------------------
(* Tares.                                                                   *)

\* While a packet has gone out with an older tare than the last one stored,
\* the sample in main()'s hands was converted with that last one.
OnlyOneIsStale ==
  /\ stale \in {0, 1}
  /\ stale = 1 /\ mpc = "publish" => o.value - o.value_tare = tare

\* However many clients tare the scale, at most one packet goes out with an
\* older tare than the last stored.
THEOREM StalePacketsBounded == Spec => []AtMostOneStalePacket
<1>1. Init => OnlyOneIsStale
  BY DEF Init, SharedInit, SamplerInit, OnlyOneIsStale
<1>2. TypeOK /\ OnlyOneIsStale /\ [Next]_vars => OnlyOneIsStale'
  <2> SUFFICES ASSUME TypeOK, OnlyOneIsStale, [Next]_vars
               PROVE  OnlyOneIsStale'
    OBVIOUS
  <2> USE DEF OnlyOneIsStale
  <2>1. CASE Main
    <3>1. CASE Sample
      <4> PICK raw \in Readings :
            o' = [collect_time |-> Tick(o.collect_time), raw_value |-> raw,
                  value |-> Calibrated(raw),
                  value_tare |-> Calibrated(raw) - tare]
        BY <3>1 DEF Sample
      <4>1. o'.value - o'.value_tare = tare
        BY CalibratedType, TareAssumption DEF TypeOK, SharedTypeOK
      <4> QED BY <3>1, <4>1 DEF Sample, sharedVars
    <3>2. CASE Publish
      BY <3>2 DEF Publish, Goto
    <3>3. CASE ~Sample /\ ~Publish
      <4>1. mpc' # "publish" /\ UNCHANGED stale
        BY <2>1, <3>3
        DEF Main, SamplerNext, Launch, FirstReset, LoopTest, WriteThrough,
            Poll, LoadReset, SwapReset, ResetAdc, Exit, Goto, sharedVars
      <4> QED BY <4>1
    <3> QED BY <3>1, <3>2, <3>3
  <2>2. CASE Auxiliary
    <3>1. UNCHANGED <<mpc, o>>
      BY <2>2 DEF Auxiliary, samplerVars
    <3>2. stale' = 0 \/ UNCHANGED <<stale, tare>>
      BY <2>2
      DEF Auxiliary, AuxNext, Setup, Accept, Handler, Client, HandlerRead,
          HandlerLoad, HandlerSwap, HandlerTare, HandlerAck, HandlerFinish,
          Connect, Send, Leave, sharedVars
    <3> QED BY <3>1, <3>2
  <2>3. CASE Interrupt
    BY <2>3 DEF Interrupt, Sigint, samplerVars
  <2>4. CASE UNCHANGED vars
    BY <2>4 DEF vars, sharedVars, samplerVars
  <2> QED BY <2>1, <2>2, <2>3, <2>4 DEF Next
<1>3. OnlyOneIsStale => AtMostOneStalePacket
  BY DEF OnlyOneIsStale, AtMostOneStalePacket
<1> QED BY <1>1, <1>2, <1>3, TypeCorrect, PTL DEF Spec

-----------------------------------------------------------------------------
(* Acknowledgements.                                                        *)

\* What each stage of a handler knows of the command its client sent.
StageMatchesCommand(c) ==
  /\ asked[c] = "none" => req[c] = Silence
  /\ req[c] # Silence => req[c].type = asked[c]
  /\ hpc[c] \in {"load", "swap"} => asked[c] = "OP_RESET"
  /\ hpc[c] = "tare" => asked[c] = "OP_TARE"
  /\ hpc[c] = "ack" => asked[c] \in {"OP_ACK", applied[c]} \ {"none"}
  /\ rep[c] = "OP_ACK" => asked[c] \in {"OP_ACK", applied[c]} \ {"none"}
  /\ applied[c] \in {"none", asked[c]}

HandlersMatchCommands == \A c \in Conns : StageMatchesCommand(c)

\* What a step does for one connection it does to no other.
LEMMA OtherConnection ==
  ASSUME TypeOK, NEW c \in Conns, NEW d \in Conns, d # c,
         Accept(c) \/ Handler(c) \/ Client(c)
  PROVE  /\ req'[d] = req[d] /\ rep'[d] = rep[d] /\ asked'[d] = asked[d]
         /\ hpc'[d] = hpc[d] /\ applied'[d] = applied[d]
BY DEF TypeOK, AuxTypeOK, Accept, Handler, HandlerRead, HandlerLoad,
       HandlerSwap, HandlerTare, HandlerAck, HandlerFinish, Client, Connect,
       Send, Leave, HandlerGoto, tcpVars, handlerVars

\* A handler's own steps keep it in line with its client's command.
LEMMA HandlerStage ==
  ASSUME TypeOK, NEW c \in Conns, StageMatchesCommand(c), Handler(c)
  PROVE  StageMatchesCommand(c)'
<1> USE DEF TypeOK, AuxTypeOK, StageMatchesCommand, HandlerAt, HandlerGoto
<1>1. CASE HandlerRead(c)
  <2>1. /\ req[c] = Silence => Dispatch(req[c].type) = "finish"
        /\ Dispatch(req[c].type) \in {"load", "swap"} => req[c].type = "OP_RESET"
        /\ Dispatch(req[c].type) = "tare" => req[c].type = "OP_TARE"
        /\ Dispatch(req[c].type) = "ack" => req[c].type = "OP_ACK"
    BY DEF Dispatch, Silence
  <2>2. /\ req'[c] = Silence /\ hpc'[c] = Dispatch(req[c].type)
        /\ UNCHANGED <<asked, rep, applied>>
    BY <1>1 DEF HandlerRead
  <2> QED BY <2>1, <2>2
<1>2. CASE HandlerLoad(c)
  BY <1>2 DEF HandlerLoad, tcpVars
<1>3. CASE HandlerSwap(c)
  BY <1>3 DEF HandlerSwap, tcpVars
<1>4. CASE HandlerTare(c)
  BY <1>4 DEF HandlerTare, tcpVars
<1>5. CASE HandlerAck(c)
  BY <1>5 DEF HandlerAck
<1>6. CASE HandlerFinish(c)
  BY <1>6 DEF HandlerFinish
<1> QED BY <1>1, <1>2, <1>3, <1>4, <1>5, <1>6 DEF Handler

\* So do the accept thread and the client.
LEMMA EnvironmentStage ==
  ASSUME TypeOK, NEW c \in Conns, StageMatchesCommand(c),
         Accept(c) \/ Client(c)
  PROVE  StageMatchesCommand(c)'
<1> USE DEF TypeOK, AuxTypeOK, StageMatchesCommand
<1>1. CASE Accept(c)
  BY <1>1 DEF Accept
<1>2. CASE Connect(c)
  BY <1>2 DEF Connect, handlerVars
<1>3. CASE Leave(c)
  BY <1>3 DEF Leave, handlerVars
<1>4. ASSUME NEW m \in Command, Send(c, m) PROVE StageMatchesCommand(c)'
  <2>1. m.type # "none" /\ m # Silence
    BY DEF Command, Silence, Ops
  <2>2. /\ req'[c] = m /\ asked'[c] = m.type /\ asked[c] = "none"
        /\ UNCHANGED <<rep, hpc, applied>>
    BY <1>4 DEF Send, handlerVars
  <2> QED BY <2>1, <2>2
<1> QED BY <1>1, <1>2, <1>3, <1>4 DEF Client

\* Every handler is always in line with the command its client sent.
LEMMA MatchesCommands == Spec => []HandlersMatchCommands
<1>1. Init => HandlersMatchCommands
  <2> SUFFICES ASSUME Init, NEW c \in Conns PROVE StageMatchesCommand(c)
    BY DEF HandlersMatchCommands
  <2>1. /\ asked[c] = "none" /\ applied[c] = "none" /\ rep[c] = "nothing"
        /\ hpc[c] = "unborn" /\ req[c] = Silence
    BY DEF Init, AuxInit
  <2> QED BY <2>1 DEF StageMatchesCommand
<1>2. TypeOK /\ HandlersMatchCommands /\ [Next]_vars => HandlersMatchCommands'
  <2> SUFFICES ASSUME TypeOK, HandlersMatchCommands, [Next]_vars,
                      NEW d \in Conns
               PROVE  StageMatchesCommand(d)'
    BY DEF HandlersMatchCommands
  <2>1. ASSUME NEW c \in Conns, Accept(c) \/ Handler(c) \/ Client(c)
        PROVE  StageMatchesCommand(d)'
    <3>1. CASE c = d
      BY <2>1, <3>1, HandlerStage, EnvironmentStage DEF HandlersMatchCommands
    <3>2. CASE c # d
      BY <2>1, <3>2, OtherConnection
      DEF HandlersMatchCommands, StageMatchesCommand
    <3> QED BY <3>1, <3>2
  <2>2. CASE UNCHANGED auxVars
    BY <2>2
    DEF HandlersMatchCommands, StageMatchesCommand, auxVars, tcpVars,
        handlerVars
  <2>3. CASE Setup
    BY <2>2, <2>3 DEF Setup
  <2> QED
    BY <2>1, <2>2, <2>3 DEF Next, Main, Auxiliary, AuxNext, Interrupt, vars
<1> QED BY <1>1, <1>2, TypeCorrect, PTL DEF Spec

\* An acknowledgement is never sent before its command has taken effect, nor
\* for a command the server does not know, for any number of clients.
THEOREM AcknowledgementsAreTrue == Spec => []AckAfterEffect
<1>1. HandlersMatchCommands => AckAfterEffect
  BY DEF HandlersMatchCommands, StageMatchesCommand, AckAfterEffect
<1> QED BY <1>1, MatchesCommands, PTL
=============================================================================
