-------------------------- MODULE MotorStandProofs --------------------------
(***************************************************************************)
(* Theorems about the whole stand.  The value of a tare is a double in the *)
(* code; here it is any integer, which is what the second assumption of    *)
(* each theorem says of the set the checked instances keep small.          *)
(***************************************************************************)
EXTENDS MotorStand, LoadCellServProofs

\* An actor sends a value only with a tare, and only over its connection.
ActorCommands ==
  \A a \in Conns : /\ act[a] = "prior" => op[a] = "OP_TARE"
                   /\ op[a] # "OP_TARE" => prior[a] = 0
                   /\ asked[a] \in {"none", op[a]}

SystemInv == TypeOK /\ ActorTypeOK /\ ActorCommands

-----------------------------------------------------------------------------
(* Every step of the stand is a step of the server as LoadCellServ knows it *)
(* or none at all.                                                          *)

\* A step of an actor's main() is seen from the server as nothing, or as a
\* client that connects, sends a command or leaves.
LEMMA ActorIsClient ==
  ASSUME TareValues = Int, SystemInv, NEW a \in Conns, SystemActor(a)
  PROVE  Auxiliary \/ UNCHANGED vars
<1>1. CASE UNCHANGED auxVars
  BY <1>1 DEF SystemActor, vars
<1>2. CASE Client(a)
  BY <1>2 DEF SystemActor, Auxiliary, AuxNext
<1>3. CASE WriteCommand(a)
  <2> DEFINE m == [type |-> op[a], value |-> prior[a]]
  <2>1. m \in Command
    BY DEF SystemInv, ActorTypeOK, Command
  <2>2. Send(a, m)
    BY <1>3 DEF WriteCommand
  <2> QED BY <1>2, <2>1, <2>2 DEF Client
<1> QED
  BY <1>1, <1>2, <1>3
  DEF SystemActor, ActorMain, Start, ReadPrior, AddressUnset, ConnectTo,
      ConnectFails, WriteUnheard, ReadReply, ReadEof, ReadFails, Post, ActorExit,
      Client

\* An actor that is killed is a client that leaves, or nothing.
LEMMA KilledIsClient ==
  ASSUME NEW a \in Conns, SystemKill(a)
  PROVE  Auxiliary \/ UNCHANGED vars
<1>1. CASE UNCHANGED auxVars
  BY <1>1 DEF SystemKill, vars
<1>2. CASE Leave(a)
  BY <1>2 DEF SystemKill, Client, Auxiliary, AuxNext
<1> QED BY <1>1, <1>2 DEF SystemKill, ActorKilled

LEMMA SystemStepIsServerStep ==
  ASSUME TareValues = Int, SystemInv, [SystemNext]_systemVars
  PROVE  [Next]_vars
<1>1. CASE SystemMain
  BY <1>1 DEF SystemMain, Next
<1>2. CASE SystemSetup
  BY <1>2 DEF SystemSetup, Next, Auxiliary, AuxNext
<1>3. CASE SystemInterrupt
  BY <1>3 DEF SystemInterrupt, Next
<1>4. ASSUME NEW c \in Conns, SystemAccept(c) \/ SystemHandler(c)
      PROVE  [Next]_vars
  BY <1>4 DEF SystemAccept, SystemHandler, Next, Auxiliary, AuxNext
<1>5. ASSUME NEW c \in Conns, SystemActor(c) PROVE [Next]_vars
  BY <1>5, ActorIsClient DEF Next
<1>6. ASSUME NEW c \in Conns, SystemKill(c) PROVE [Next]_vars
  BY <1>6, KilledIsClient DEF Next
<1>7. CASE UNCHANGED systemVars
  BY <1>7 DEF systemVars
<1> QED BY <1>1, <1>2, <1>3, <1>4, <1>5, <1>6, <1>7 DEF SystemNext

-----------------------------------------------------------------------------
(* The actors' variables.                                                   *)

\* A datagram adds to averages and gives away the server's address.
LEMMA DeliverInv ==
  ASSUME ActorTypeOK, NEW value \in Int, Deliver(value)
  PROVE  /\ ActorTypeOK' /\ UNCHANGED <<dest, op, prior, out>>
         /\ \A a \in Conns : act'[a] = act[a] \/ act'[a] = "connect"
<1> USE MaxCountAssumption DEF ActorTypeOK
<1> PICK heard \in SUBSET Averaging, found \in SUBSET Seeking :
      /\ avg' = [a \in Conns |-> IF a \in heard THEN Averaged(avg[a], value)
                                                ELSE avg[a]]
      /\ act' = [a \in Conns |-> IF a \in found THEN "connect" ELSE act[a]]
      /\ UNCHANGED <<dest, op, prior, out>>
  BY DEF Deliver
<1>1. \A a \in Conns :
        Averaged(avg[a], value) \in [sum : Int, count : 0 .. MaxCount]
  <2> SUFFICES ASSUME NEW a \in Conns
               PROVE  Averaged(avg[a], value) \in [sum : Int, count : 0 .. MaxCount]
    OBVIOUS
  <2> DEFINE r == avg[a]
  <2>1. r \in [sum : Int, count : 0 .. MaxCount]
    OBVIOUS
  <2> HIDE DEF r
  <2>2. r.sum + value \in Int /\ (r.count # MaxCount => r.count + 1 \in 0 .. MaxCount)
    <3>1. r.sum \in Int /\ r.count \in 0 .. MaxCount
      BY <2>1
    <3> HIDE DEF ActorTypeOK
    <3> QED BY <3>1
  <2>3. Averaged(r, value) \in [sum : Int, count : 0 .. MaxCount]
    BY <2>1, <2>2 DEF Averaged
  <2> QED BY <2>3 DEF r
<1>2. avg' \in [Conns -> [sum : Int, count : 0 .. MaxCount]]
  BY <1>1
<1>3. act' \in [Conns -> ActorPcs]
  BY DEF ActorPcs
<1> QED BY <1>2, <1>3

\* An actor's own steps keep its types and its command.
LEMMA ActorStepInv ==
  ASSUME SystemInv, NEW a \in Conns, SystemActor(a)
  PROVE  ActorTypeOK' /\ ActorCommands'
<1> USE MaxCountAssumption
    DEF SystemInv, ActorTypeOK, ActorCommands, ActorPcs, ActorGoto
<1>0. asked \in [Conns -> Ops \cup {"unknown", "none"}]
  BY DEF TypeOK, AuxTypeOK
<1>1. CASE Start(a)
  BY <1>1 DEF Start, NoAverage, auxVars, tcpVars
<1>2. CASE ReadPrior(a)
  <2>1. Value(a) \in Int
    BY DEF Value
  <2>2. op[a] = "OP_TARE"
    BY <1>2 DEF ReadPrior
  <2> QED BY <1>2, <2>1, <2>2 DEF ReadPrior, auxVars, tcpVars
<1>3. CASE AddressUnset(a) \/ Post(a)
  BY <1>3 DEF AddressUnset, Post, auxVars, tcpVars
<1>4. CASE ConnectTo(a)
  BY <1>4 DEF ConnectTo, Connect
<1>5. CASE ConnectFails(a) \/ WriteUnheard(a) \/ ReadFails(a)
  BY <1>5 DEF ConnectFails, WriteUnheard, ReadFails, Fail, auxVars, tcpVars
<1>6. CASE WriteCommand(a)
  BY <1>0, <1>6 DEF WriteCommand, Send
<1>7. CASE ReadReply(a) \/ ReadEof(a)
  <2>1. (Succeed(a) \/ Fail(a)) /\ asked' = asked
    BY <1>7 DEF ReadReply, ReadEof, auxVars, tcpVars
  <2>2. NoAverage \in [sum : Int, count : 0 .. MaxCount]
    BY DEF NoAverage
  <2>3. CASE Succeed(a)
    <3>1. /\ act' = [act EXCEPT ![a] = IF op[a] = "OP_TARE" THEN "post"
                                                            ELSE "exit"]
          /\ out' = [out EXCEPT ![a] = "succeeded"]
          /\ avg' = [avg EXCEPT ![a] = NoAverage] \/ avg' = avg
          /\ UNCHANGED <<dest, op, prior>>
      BY <2>3 DEF Succeed
    <3> QED BY <2>1, <2>2, <3>1
  <2>4. CASE Fail(a)
    BY <2>1, <2>4 DEF Fail
  <2> QED BY <2>1, <2>3, <2>4
<1>8. CASE ActorExit(a)
  BY <1>8 DEF ActorExit, Leave, auxVars, tcpVars
<1> QED
  BY <1>1, <1>2, <1>3, <1>4, <1>5, <1>6, <1>7, <1>8
  DEF SystemActor, ActorMain

\* So does its end.
LEMMA KilledInv ==
  ASSUME SystemInv, NEW a \in Conns, SystemKill(a)
  PROVE  ActorTypeOK' /\ ActorCommands'
<1>1. /\ act' = [act EXCEPT ![a] = "done"]
      /\ UNCHANGED <<dest, op, avg, prior, out, asked>>
  BY DEF SystemKill, ActorKilled, Leave, auxVars, tcpVars
<1> QED
  BY <1>1 DEF SystemInv, ActorTypeOK, ActorCommands, ActorPcs

\* The server's own steps change neither, but for what datagrams bring.
LEMMA ServerStepInv ==
  ASSUME SystemInv, NEW c \in Conns,
         SystemSetup \/ SystemAccept(c) \/ SystemHandler(c) \/ SystemInterrupt
  PROVE  ActorTypeOK' /\ ActorCommands'
<1>1. UNCHANGED actorVars /\ UNCHANGED asked
  BY DEF SystemSetup, SystemAccept, SystemHandler, SystemInterrupt, Setup,
         Accept, Handler, HandlerRead, HandlerLoad, HandlerSwap, HandlerTare,
         HandlerAck, HandlerFinish, Interrupt, auxVars, tcpVars
<1> QED BY <1>1 DEF actorVars, SystemInv, ActorTypeOK, ActorCommands

LEMMA SystemMainInv ==
  ASSUME SystemInv, SystemMain
  PROVE  ActorTypeOK' /\ ActorCommands'
<1>1. asked' = asked
  BY DEF SystemMain, Main, auxVars, tcpVars
<1>2. CASE Sending
  <2>1. Deliver(o.value) /\ o.value \in Int
    BY <1>2 DEF SystemMain, SystemInv, TypeOK, SamplerTypeOK, Output
  <2> QED BY <1>1, <2>1, DeliverInv DEF SystemInv, ActorCommands
<1>3. CASE ~Sending
  BY <1>1, <1>3 DEF SystemMain, actorVars, SystemInv, ActorTypeOK, ActorCommands
<1> QED BY <1>2, <1>3

LEMMA SystemInvHolds == TareValues = Int => (SystemSpec => []SystemInv)
<1> SUFFICES ASSUME TareValues = Int PROVE SystemSpec => []SystemInv
  OBVIOUS
<1>1. SystemInit => SystemInv
  <2> SUFFICES ASSUME SystemInit PROVE SystemInv OBVIOUS
  <2>1. TypeOK
    BY InitType DEF SystemInit
  <2>2. ActorTypeOK
    BY MaxCountAssumption DEF SystemInit, ActorInit, ActorTypeOK, NoAverage, ActorPcs
  <2>3. ActorCommands
    BY DEF SystemInit, Init, AuxInit, ActorInit, ActorCommands
  <2> QED BY <2>1, <2>2, <2>3 DEF SystemInv
<1>2. SystemInv /\ [SystemNext]_systemVars => SystemInv'
  <2> SUFFICES ASSUME SystemInv, [SystemNext]_systemVars PROVE SystemInv'
    OBVIOUS
  <2>1. TypeOK'
    BY SystemStepIsServerStep, StepType DEF SystemInv
  <2>2. CASE SystemMain
    BY <2>1, <2>2, SystemMainInv DEF SystemInv
  <2>3. CASE SystemSetup \/ SystemInterrupt
    <3>1. UNCHANGED actorVars /\ UNCHANGED asked
      BY <2>3
      DEF SystemSetup, SystemInterrupt, Setup, Interrupt, auxVars, tcpVars
    <3> QED BY <2>1, <3>1 DEF actorVars, SystemInv, ActorTypeOK, ActorCommands
  <2>4. ASSUME NEW c \in Conns, SystemAccept(c) \/ SystemHandler(c)
        PROVE  SystemInv'
    BY <2>1, <2>4, ServerStepInv DEF SystemInv
  <2>5. ASSUME NEW c \in Conns, SystemActor(c) PROVE SystemInv'
    BY <2>1, <2>5, ActorStepInv DEF SystemInv
  <2>6. ASSUME NEW c \in Conns, SystemKill(c) PROVE SystemInv'
    BY <2>1, <2>6, KilledInv DEF SystemInv
  <2>7. CASE UNCHANGED systemVars
    BY <2>1, <2>7
    DEF systemVars, vars, auxVars, tcpVars, actorVars, SystemInv, ActorTypeOK,
        ActorCommands
  <2> QED BY <2>2, <2>3, <2>4, <2>5, <2>6, <2>7 DEF SystemNext
<1> QED BY <1>1, <1>2, PTL DEF SystemSpec

\* The stand implements the server's specification: every theorem about the
\* server alone, with arbitrary clients, holds of it among its actors.
THEOREM StandIsServer == TareValues = Int => (SystemSpec => ServerSpec)
<1> SUFFICES ASSUME TareValues = Int PROVE SystemSpec => ServerSpec
  OBVIOUS
<1>1. SystemInit => Init
  BY DEF SystemInit
<1>2. SystemInv /\ [SystemNext]_systemVars => [Next]_vars
  BY SystemStepIsServerStep
<1> QED BY <1>1, <1>2, SystemInvHolds, PTL DEF SystemSpec, Spec, ServerSpec

-----------------------------------------------------------------------------
(* What an actor tells its user.                                            *)

\* HandlersMatchCommands (LoadCellServProofs) holds of the stand as well.
LEMMA StandMatchesCommands ==
  TareValues = Int => (SystemSpec => []HandlersMatchCommands)
BY StandIsServer, MatchesCommands DEF ServerSpec

\* What has been carried out for a connection stays so.
LEMMA AppliedStays ==
  ASSUME SystemInv, HandlersMatchCommands, [SystemNext]_systemVars,
         NEW a \in Conns, applied[a] = op[a]
  PROVE  applied'[a] = op[a]
<1> USE DEF SystemInv, TypeOK, AuxTypeOK
<1>1. StageMatchesCommand(a)
  BY DEF HandlersMatchCommands
<1>2. ASSUME NEW c \in Conns, Handler(c) PROVE applied'[a] = op[a]
  <2>1. CASE HandlerSwap(c)
    <3>1. c = a => op[a] = "OP_RESET"
      BY <1>1, <2>1
      DEF HandlerSwap, HandlerAt, StageMatchesCommand, ActorCommands
    <3> QED BY <2>1, <3>1 DEF HandlerSwap
  <2>2. CASE HandlerTare(c)
    <3>1. c = a => op[a] = "OP_TARE"
      BY <1>1, <2>2
      DEF HandlerTare, HandlerAt, StageMatchesCommand, ActorCommands
    <3> QED BY <2>2, <3>1 DEF HandlerTare
  <2>3. CASE ~HandlerSwap(c) /\ ~HandlerTare(c)
    BY <1>2, <2>3
    DEF Handler, HandlerRead, HandlerLoad, HandlerAck, HandlerFinish
  <2> QED BY <2>1, <2>2, <2>3
<1>3. CASE UNCHANGED applied
  BY <1>3
<1>4. (\E c \in Conns : Handler(c)) \/ UNCHANGED applied
  <2>1. ASSUME NEW c \in Conns, SystemActor(c) \/ SystemKill(c)
        PROVE  UNCHANGED applied
    BY <2>1
    DEF SystemActor, SystemKill, ActorKilled, ActorMain, Start, ReadPrior, AddressUnset, ConnectTo,
        ConnectFails, WriteCommand, WriteUnheard, ReadReply, ReadEof, ReadFails,
        Post, ActorExit, Connect, Send, Leave, auxVars, handlerVars
  <2> QED
    BY <2>1
    DEF SystemNext, SystemMain, SystemSetup, SystemInterrupt, SystemAccept,
        SystemHandler, Main, Setup, Interrupt, Accept, systemVars, vars,
        auxVars, handlerVars
<1> QED BY <1>2, <1>3, <1>4

\* An actor comes to say "succeeded" only with its command carried out, or
\* with a ping.
LEMMA SuccessStep ==
  ASSUME SystemInv, HandlersMatchCommands, SystemNext, NEW a \in Conns,
         out[a] # "succeeded", out'[a] = "succeeded"
  PROVE  op[a] = "OP_ACK" \/ applied[a] = op[a]
<1> USE DEF SystemInv, ActorTypeOK
<1>1. ASSUME NEW c \in Conns, SystemActor(c)
      PROVE  op[a] = "OP_ACK" \/ applied[a] = op[a]
  <2>1. c = a /\ (ReadReply(a) \/ ReadEof(a))
    BY <1>1
    DEF SystemActor, ActorMain, Start, ReadPrior, AddressUnset, ConnectTo,
        ConnectFails, WriteCommand, WriteUnheard, ReadReply, ReadEof, ReadFails,
        Post, ActorExit, Fail, Succeed
  <2>2. CASE ReadReply(a)
    <3>1. asked[a] \in {"OP_ACK", applied[a]} \ {"none"}
      BY <2>2 DEF ReadReply, HandlersMatchCommands, StageMatchesCommand
    <3> QED BY <3>1 DEF ActorCommands
  <2>3. CASE ReadEof(a)
    BY <2>3 DEF ReadEof, Fail
  <2> QED BY <2>1, <2>2, <2>3
<1>2. CASE SystemMain
  <2>1. UNCHANGED out
    BY <1>2 DEF SystemMain, Deliver, actorVars
  <2> QED BY <2>1
<1> QED
  BY <1>1, <1>2
  DEF SystemNext, SystemSetup, SystemInterrupt, SystemAccept, SystemHandler,
      SystemKill, ActorKilled, actorVars

\* "reset succeeded" and "tare succeeded" are never lies, for any number of
\* actors and whatever fails or dies on the way.
THEOREM SuccessIsNoLie == TareValues = Int => (SystemSpec => []SuccessIsReal)
<1> SUFFICES ASSUME TareValues = Int PROVE SystemSpec => []SuccessIsReal
  OBVIOUS
<1>1. SystemInit => SuccessIsReal
  BY DEF SystemInit, ActorInit, SuccessIsReal
<1>2. SystemInv /\ HandlersMatchCommands /\ SuccessIsReal
        /\ [SystemNext]_systemVars => SuccessIsReal'
  <2> SUFFICES ASSUME SystemInv, HandlersMatchCommands, SuccessIsReal,
                      [SystemNext]_systemVars, NEW a \in Conns,
                      out'[a] = "succeeded", op'[a] \in {"OP_RESET", "OP_TARE"}
               PROVE  applied'[a] = op'[a]
    BY DEF SuccessIsReal
  <2>1. op' = op
    BY DEF SystemNext, SystemMain, Deliver, SystemSetup, SystemInterrupt,
           SystemAccept, SystemHandler, SystemKill, ActorKilled, SystemActor,
           ActorMain, Start,
           ReadPrior, AddressUnset, ConnectTo, ConnectFails, WriteCommand,
           WriteUnheard, ReadReply, ReadEof, ReadFails, Post, ActorExit, Fail,
           Succeed, systemVars, actorVars
  <2>2. applied[a] = op[a]
    <3>1. CASE out[a] = "succeeded"
      BY <2>1, <3>1 DEF SuccessIsReal
    <3>2. CASE out[a] # "succeeded"
      <4>1. SystemNext
        BY <3>2 DEF systemVars, actorVars
      <4> QED BY <2>1, <3>2, <4>1, SuccessStep
    <3> QED BY <3>1, <3>2
  <2> QED BY <2>1, <2>2, AppliedStays
<1> QED
  BY <1>1, <1>2, SystemInvHolds, StandMatchesCommands, PTL DEF SystemSpec

-----------------------------------------------------------------------------
(* Types.                                                                   *)

\* The variables of the server and of its actors keep their types, for any
\* number of actors that may be killed or refused.
THEOREM SystemTypeCorrect == TareValues = Int => (SystemSpec => []SystemTypeOK)
<1>1. SystemInv => SystemTypeOK
  BY DEF SystemInv, SystemTypeOK
<1> QED BY <1>1, SystemInvHolds, PTL

-----------------------------------------------------------------------------
(* Repeated tares.                                                          *)

\* The average of a steady value is that value.
LEMMA AverageOfSteady ==
  ASSUME NEW v \in Int, NEW n \in Nat, n # 0
  PROVE  (n * v) \div n = v
OBVIOUS

\* Under a steady load that reads as v, every value on its way to a tare is
\* v, or 0 where nothing was measured: main()'s sample, the actors' averages,
\* what they send and what the handlers hold.
Steady(v) ==
  /\ tare \in {0, v}
  /\ mpc = "publish" => o.value = v
  /\ \A c \in Conns : /\ req[c].value \in {0, v}
                      /\ hmsg[c].value \in {0, v}
                      /\ prior[c] \in {0, v}
                      /\ avg[c].sum = avg[c].count * v

SteadyInv == \A raw \in Readings : Readings = {raw} => Steady(Calibrated(raw))

\* Taking in one more steady value keeps an average's sum in step.
LEMMA AveragedSteady ==
  ASSUME NEW v \in Int, NEW r \in [sum : Int, count : Nat], r.sum = r.count * v
  PROVE  Averaged(r, v).sum = Averaged(r, v).count * v
<1>1. r.count * v + v = (r.count + 1) * v
  OBVIOUS
<1> QED BY <1>1 DEF Averaged

\* A datagram brings the steady value.
LEMMA SteadyDeliver ==
  ASSUME ActorTypeOK, NEW v \in Int, Steady(v), Deliver(v)
  PROVE  \A c \in Conns : prior'[c] \in {0, v} /\ avg'[c].sum = avg'[c].count * v
<1>1. ASSUME NEW c \in Conns
      PROVE  Averaged(avg[c], v).sum = Averaged(avg[c], v).count * v
  <2>1. avg[c] \in [sum : Int, count : Nat]
    BY MaxCountAssumption DEF ActorTypeOK
  <2> QED BY <2>1, AveragedSteady DEF Steady
<1> QED BY <1>1 DEF Deliver, Steady, ActorTypeOK

\* main() takes samples of the load, and hands them to the network.
LEMMA SteadyMain ==
  ASSUME SystemInv, NEW raw \in Readings, Readings = {raw},
         Steady(Calibrated(raw)), SystemMain
  PROVE  Steady(Calibrated(raw))'
<1> DEFINE v == Calibrated(raw)
<1>0. v \in Int /\ v' = v
  BY CalibratedType DEF Calibrated
<1>1. UNCHANGED <<req, hmsg>>
  BY DEF SystemMain, Main, auxVars, tcpVars, handlerVars
<1>2. tare' = tare
  BY DEF SystemMain, Main, SamplerNext, Launch, FirstReset, LoopTest, Sample,
         Publish, WriteThrough, Poll, LoadReset, SwapReset, ResetAdc, Exit,
         sharedVars
<1>3. mpc' = "publish" => o'.value = v
  <2>1. CASE Sample
    BY <2>1 DEF Sample
  <2>2. CASE ~Sample
    BY <2>2
    DEF SystemMain, Main, SamplerNext, Launch, FirstReset, LoopTest, Publish,
        WriteThrough, Poll, LoadReset, SwapReset, ResetAdc, Exit, Goto
  <2> QED BY <2>1, <2>2
<1> HIDE DEF v
<1>4. \A c \in Conns : prior'[c] \in {0, v} /\ avg'[c].sum = avg'[c].count * v
  <2>1. CASE Sending
    <3>1. Deliver(v)
      BY <2>1 DEF SystemMain, Sending, Steady, v
    <3> QED BY <1>0, <3>1, SteadyDeliver DEF SystemInv, v
  <2>2. CASE ~Sending
    BY <2>2 DEF SystemMain, actorVars, Steady, v
  <2> QED BY <2>1, <2>2
<1>5. Steady(v)'
  BY <1>0, <1>1, <1>2, <1>3, <1>4 DEF Steady, v
<1> QED BY <1>5 DEF v

\* The handlers pass on what they were sent.
LEMMA SteadyHandler ==
  ASSUME SystemInv, NEW v \in Int, Steady(v), NEW c \in Conns, SystemHandler(c)
  PROVE  /\ tare' \in {0, v}
         /\ \A d \in Conns : req'[d].value \in {0, v} /\ hmsg'[d].value \in {0, v}
<1> USE DEF SystemInv, TypeOK, AuxTypeOK, Steady
<1>1. CASE HandlerRead(c)
  BY <1>1 DEF HandlerRead, Silence, sharedVars
<1>2. CASE HandlerTare(c)
  BY <1>2 DEF HandlerTare, tcpVars
<1>3. CASE HandlerAck(c)
  <2>1. hmsg[c] \in Command \cup {Silence}
    OBVIOUS
  <2>2. [hmsg[c] EXCEPT !.type = "OP_ACK"].value = hmsg[c].value
    BY <2>1 DEF Command, Silence
  <2>3. hmsg' = [hmsg EXCEPT ![c] = [hmsg[c] EXCEPT !.type = "OP_ACK"]]
    BY <1>3 DEF HandlerAck
  <2> QED BY <1>3, <2>2, <2>3 DEF HandlerAck, sharedVars
<1>4. CASE HandlerLoad(c) \/ HandlerSwap(c) \/ HandlerFinish(c)
  BY <1>4 DEF HandlerLoad, HandlerSwap, HandlerFinish, sharedVars, tcpVars
<1> QED BY <1>1, <1>2, <1>3, <1>4 DEF SystemHandler, Handler

\* An actor sends what it averaged.
LEMMA SteadyActor ==
  ASSUME SystemInv, NEW v \in Int, Steady(v), NEW a \in Conns,
         SystemActor(a) \/ SystemKill(a)
  PROVE  Steady(v)'
<1> USE DEF SystemInv, TypeOK, AuxTypeOK, ActorTypeOK
<1>1. UNCHANGED <<tare, mpc, o, hmsg>>
  BY DEF SystemActor, SystemKill, sharedVars, samplerVars, ActorMain,
         ActorKilled, Start, ReadPrior, AddressUnset, ConnectTo, ConnectFails,
         WriteCommand, WriteUnheard, ReadReply, ReadEof, ReadFails, Post,
         ActorExit, Connect, Send, Leave, auxVars, handlerVars
<1>2. 0 = 0 * v
  OBVIOUS
<1>3. CASE ReadPrior(a)
  <2>1. Value(a) \in {0, v}
    <3>1. avg[a].sum = avg[a].count * v /\ avg[a].count \in Nat
      BY MaxCountAssumption DEF Steady
    <3>2. CASE avg[a].count = 0
      BY <3>2 DEF Value
    <3>3. CASE avg[a].count # 0
      BY <3>1, <3>3, AverageOfSteady DEF Value
    <3> QED BY <3>2, <3>3
  <2>2. /\ prior' = [prior EXCEPT ![a] = Value(a)]
        /\ UNCHANGED <<avg, req>>
    BY <1>3 DEF ReadPrior, auxVars, tcpVars
  <2> QED BY <1>1, <2>1, <2>2 DEF Steady
<1>4. CASE WriteCommand(a)
  <2>1. /\ req' = [req EXCEPT ![a] = [type |-> op[a], value |-> prior[a]]]
        /\ UNCHANGED <<avg, prior>>
    BY <1>4 DEF WriteCommand, Send
  <2> QED BY <1>1, <2>1 DEF Steady
<1>5. CASE /\ UNCHANGED <<req, prior>>
           /\ avg' = avg \/ avg' = [avg EXCEPT ![a] = NoAverage]
  <2>1. \A c \in Conns : avg'[c].sum = avg'[c].count * v
    <3> TAKE c \in Conns
    <3>1. avg'[c] = avg[c] \/ avg'[c] = [sum |-> 0, count |-> 0]
      BY <1>5 DEF NoAverage
    <3>2. CASE avg'[c] = avg[c]
      BY <3>2 DEF Steady
    <3>3. CASE avg'[c] = [sum |-> 0, count |-> 0]
      BY <1>2, <3>3
    <3> QED BY <3>1, <3>2, <3>3
  <2> QED BY <1>1, <1>5, <2>1 DEF Steady
<1> QED
  BY <1>3, <1>4, <1>5
  DEF SystemActor, SystemKill, ActorMain, ActorKilled, Start, AddressUnset,
      ConnectTo, ConnectFails, WriteUnheard, ReadReply, ReadEof, ReadFails, Post,
      ActorExit, Connect, Leave, Fail, Succeed, auxVars, tcpVars

\* Nobody else touches a value.
LEMMA SteadyStep ==
  ASSUME SystemInv, NEW raw \in Readings, Readings = {raw},
         Steady(Calibrated(raw)), [SystemNext]_systemVars
  PROVE  Steady(Calibrated(raw))'
<1> DEFINE v == Calibrated(raw)
<1>0. v \in Int /\ v' = v
  BY CalibratedType DEF Calibrated
<1> HIDE DEF v
<1>1. CASE SystemMain
  BY <1>1, SteadyMain DEF v
<1>2. CASE SystemSetup \/ SystemInterrupt \/ UNCHANGED systemVars
  <2>1. UNCHANGED <<tare, mpc, o, req, hmsg, prior, avg>>
    BY <1>2
    DEF SystemSetup, SystemInterrupt, Setup, Interrupt, Sigint, systemVars,
        vars, sharedVars, samplerVars, auxVars, tcpVars, handlerVars, actorVars
  <2>2. Steady(v)'
    BY <1>0, <2>1 DEF Steady, v
  <2> QED BY <2>2 DEF v
<1>3. ASSUME NEW c \in Conns, SystemAccept(c)
      PROVE  Steady(Calibrated(raw))'
  <2>1. UNCHANGED <<tare, mpc, o, req, hmsg, prior, avg>>
    BY <1>3 DEF SystemAccept, Accept, sharedVars, samplerVars, actorVars
  <2>2. Steady(v)'
    BY <1>0, <2>1 DEF Steady, v
  <2> QED BY <2>2 DEF v
<1>4. ASSUME NEW c \in Conns, SystemHandler(c)
      PROVE  Steady(Calibrated(raw))'
  <2>1. UNCHANGED <<mpc, o, prior, avg>>
    BY <1>4 DEF SystemHandler, samplerVars, actorVars
  <2>2. Steady(v)'
    BY <1>0, <1>4, <2>1, SteadyHandler DEF Steady, v
  <2> QED BY <2>2 DEF v
<1>5. ASSUME NEW a \in Conns, SystemActor(a) \/ SystemKill(a)
      PROVE  Steady(Calibrated(raw))'
  BY <1>0, <1>5, SteadyActor DEF v
<1> QED BY <1>1, <1>2, <1>3, <1>4, <1>5 DEF SystemNext

\* Tares do not add up: under a steady load every tare sent or in force is
\* that load or 0, for any number of actors repeating theirs at any time.
THEOREM TaresDoNotAddUp == TareValues = Int => (SystemSpec => []TareIsLoad)
<1> SUFFICES ASSUME TareValues = Int PROVE SystemSpec => []TareIsLoad
  OBVIOUS
<1>1. SystemInit => SteadyInv
  <2> SUFFICES ASSUME SystemInit, NEW raw \in Readings
               PROVE  Steady(Calibrated(raw))
    BY DEF SteadyInv
  <2>1. Calibrated(raw) \in Int
    BY CalibratedType
  <2>2. 0 = 0 * Calibrated(raw)
    BY <2>1
  <2> QED
    BY <2>2
    DEF SystemInit, Init, SharedInit, SamplerInit, AuxInit, ActorInit, Silence,
        NoAverage, Steady
<1>2. SystemInv /\ SteadyInv /\ [SystemNext]_systemVars => SteadyInv'
  <2> SUFFICES ASSUME SystemInv, SteadyInv, [SystemNext]_systemVars,
                      NEW raw \in Readings, Readings = {raw}
               PROVE  Steady(Calibrated(raw))'
    BY DEF SteadyInv
  <2> QED BY SteadyStep DEF SteadyInv
<1>3. SteadyInv => TareIsLoad
  BY DEF SteadyInv, Steady, TareIsLoad
<1> QED BY <1>1, <1>2, <1>3, SystemInvHolds, PTL DEF SystemSpec
=============================================================================
