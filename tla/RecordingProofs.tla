--------------------------- MODULE RecordingProofs ---------------------------
(***************************************************************************)
(* Proofs about the receivers and the logger, for any number of receivers, *)
(* any queue, batch, buffer and number of sessions, and about what the     *)
(* rewriter makes of the log that they leave.                              *)
(***************************************************************************)
EXTENDS Recording, SequenceTheorems, FiniteSetTheorems, WellFoundedInduction, TLAPS

-----------------------------------------------------------------------------
(* Induction over the natural numbers: a set takes the place of the         *)
(* predicate, and the least number that is not in it is the counterexample  *)
(* that the step refutes.                                                   *)

\* A set of natural numbers that is not empty has a least element.
LEMMA LeastNumber ==
  ASSUME NEW T, T \subseteq Nat, T # {}
  PROVE  \E m \in T : \A k \in T : m <= k
<1> DEFINE R == OpToRel(<, Nat)
<1>1. IsWellFoundedOn(R, Nat)
  BY NatLessThanWellFounded, Zenon
<1>2. PICK m \in T : \A k \in T : <<k, m>> \notin R
  <2> HIDE DEF R
  <2> QED BY <1>1, WFMin
<1>3. \A k \in T : ~ (k < m)
  BY <1>2 DEF OpToRel
<1>4. m \in Nat /\ \A k \in T : k \in Nat
  OBVIOUS
<1>5. \A k \in T : m <= k
  BY <1>3, <1>4
<1> QED
  BY <1>5

\* What holds for 0, and for k + 1 if it does for k, holds up to n.
LEMMA UpTo ==
  ASSUME NEW n \in Nat, NEW S,
         0 \in S, \A k \in 0 .. n - 1 : k \in S => k + 1 \in S
  PROVE  \A k \in 0 .. n : k \in S
<1> DEFINE T == (0 .. n) \ S
<1> SUFFICES ASSUME T # {} PROVE FALSE
  OBVIOUS
<1>1. PICK m \in T : \A k \in T : m <= k
  <2>1. T \subseteq Nat
    OBVIOUS
  <2> HIDE DEF T
  <2> QED
    BY <2>1, LeastNumber
<1>2. m \in 1 .. n
  OBVIOUS
<1>3. m - 1 \notin T
  BY <1>1, <1>2
<1>4. m - 1 \in S /\ m - 1 \in 0 .. n - 1
  BY <1>2, <1>3
<1> QED
  BY <1>2, <1>4

\* What holds for 0, and for k + 1 if it does for k, holds for every number.
LEMMA ForAllNumbers ==
  ASSUME NEW S, 0 \in S, \A k \in Nat : k \in S => k + 1 \in S
  PROVE  \A n \in Nat : n \in S
<1> TAKE n \in Nat
<1>1. \A k \in 0 .. n - 1 : k \in S => k + 1 \in S
  OBVIOUS
<1>2. \A k \in 0 .. n : k \in S
  BY <1>1, UpTo
<1> QED
  BY <1>2

-----------------------------------------------------------------------------
(* The recording.                                                           *)

\* The cells that the session still has to put into the log.
Unflushed == IF written THEN <<>> ELSE buf

\* Log, buffer and what is still to be put together are what is owed; a
\* buffer is only flushed while there is something to put, and a line is put
\* to its end.
Owes ==
  /\ part \o Unflushed \o todo = owed
  /\ todo # <<>> => todo[Len(todo)].half = 2
  /\ written => todo # <<>>
  /\ lpc # "cli" => part = <<>> /\ buf = <<>> /\ todo = <<>> /\ owed = <<>> /\ ~written

\* What LogIsPrefix and InterruptSavesAll say of a session that has ended.
Settled(e) ==
  /\ e.how # "doubled" => Begins(e.part, e.owed)
  /\ e.how = "saved" => e.part = e.owed

LoggerInv == LoggerTypeOK /\ Owes /\ \A s \in DOMAIN ended : Settled(ended[s])

-----------------------------------------------------------------------------
\* What a session that has ended leaves in `ended`.
Ending == [part : Seq(Cell), owed : Seq(Cell),
           how : {"failed", "saved", "cut", "doubled", "killed"}]

\* A buffer may be empty, and so may all the other sequences.
LEMMA EmptyFits ==
  /\ <<>> \in Seq(Cell) /\ <<>> \in Seq(Ending)
  /\ Len(<<>>) \in 0 .. BufLen
<1>1. BufLen \in Nat
  BY LoggerAssumption
<1>2. Len(<<>>) = 0
  OBVIOUS
<1> QED
  BY <1>1, <1>2

\* A sequence begins whatever is appended to it.
LEMMA AppendedBegins ==
  ASSUME NEW S, NEW s \in Seq(S), NEW t \in Seq(S)
  PROVE  Begins(s, s \o t)
<1>1. Len(s) \in 0 .. Len(s \o t)
  OBVIOUS
<1>2. s = SubSeq(s \o t, 1, Len(s))
  OBVIOUS
<1> QED
  BY <1>1, <1>2 DEF Begins

\* Cells may move from one sequence to the one before.
LEMMA MovedCells ==
  \A p, b, f, r \in Seq(Cell) : p \o (b \o f) \o r = p \o b \o (f \o r)
<1> TAKE p, b, f, r \in Seq(Cell)
<1> DEFINE pb == p \o b
<1>1. \A s, t, u \in Seq(Cell) : (s \o t) \o u = s \o (t \o u)
  <2> TAKE s, t, u \in Seq(Cell)
  <2>1. (s \o t) \o u \in Seq(Cell) /\ s \o (t \o u) \in Seq(Cell)
    OBVIOUS
  <2>2. Len((s \o t) \o u) = Len(s \o (t \o u))
    OBVIOUS
  <2>3. \A i \in 1 .. Len((s \o t) \o u) : ((s \o t) \o u)[i] = (s \o (t \o u))[i]
    OBVIOUS
  <2> QED
    BY <2>1, <2>2, <2>3, SeqEqual, Zenon
<1>2. p \o (b \o f) = pb \o f
  BY <1>1
<1>3. pb \in Seq(Cell)
  BY ConcatProperties
<1> HIDE DEF pb
<1>4. (pb \o f) \o r = pb \o (f \o r)
  BY <1>1, <1>3, Zenon
<1> QED
  BY <1>2, <1>4 DEF pb

\* The cells of a batch are cells, and the last one ends a line.
LEMMA LinesType ==
  ASSUME NEW number \in Nat \ {0}
  PROVE  /\ Lines(number) \in Seq(Cell)
         /\ Lines(number) # <<>> => Lines(number)[Len(Lines(number))].half = 2
<1>1. Limit \in Nat
  BY LoggerAssumption
<1>2. ASSUME NEW i \in 1 .. 2 * Limit
      PROVE  /\ (number - 1) * Limit + (i + 1) \div 2 \in Nat
             /\ 2 - (i % 2) \in {1, 2}
  <2>1. (number - 1) * Limit \in Nat
    BY <1>1
  <2>2. (i + 1) \div 2 \in Nat /\ i % 2 \in {0, 1}
    BY <1>1
  <2> QED
    BY <2>1, <2>2
<1>3. Lines(number) \in Seq(Cell) /\ Len(Lines(number)) = 2 * Limit
  BY <1>1, <1>2 DEF Lines, Cell
<1>4. (2 * Limit) % 2 = 0
  BY <1>1
<1>5. ASSUME Limit # 0
      PROVE  Lines(number)[2 * Limit].half = 2
  BY <1>1, <1>4, <1>5 DEF Lines
<1> QED
  BY <1>1, <1>3, <1>5

\* An fwrite() takes at least one cell, no more than there is room for, and
\* no more than there are.
LEMMA FittingRange ==
  ASSUME LoggerTypeOK, Owes, todo # <<>>, Len(buf) < BufLen
  PROVE  Fitting \in 1 .. Len(todo) /\ Fitting <= BufLen - Len(buf)
<1>1. BufLen \in Nat /\ Len(buf) \in Nat /\ Len(todo) \in Nat \ {0}
  BY LoggerAssumption DEF LoggerTypeOK
<1>2. Head(todo) = todo[1]
  BY DEF LoggerTypeOK
<1>3. Head(todo).half = 1 => Len(todo) > 1
  BY <1>1, <1>2 DEF Owes
<1> QED
  BY <1>1, <1>3 DEF Fitting

-----------------------------------------------------------------------------
LEMMA LoggerInitInv == LoggerInit => LoggerInv
<1> SUFFICES ASSUME LoggerInit
             PROVE  LoggerInv
  OBVIOUS
<1> USE DEF LoggerInit
<1>1. LoggerTypeOK
  BY EmptyFits DEF LoggerTypeOK, Ending
<1>2. Owes
  BY DEF Owes, Unflushed
<1> QED
  BY <1>1, <1>2 DEF LoggerInv

\* A session that ends settled leaves the invariant.
LEMMA EndInv ==
  ASSUME LoggerInv, NEW p \in Seq(Cell),
         NEW how \in {"failed", "saved", "cut", "doubled", "killed"},
         Settled([part |-> p, owed |-> owed, how |-> how]),
         EndLogger(p, how)
  PROVE  LoggerInv'
<1> DEFINE e == [part |-> p, owed |-> owed, how |-> how]
<1>1. e \in Ending /\ ended \in Seq(Ending)
  BY DEF LoggerInv, LoggerTypeOK, Ending
<1>2. ended' = Append(ended, e)
  BY DEF EndLogger
<1>3. ended' \in Seq(Ending)
  BY <1>1, <1>2
<1>4. LoggerTypeOK'
  BY <1>3, EmptyFits DEF EndLogger, LoggerTypeOK, Ending
<1>5. Owes'
  BY DEF EndLogger, Owes, Unflushed
<1>6. ASSUME NEW s \in DOMAIN ended'
      PROVE  Settled(ended'[s])
  <2>1. CASE s \in DOMAIN ended
    BY <1>1, <1>2, <2>1 DEF LoggerInv
  <2>2. CASE s = Len(ended) + 1
    BY <1>1, <1>2, <2>2
  <2> QED
    BY <1>1, <1>2, <2>1, <2>2
<1> QED
  BY <1>4, <1>5, <1>6 DEF LoggerInv, Settled, Begins

LEMMA StartLoggerInv == LoggerInv /\ StartLogger => LoggerInv'
BY DEF LoggerInv, StartLogger, LoggerTypeOK, Owes, Unflushed, Settled, Begins

LEMMA OpenLogInv == LoggerInv /\ OpenLog => LoggerInv'
<1> SUFFICES ASSUME LoggerInv, OpenLog
             PROVE  LoggerInv'
  OBVIOUS
<1>1. CASE lpc' = "open" /\ UNCHANGED <<part, buf, todo, written, owed, ended>>
  BY <1>1 DEF LoggerInv, OpenLog, LoggerTypeOK, Owes, Unflushed, Settled, Begins
<1>2. CASE EndLogger(part, "failed")
  <2>1. part = <<>> /\ owed = <<>>
    BY DEF LoggerInv, Owes, OpenLog
  <2>2. Settled([part |-> part, owed |-> owed, how |-> "failed"])
    BY <2>1 DEF Settled, Begins
  <2> QED
    BY <1>2, <2>2, EndInv DEF LoggerInv, LoggerTypeOK
<1> QED
  BY <1>1, <1>2 DEF OpenLog

LEMMA WriteHeaderInv == LoggerInv /\ WriteHeader => LoggerInv'
<1> SUFFICES ASSUME LoggerInv, WriteHeader
             PROVE  LoggerInv'
  OBVIOUS
<1>1. Header \in Cell
  BY DEF Header, Cell
<1>2. part = <<>> /\ todo = <<>> /\ ~written
  BY DEF LoggerInv, Owes, WriteHeader
<1>3. LoggerTypeOK'
  BY <1>1, LoggerAssumption DEF WriteHeader, LoggerInv, LoggerTypeOK
<1>4. Owes'
  BY <1>1, <1>2 DEF WriteHeader, Owes, Unflushed
<1> QED
  BY <1>3, <1>4 DEF WriteHeader, LoggerInv, Settled, Begins

LEMMA CallbackInv ==
  ASSUME LoggerInv, NEW number \in Nat \ {0}, write_callback_batch(number)
  PROVE  LoggerInv'
<1>1. /\ Lines(number) \in Seq(Cell)
      /\ Lines(number) # <<>> => Lines(number)[Len(Lines(number))].half = 2
  BY LinesType
<1>2. LoggerTypeOK'
  BY <1>1 DEF write_callback_batch, LoggerInv, LoggerTypeOK
<1>3. Owes'
  <2>1. part \in Seq(Cell) /\ Unflushed \in Seq(Cell) /\ todo = <<>> /\ ~written
    BY DEF LoggerInv, LoggerTypeOK, Owes, Unflushed, write_callback_batch
  <2>2. owed = part \o Unflushed
    BY <2>1 DEF LoggerInv, Owes
  <2> QED
    BY <1>1, <2>1, <2>2 DEF Owes, Unflushed, write_callback_batch
<1> QED
  BY <1>2, <1>3 DEF write_callback_batch, LoggerInv, Settled, Begins

LEMMA FwriteInv == LoggerInv /\ Fwrite => LoggerInv'
<1> SUFFICES ASSUME LoggerInv, Fwrite
             PROVE  LoggerInv'
  OBVIOUS
<1> DEFINE first == SubSeq(todo, 1, Fitting)
           rest == SubSeq(todo, Fitting + 1, Len(todo))
<1>1. Fitting \in 1 .. Len(todo) /\ Fitting <= BufLen - Len(buf)
  BY FittingRange DEF LoggerInv, Fwrite
<1>2. /\ todo \in Seq(Cell) /\ part \in Seq(Cell) /\ buf \in Seq(Cell)
      /\ Len(buf) \in 0 .. BufLen /\ BufLen \in Nat
  BY LoggerAssumption DEF LoggerInv, LoggerTypeOK
<1>3. /\ first \in Seq(Cell) /\ rest \in Seq(Cell)
      /\ Len(first) = Fitting /\ Len(rest) = Len(todo) - Fitting
      /\ \A i \in 1 .. Len(rest) : rest[i] = todo[Fitting + i]
  BY <1>1, <1>2
<1>4. first \o rest = todo
  BY <1>1, <1>2, <1>3
<1>5. buf' = buf \o first /\ todo' = rest
  BY DEF Fwrite
<1> HIDE DEF first, rest
<1>6. LoggerTypeOK'
  <2>1. Len(buf') \in 0 .. BufLen
    BY <1>1, <1>2, <1>3, <1>5
  <2>2. buf' \in Seq(Cell) /\ todo' \in Seq(Cell)
    BY <1>2, <1>3, <1>5
  <2> QED
    BY <2>1, <2>2 DEF Fwrite, LoggerInv, LoggerTypeOK
<1>7. Owes'
  <2>1. ~written /\ ~written' /\ part' = part /\ owed' = owed /\ lpc' = lpc
    BY DEF Fwrite
  <2>2. part \o buf \o todo = owed
    BY <2>1 DEF LoggerInv, Owes, Unflushed
  <2>3. part \o (buf \o first) \o rest = part \o buf \o (first \o rest)
    <3>1. part \in Seq(Cell) /\ buf \in Seq(Cell) /\ first \in Seq(Cell) /\ rest \in Seq(Cell)
      BY <1>2, <1>3
    <3>2. \A f, r \in Seq(Cell) : part \o (buf \o f) \o r = part \o buf \o (f \o r)
      BY <3>1, MovedCells
    <3> QED
      BY <3>1, <3>2
  <2>4. ASSUME rest # <<>>
        PROVE  rest[Len(rest)].half = 2
    <3>1. Len(rest) \in 1 .. Len(rest) /\ Fitting + Len(rest) = Len(todo) /\ todo # <<>>
      BY <1>1, <1>2, <1>3, <2>4
    <3>2. todo[Len(todo)].half = 2
      BY <3>1 DEF LoggerInv, Owes
    <3> QED
      BY <1>3, <3>1, <3>2
  <2>5. lpc = "cli"
    BY DEF Fwrite, LoggerInv, Owes
  <2> QED
    BY <1>4, <1>5, <2>1, <2>2, <2>3, <2>4, <2>5 DEF Owes, Unflushed
<1> QED
  BY <1>6, <1>7 DEF Fwrite, LoggerInv, Settled, Begins

LEMMA FlushBufferInv == LoggerInv /\ FlushBuffer => LoggerInv'
<1> SUFFICES ASSUME LoggerInv, FlushBuffer
             PROVE  LoggerInv'
  OBVIOUS
<1>1. LoggerTypeOK'
  BY DEF FlushBuffer, LoggerInv, LoggerTypeOK
<1>2. Owes'
  <2>1. part \in Seq(Cell) /\ buf \in Seq(Cell) /\ todo \in Seq(Cell)
    BY DEF LoggerInv, LoggerTypeOK
  <2>2. part \o buf \o todo = part \o buf \o <<>> \o todo
    BY <2>1
  <2> QED
    BY <2>2 DEF FlushBuffer, LoggerInv, Owes, Unflushed
<1> QED
  BY <1>1, <1>2 DEF FlushBuffer, LoggerInv, Settled, Begins

LEMMA EmptyBufferInv == LoggerInv /\ EmptyBuffer => LoggerInv'
<1> SUFFICES ASSUME LoggerInv, EmptyBuffer
             PROVE  LoggerInv'
  OBVIOUS
<1>1. LoggerTypeOK'
  BY EmptyFits DEF EmptyBuffer, LoggerInv, LoggerTypeOK
<1>2. Owes'
  BY DEF EmptyBuffer, LoggerInv, Owes, Unflushed
<1> QED
  BY <1>1, <1>2 DEF EmptyBuffer, LoggerInv, Settled, Begins

\* What a session may leave behind when it ends.
LEMMA Leavings ==
  ASSUME LoggerInv
  PROVE  /\ part \in Seq(Cell) /\ part \o buf \in Seq(Cell)
         /\ Begins(part, owed)
         /\ ~written => Begins(part \o buf, owed)
         /\ todo = <<>> => part \o buf = owed
<1>1. /\ part \in Seq(Cell) /\ buf \in Seq(Cell) /\ todo \in Seq(Cell)
      /\ Unflushed \in Seq(Cell)
  BY DEF LoggerInv, LoggerTypeOK, Unflushed
<1>2. owed = part \o (Unflushed \o todo) /\ owed = (part \o Unflushed) \o todo
  <2>1. (part \o Unflushed) \o todo = part \o (Unflushed \o todo)
    BY <1>1, ConcatAssociative
  <2>2. owed = (part \o Unflushed) \o todo
    BY DEF LoggerInv, Owes
  <2> QED
    BY <2>1, <2>2
<1>3. Begins(part, owed)
  <2>1. Unflushed \o todo \in Seq(Cell)
    BY <1>1
  <2> QED
    BY <1>1, <1>2, <2>1, AppendedBegins
<1>4. Begins(part \o Unflushed, owed)
  <2>1. part \o Unflushed \in Seq(Cell)
    BY <1>1
  <2> QED
    BY <1>1, <1>2, <2>1, AppendedBegins
<1>5. ASSUME todo = <<>>
      PROVE  part \o buf = owed
  BY <1>1, <1>2, <1>5 DEF Unflushed, LoggerInv, Owes
<1> QED
  BY <1>1, <1>3, <1>4, <1>5 DEF Unflushed

LEMMA LoggerReturnsInv == LoggerInv /\ LoggerReturns => LoggerInv'
<1> SUFFICES ASSUME LoggerInv, LoggerReturns
             PROVE  LoggerInv'
  OBVIOUS
<1>1. part \o buf \in Seq(Cell) /\ Begins(part \o buf, owed)
  BY Leavings DEF LoggerReturns, LoggerInv, Owes
<1>2. Settled([part |-> part \o buf, owed |-> owed, how |-> "failed"])
  BY <1>1 DEF Settled
<1> QED
  BY <1>1, <1>2, EndInv DEF LoggerReturns

LEMMA handlerInv == LoggerInv /\ handler => LoggerInv'
<1> SUFFICES ASSUME LoggerInv, handler
             PROVE  LoggerInv'
  OBVIOUS
<1> DEFINE how == IF lpc = "handler" THEN "failed" ELSE
                  IF written THEN "doubled" ELSE IF todo # <<>> THEN "cut" ELSE "saved"
<1>1. part \o buf \in Seq(Cell)
  BY Leavings
<1>2. how # "doubled" => ~written
  BY DEF LoggerInv, Owes
<1>3. how = "saved" => todo = <<>>
  OBVIOUS
<1>4. how \in {"failed", "saved", "cut", "doubled", "killed"}
  OBVIOUS
<1>5. EndLogger(part \o buf, how)
  BY DEF handler
<1> HIDE DEF how
<1>6. Settled([part |-> part \o buf, owed |-> owed, how |-> how])
  BY <1>2, <1>3, Leavings DEF Settled
<1> QED
  BY <1>1, <1>4, <1>5, <1>6, EndInv

LEMMA KillLoggerInv == LoggerInv /\ KillLogger => LoggerInv'
<1> SUFFICES ASSUME LoggerInv, KillLogger
             PROVE  LoggerInv'
  OBVIOUS
<1>1. Settled([part |-> part, owed |-> owed, how |-> "killed"])
  BY Leavings DEF Settled
<1> QED
  BY <1>1, Leavings, EndInv DEF KillLogger

LEMMA LoggerStutters == LoggerInv /\ UNCHANGED loggerVars => LoggerInv'
<1> SUFFICES ASSUME LoggerInv, UNCHANGED loggerVars
             PROVE  LoggerInv'
  OBVIOUS
<1> USE DEF loggerVars
<1>1. LoggerTypeOK'
  BY DEF LoggerInv, LoggerTypeOK
<1>2. Owes'
  BY DEF LoggerInv, Owes, Unflushed
<1> QED
  BY <1>1, <1>2 DEF LoggerInv, Settled, Begins

-----------------------------------------------------------------------------
(* The receivers.                                                           *)

\* What a receiver was called with and what waits for it are in order and
\* not from the future.
InOrder(r) ==
  LET all == called[r] \o waiting[r]
  IN /\ \A i, j \in 1 .. Len(all) : i < j => all[i] < all[j]
     /\ \A i \in 1 .. Len(all) : all[i] <= sent

ClientInv ==
  /\ ClientTypeOK
  /\ FailureMeansNoCallbacks
  /\ \A r \in Receiver : InOrder(r)

LEMMA ClientInitInv == ClientInit => ClientInv
<1> SUFFICES ASSUME ClientInit
             PROVE  ClientInv
  OBVIOUS
<1> USE DEF ClientInit
<1>1. ClientTypeOK
  BY ReceiverAssumption DEF ClientTypeOK
<1>2. ASSUME NEW r \in Receiver
      PROVE  InOrder(r)
  BY DEF InOrder
<1> QED
  BY <1>1, <1>2 DEF ClientInv, FailureMeansNoCallbacks

LEMMA RunInv ==
  ASSUME ClientInv, NEW r \in Receiver, Run(r)
  PROVE  ClientInv'
<1>1. ClientTypeOK'
  BY DEF ClientInv, ClientTypeOK, Run
<1>2. FailureMeansNoCallbacks'
  BY DEF ClientInv, ClientTypeOK, FailureMeansNoCallbacks, Run
<1>3. ASSUME NEW k \in Receiver
      PROVE  InOrder(k)'
  <2>1. InOrder(k)
    BY DEF ClientInv
  <2>2. called' = called /\ waiting' = waiting /\ sent' = sent
    BY DEF Run
  <2> QED
    BY <2>1, <2>2 DEF InOrder
<1> QED
  BY <1>1, <1>2, <1>3 DEF ClientInv

LEMMA SetupInv ==
  ASSUME ClientInv, NEW r \in Receiver, Setup(r)
  PROVE  ClientInv'
<1>1. After[rpc[r]] \in {"reuseport", "bind", "recvfrom"} /\ rpc[r] # "returned"
  BY DEF After, Setup
<1>2. ClientTypeOK'
  <2>1. rpc' = [rpc EXCEPT ![r] = After[rpc[r]]] \/ rpc' = [rpc EXCEPT ![r] = "returned"]
    BY DEF Setup, WorkerReturns
  <2>2. rpc' \in [Receiver -> {"none", "socket", "reuseport", "bind", "recvfrom",
                             "callback", "returned"}]
    BY <1>1, <2>1 DEF ClientInv, ClientTypeOK
  <2>3. result' = result \/ result' = [result EXCEPT ![r] = "RUN_FAILURE"]
    BY DEF Setup, WorkerReturns
  <2>4. result' \in [Receiver -> {"none", "thread_id", "RUN_FAILURE"}]
    BY <2>3 DEF ClientInv, ClientTypeOK
  <2>5. UNCHANGED <<waiting, called, due, sent>>
    BY DEF Setup
  <2> QED
    BY <2>2, <2>4, <2>5 DEF ClientInv, ClientTypeOK
<1>3. FailureMeansNoCallbacks'
  BY <1>1 DEF ClientInv, ClientTypeOK, FailureMeansNoCallbacks, Setup, WorkerReturns
<1> QED
  BY <1>2, <1>3 DEF ClientInv, InOrder, Setup

\* What is taken from the front of a queue goes on to where it is added.
LEMMA TakenIsAdded ==
  \A s, t \in Seq(Batch) : t # <<>> => Append(s, Head(t)) \o Tail(t) = s \o t
OBVIOUS

LEMMA ReceiveInv ==
  ASSUME ClientInv, NEW r \in Receiver, Receive(r)
  PROVE  ClientInv'
<1>1. /\ waiting[r] \in Seq(Batch) /\ waiting[r] # <<>> /\ called[r] \in Seq(Batch)
      /\ Head(waiting[r]) \in Batch
  BY DEF ClientInv, ClientTypeOK, Receive
<1>2. ClientTypeOK'
  BY <1>1 DEF ClientInv, ClientTypeOK, Receive
<1>3. FailureMeansNoCallbacks'
  BY DEF ClientInv, ClientTypeOK, FailureMeansNoCallbacks, Receive
<1>4. ASSUME NEW q \in Receiver
      PROVE  called'[q] \o waiting'[q] = called[q] \o waiting[q]
  <2>1. CASE q = r
    <3>1. called'[r] = Append(called[r], Head(waiting[r])) /\ waiting'[r] = Tail(waiting[r])
      BY DEF Receive, ClientInv, ClientTypeOK
    <3>2. Append(called[r], Head(waiting[r])) \o Tail(waiting[r]) = called[r] \o waiting[r]
      BY <1>1, TakenIsAdded
    <3> QED
      BY <2>1, <3>1, <3>2
  <2>2. CASE q # r
    BY <2>2 DEF Receive, ClientInv, ClientTypeOK
  <2> QED
    BY <2>1, <2>2
<1>5. sent' = sent
  BY DEF Receive
<1>6. ASSUME NEW q \in Receiver
      PROVE  InOrder(q)'
  BY <1>4, <1>5 DEF ClientInv, InOrder
<1> QED
  BY <1>2, <1>3, <1>6 DEF ClientInv

LEMMA CallbackReturnsInv ==
  ASSUME ClientInv, NEW r \in Receiver, CallbackReturns(r)
  PROVE  ClientInv'
<1>1. ClientTypeOK'
  BY DEF ClientInv, ClientTypeOK, CallbackReturns
<1>2. FailureMeansNoCallbacks'
  BY DEF ClientInv, ClientTypeOK, FailureMeansNoCallbacks, CallbackReturns
<1> QED
  BY <1>1, <1>2 DEF ClientInv, InOrder, CallbackReturns

LEMMA ReceiverEndsInv ==
  ASSUME ClientInv, NEW r \in Receiver, ReceiverEnds(r)
  PROVE  ClientInv'
<1>1. ClientTypeOK'
  BY DEF ClientInv, ClientTypeOK, ReceiverEnds
<1>2. FailureMeansNoCallbacks'
  BY DEF ClientInv, ClientTypeOK, FailureMeansNoCallbacks, ReceiverEnds
<1>3. ASSUME NEW q \in Receiver
      PROVE  InOrder(q)'
  <2>1. CASE q = r
    BY <2>1 DEF ReceiverEnds, ClientInv, ClientTypeOK, InOrder
  <2>2. CASE q # r
    BY <2>2 DEF ReceiverEnds, ClientInv, ClientTypeOK, InOrder
  <2> QED
    BY <2>1, <2>2
<1> QED
  BY <1>1, <1>2, <1>3 DEF ClientInv

\* What is added to a queue is added to all that was taken from it.
LEMMA AddedAtEnd ==
  \A s, t \in Seq(Batch) : \A e \in Batch : s \o Append(t, e) = Append(s \o t, e)
OBVIOUS

LEMMA ArriveInv ==
  ASSUME ClientInv, Arrive
  PROVE  ClientInv'
<1>1. /\ MaxSent \in Nat /\ sent \in 0 .. MaxSent
      /\ sent + 1 \in Batch /\ sent' = sent + 1 /\ sent' \in 0 .. MaxSent
  BY ReceiverAssumption DEF Arrive, ClientInv, ClientTypeOK, Batch
<1>2. ASSUME NEW q \in Receiver
      PROVE  /\ called'[q] = called[q] /\ called[q] \in Seq(Batch)
             /\ waiting[q] \in Seq(Batch)
             /\ waiting'[q] = waiting[q] \/ waiting'[q] = Append(waiting[q], sent + 1)
             /\ due'[q] = due[q] \/ due'[q] = due[q] \cup {sent + 1}
  BY DEF Arrive, ClientInv, ClientTypeOK
<1>3. ClientTypeOK'
  <2>1. waiting' \in [Receiver -> Seq(Batch)]
    <3>1. DOMAIN waiting' = Receiver /\ waiting' = [r \in Receiver |-> waiting'[r]]
      BY DEF Arrive, ClientInv, ClientTypeOK
    <3>2. ASSUME NEW q \in Receiver
          PROVE  waiting'[q] \in Seq(Batch)
      <4>1. Append(waiting[q], sent + 1) \in Seq(Batch)
        BY <1>1, <1>2
      <4> QED
        BY <1>2, <4>1
    <3> QED
      BY <3>1, <3>2
  <2>2. due' \in [Receiver -> SUBSET Batch]
    <3>1. due' = [r \in Receiver |-> due'[r]]
      BY DEF Arrive, ClientInv, ClientTypeOK
    <3>2. ASSUME NEW q \in Receiver
          PROVE  due'[q] \in SUBSET Batch
      <4>1. due[q] \subseteq Batch
        BY DEF ClientInv, ClientTypeOK
      <4>2. due[q] \cup {sent + 1} \subseteq Batch
        BY <1>1, <4>1
      <4> QED
        BY <1>2, <4>1, <4>2
    <3> QED
      BY <3>1, <3>2
  <2> QED
    BY <1>1, <2>1, <2>2 DEF Arrive, ClientInv, ClientTypeOK
<1>4. FailureMeansNoCallbacks'
  BY DEF ClientInv, FailureMeansNoCallbacks, Arrive
<1>5. ASSUME NEW q \in Receiver
      PROVE  InOrder(q)'
  <2> DEFINE old == called[q] \o waiting[q]
             new == called'[q] \o waiting'[q]
  <2>1. old \in Seq(Batch)
    BY <1>2
  <2>2. /\ \A i, j \in 1 .. Len(old) : i < j => old[i] < old[j]
        /\ \A i \in 1 .. Len(old) : old[i] <= sent
    BY DEF ClientInv, InOrder
  <2>3. new = old \/ new = Append(old, sent + 1)
    <3>1. called[q] \o Append(waiting[q], sent + 1) = Append(called[q] \o waiting[q], sent + 1)
      BY <1>1, <1>2, AddedAtEnd
    <3> QED
      BY <1>2, <3>1
  <2> HIDE DEF old, new
  <2>4. \A i \in 1 .. Len(old) : old[i] \in Nat
    <3>1. \A i \in 1 .. Len(old) : old[i] \in Batch
      BY <2>1
    <3> QED
      BY <1>1, <3>1 DEF Batch
  <2>5. /\ \A i, j \in 1 .. Len(new) : i < j => new[i] < new[j]
        /\ \A i \in 1 .. Len(new) : new[i] <= sent'
    <3>1. CASE new = old
      BY <1>1, <2>2, <2>4, <3>1
    <3>2. CASE new = Append(old, sent + 1)
      <4>1. Len(new) = Len(old) + 1 /\ new[Len(old) + 1] = sent + 1 /\ Len(old) \in Nat
        BY <2>1, <3>2
      <4>2. \A i \in 1 .. Len(old) : new[i] = old[i]
        BY <2>1, <3>2
      <4>3. ASSUME NEW i \in 1 .. Len(new)
            PROVE  i \in 1 .. Len(old) \/ (i = Len(old) + 1 /\ new[i] = sent + 1)
        BY <4>1
      <4>4. \A i \in 1 .. Len(old) : new[i] < sent + 1
        BY <1>1, <2>2, <2>4, <4>2
      <4>5. ASSUME NEW i \in 1 .. Len(new), NEW j \in 1 .. Len(new), i < j
            PROVE  new[i] < new[j]
        <5>1. i \in 1 .. Len(old)
          BY <4>1, <4>5
        <5>2. CASE j \in 1 .. Len(old)
          BY <2>2, <4>2, <4>5, <5>1, <5>2
        <5>3. CASE j = Len(old) + 1
          BY <4>1, <4>4, <5>1, <5>3
        <5> QED
          BY <4>3, <5>2, <5>3
      <4>6. ASSUME NEW i \in 1 .. Len(new)
            PROVE  new[i] <= sent'
        BY <1>1, <2>4, <4>2, <4>3, <4>4
      <4> QED
        BY <4>5, <4>6
    <3> QED
      BY <2>3, <3>1, <3>2
  <2> QED
    BY <2>5 DEF InOrder, new
<1> QED
  BY <1>3, <1>4, <1>5 DEF ClientInv

LEMMA ClientStutters == ClientInv /\ UNCHANGED clientVars => ClientInv'
<1> SUFFICES ASSUME ClientInv, UNCHANGED clientVars
             PROVE  ClientInv'
  OBVIOUS
<1> USE DEF clientVars
<1>1. ClientTypeOK'
  BY DEF ClientInv, ClientTypeOK
<1> QED
  BY <1>1 DEF ClientInv, FailureMeansNoCallbacks, InOrder

-----------------------------------------------------------------------------
(* The composition.                                                         *)

RecordingInv == ClientInv /\ LoggerInv

LEMMA RecordingStep == RecordingInv /\ [RecordingNext]_recordingVars => RecordingInv'
<1> SUFFICES ASSUME RecordingInv, [RecordingNext]_recordingVars
             PROVE  RecordingInv'
  OBVIOUS
<1>0. ClientInv /\ LoggerInv /\ logger \in Receiver
  BY RecordingAssumption DEF RecordingInv
<1>1. CASE Begin
  BY <1>0, <1>1, StartLoggerInv, OpenLogInv, WriteHeaderInv, ClientStutters
     DEF Begin, RecordingInv
<1>2. CASE Connect
  BY <1>0, <1>2, RunInv, SetupInv, LoggerStutters DEF Connect, RecordingInv
<1>3. CASE CallBack
  <2>1. Head(waiting[logger]) \in Nat \ {0}
    BY <1>0, <1>3, ReceiverAssumption DEF CallBack, Receive, ClientInv, ClientTypeOK, Batch
  <2>2. ClientInv'
    BY <1>0, <1>3, ReceiveInv DEF CallBack
  <2>3. LoggerInv'
    BY <1>0, <1>3, <2>1, CallbackInv DEF CallBack
  <2> QED
    BY <2>2, <2>3 DEF RecordingInv
<1>4. CASE Writing
  BY <1>0, <1>4, FwriteInv, FlushBufferInv, EmptyBufferInv, ClientStutters
     DEF Writing, RecordingInv
<1>5. CASE CallBackReturns
  BY <1>0, <1>5, CallbackReturnsInv, LoggerStutters DEF CallBackReturns, RecordingInv
<1>6. CASE Return
  BY <1>0, <1>6, ReceiverEndsInv, LoggerReturnsInv DEF Return, RecordingInv
<1>7. CASE Signal
  BY <1>0, <1>7, ReceiverEndsInv, handlerInv, KillLoggerInv DEF Signal, RecordingInv
<1>8. CASE Others
  BY <1>0, <1>8, ArriveInv, RunInv, SetupInv, ReceiveInv, CallbackReturnsInv,
     ReceiverEndsInv, LoggerStutters DEF Others, Worker, RecordingInv
<1>9. CASE UNCHANGED recordingVars
  BY <1>0, <1>9, ClientStutters, LoggerStutters DEF recordingVars, RecordingInv
<1> QED
  BY <1>1, <1>2, <1>3, <1>4, <1>5, <1>6, <1>7, <1>8, <1>9 DEF RecordingNext

\* What ClientInv says of each receiver, and LoggerInv of the log, its buffer
\* and what is owed to it, holds of all of them running together
\* (load_cell_cli.c 54-108, load_cell_logger.c 20-49).
THEOREM RecordingInvHolds == RecordingSpec => []RecordingInv
<1>1. RecordingInit => RecordingInv
  BY ClientInitInv, LoggerInitInv DEF RecordingInit, RecordingInv
<1> QED
  BY <1>1, RecordingStep, PTL DEF RecordingSpec

\* Queues, callbacks, buffer and log hold what they should.
THEOREM RecordingTypeCorrect == RecordingSpec => []RecordingTypeOK
<1>1. RecordingInv => RecordingTypeOK
  BY DEF RecordingInv, ClientInv, LoggerInv, RecordingTypeOK
<1> QED
  BY <1>1, RecordingInvHolds, PTL

\* The callback of each receiver is called with each datagram at most once,
\* in the order in which they were sent (load_cell_cli.c 54-64).
THEOREM InOrderAlways == RecordingSpec => []CallbacksInOrder
<1>1. RecordingInv => CallbacksInOrder
  BY DEF RecordingInv, ClientInv, InOrder, CallbacksInOrder
<1> QED
  BY <1>1, RecordingInvHolds, PTL

\* Nothing is called back after a failure was returned (load_cell_cli.c
\* 78-108).
THEOREM FailureIsFinal == RecordingSpec => []FailureMeansNoCallbacks
<1>1. RecordingInv => FailureMeansNoCallbacks
  BY DEF RecordingInv, ClientInv
<1> QED
  BY <1>1, RecordingInvHolds, PTL

\* A session never has anything in the log but a beginning of what it owes,
\* each line once, unless it is interrupted within a flush (20-49).
THEOREM LogStaysPrefix == RecordingSpec => []LogIsPrefix
<1>1. RecordingInv => LogIsPrefix
  <2> SUFFICES ASSUME RecordingInv
               PROVE  LogIsPrefix
    OBVIOUS
  <2>1. Begins(part, owed)
    BY Leavings DEF RecordingInv
  <2> QED
    BY <2>1 DEF RecordingInv, LoggerInv, Settled, LogIsPrefix
<1> QED
  BY <1>1, RecordingInvHolds, PTL

\* SIGINT between two callbacks loses nothing (handler, 20-26).
THEOREM InterruptIsSafe == RecordingSpec => []InterruptSavesAll
<1>1. RecordingInv => InterruptSavesAll
  BY DEF RecordingInv, LoggerInv, Settled, InterruptSavesAll
<1> QED
  BY <1>1, RecordingInvHolds, PTL

-----------------------------------------------------------------------------
(* What is torn.                                                            *)

\* Cell b comes after cell a in the lines of a session.
Follows(a, b) ==
  IF EndsLine(a) THEN b.half = 1 /\ ~IsHeader(b) ELSE b = [a EXCEPT !.half = 2]

\* p begins with a header and is as it was to be, but perhaps after place c.
Piece(p, c) ==
  /\ p # <<>> => p[1] = Header
  /\ \A i \in 1 .. Len(p) - 1 : i # c => Follows(p[i], p[i + 1])

\* Whole lines after the header.
Framed(o) == Piece(o, 0) /\ (o # <<>> => EndsLine(o[Len(o)]))

\* What a session leaves is torn within only if it was flushed twice, and at
\* its end only if it was interrupted; after the header there is no line or
\* a whole one.
Torn(e) ==
  \E c \in 0 .. Len(e.part) :
    /\ Piece(e.part, c)
    /\ e.how # "doubled" => c = 0 /\ Len(e.part) # 2
    /\ e.how \in {"saved", "failed"} /\ e.part # <<>> => EndsLine(e.part[Len(e.part)])

\* A buffer that was flushed and has not been emptied is the end of the log.
TornInv ==
  /\ Framed(owed)
  /\ lpc = "cli" => owed # <<>> /\ Len(part \o Unflushed) \notin {0, 2}
  /\ part = <<>> \/ Len(part) > 2
  /\ written => /\ Len(buf) = BufLen /\ BufLen <= Len(part)
                /\ \A j \in 1 .. BufLen : buf[j] = part[Len(part) - BufLen + j]
  /\ \A s \in DOMAIN ended : Torn(ended[s])

LEMMA Concat ==
  \A s, t \in Seq(Cell) :
    /\ s \o t \in Seq(Cell) /\ Len(s \o t) = Len(s) + Len(t)
    /\ Len(s) \in Nat /\ Len(t) \in Nat
    /\ \A i \in 1 .. Len(s) : (s \o t)[i] = s[i]
    /\ \A i \in 1 .. Len(t) : (s \o t)[Len(s) + i] = t[i]
    /\ s = <<>> <=> Len(s) = 0
OBVIOUS

\* A piece stays one when it is cut off at any place.
LEMMA PieceBegins ==
  ASSUME NEW o \in Seq(Cell), NEW p \in Seq(Cell), Piece(o, 0), Begins(p, o)
  PROVE  Piece(p, 0)
<1>1. PICK n \in 0 .. Len(o) : p = SubSeq(o, 1, n)
  BY DEF Begins
<1>2. Len(p) = n /\ Len(o) \in Nat /\ \A i \in 1 .. n : p[i] = o[i]
  BY <1>1
<1>3. p # <<>> => p[1] = Header
  <2>1. p # <<>> => 1 \in 1 .. n /\ o # <<>>
    BY <1>1, <1>2
  <2> QED
    BY <1>2, <2>1 DEF Piece
<1>4. ASSUME NEW i \in 1 .. Len(p) - 1
      PROVE  Follows(p[i], p[i + 1])
  <2>1. i \in 1 .. Len(o) - 1 /\ i # 0 /\ i \in 1 .. n /\ i + 1 \in 1 .. n
    BY <1>2
  <2>2. Follows(o[i], o[i + 1])
    BY <2>1 DEF Piece
  <2> QED
    BY <1>2, <2>1, <2>2
<1> QED
  BY <1>3, <1>4 DEF Piece

\* What a session may leave: torn at its end only if there is something left
\* to put.
LEMMA EndTorn ==
  ASSUME LoggerInv, TornInv, NEW p \in Seq(Cell),
         NEW how \in {"failed", "saved", "cut", "killed"},
         Begins(p, owed), Len(p) # 2,
         how \in {"saved", "failed"} => p = owed
  PROVE  Torn([part |-> p, owed |-> owed, how |-> how])
<1> DEFINE e == [part |-> p, owed |-> owed, how |-> how]
<1>1. owed \in Seq(Cell) /\ Framed(owed)
  BY DEF LoggerInv, LoggerTypeOK, TornInv
<1>2. Piece(p, 0)
  BY <1>1, PieceBegins DEF Framed
<1>3. e.part = p /\ e.how = how
  OBVIOUS
<1>4. 0 \in 0 .. Len(p)
  OBVIOUS
<1>5. how \in {"saved", "failed"} /\ p # <<>> => EndsLine(p[Len(p)])
  BY <1>1 DEF Framed
<1> HIDE DEF e
<1> QED
  BY <1>2, <1>3, <1>4, <1>5 DEF Torn, e

\* A session that ends like that leaves the invariant.
LEMMA EndTornInv ==
  ASSUME LoggerInv, TornInv, NEW p \in Seq(Cell),
         NEW how \in {"failed", "saved", "cut", "doubled", "killed"},
         Torn([part |-> p, owed |-> owed, how |-> how]),
         EndLogger(p, how)
  PROVE  TornInv'
<1> DEFINE e == [part |-> p, owed |-> owed, how |-> how]
<1>1. e \in Ending /\ ended \in Seq(Ending)
  BY DEF LoggerInv, LoggerTypeOK, Ending
<1>2. ended' = Append(ended, e) /\ owed' = <<>> /\ part' = <<>> /\ buf' = <<>> /\ ~written' /\ lpc' = "off"
  BY DEF EndLogger
<1>3. Torn(e)
  OBVIOUS
<1> HIDE DEF e
<1>4. \A s \in DOMAIN ended' : Torn(ended'[s])
  <2>1. DOMAIN ended' = 1 .. Len(ended) + 1 /\ ended'[Len(ended) + 1] = e
    BY <1>1, <1>2
  <2>2. \A s \in 1 .. Len(ended) : ended'[s] = ended[s]
    BY <1>1, <1>2
  <2>3. \A s \in 1 .. Len(ended) : Torn(ended[s])
    BY <1>1 DEF TornInv
  <2> TAKE s \in DOMAIN ended'
  <2>4. s \in 1 .. Len(ended) \/ s = Len(ended) + 1
    BY <1>1, <2>1
  <2> QED
    BY <1>3, <2>1, <2>2, <2>3, <2>4
<1>5. Framed(<<>>)
  BY DEF Framed, Piece
<1>6. Len(<<>> \o <<>>) # 2
  OBVIOUS
<1> QED
  BY <1>2, <1>4, <1>5, <1>6 DEF TornInv, Unflushed

LEMMA OpenLogTorn == LoggerInv /\ TornInv /\ OpenLog => TornInv'
<1> SUFFICES ASSUME LoggerInv, TornInv, OpenLog
             PROVE  TornInv'
  OBVIOUS
<1>1. CASE lpc' = "open" /\ UNCHANGED <<part, buf, todo, written, owed, ended>>
  BY <1>1 DEF TornInv, OpenLog, Unflushed
<1>2. CASE EndLogger(part, "failed")
  <2>1. part = <<>> /\ owed = <<>>
    BY DEF LoggerInv, Owes, OpenLog
  <2>2. Begins(part, owed)
    BY Leavings
  <2>3. part \in Seq(Cell) /\ Len(part) # 2
    BY <2>1 DEF LoggerInv, LoggerTypeOK
  <2>4. Torn([part |-> part, owed |-> owed, how |-> "failed"])
    BY <2>1, <2>2, <2>3, EndTorn
  <2> QED
    BY <1>2, <2>3, <2>4, EndTornInv
<1> QED
  BY <1>1, <1>2 DEF OpenLog

LEMMA WriteHeaderTorn == LoggerInv /\ TornInv /\ WriteHeader => TornInv'
<1> SUFFICES ASSUME LoggerInv, TornInv, WriteHeader
             PROVE  TornInv'
  OBVIOUS
<1>1. part = <<>> /\ ~written /\ part' = part /\ ~written' /\ ended' = ended
  BY DEF LoggerInv, Owes, WriteHeader
<1>2. buf' = <<Header>> /\ owed' = <<Header>>
  BY DEF WriteHeader
<1>3. Framed(<<Header>>)
  BY DEF Framed, Piece, EndsLine, IsHeader, Header
<1>4. Len(<<>> \o <<Header>>) # 2 /\ <<Header>> # <<>>
  OBVIOUS
<1> QED
  BY <1>1, <1>2, <1>3, <1>4 DEF TornInv, Unflushed

\* A batch is whole lines.
LEMMA LinesFollow ==
  ASSUME NEW number \in Nat \ {0}
  PROVE  LET t == Lines(number)
         IN /\ t # <<>> => t[1].half = 1 /\ ~IsHeader(t[1]) /\ EndsLine(t[Len(t)])
            /\ \A i \in 1 .. Len(t) - 1 : Follows(t[i], t[i + 1])
<1> DEFINE t == Lines(number)
<1>1. Limit \in Nat
  BY LoggerAssumption
<1>2. t \in Seq(Cell) /\ t # <<>> => t[Len(t)].half = 2
  BY LinesType
<1>3. Len(t) = 2 * Limit /\ \A i \in 1 .. Len(t) :
        t[i] = [stamp |-> (number - 1) * Limit + (i + 1) \div 2, half |-> 2 - (i % 2)]
  BY <1>1 DEF Lines
<1>4. ASSUME NEW i \in 1 .. Len(t)
      PROVE  (number - 1) * Limit + (i + 1) \div 2 # 0
  <2>1. (number - 1) * Limit \in Nat
    BY <1>1
  <2>2. (i + 1) \div 2 \in Nat \ {0}
    BY <1>1, <1>3
  <2> QED
    BY <2>1, <2>2
<1> HIDE DEF t
<1>5. t # <<>> => Len(t) \in Nat /\ 1 \in 1 .. Len(t) /\ Len(t) \in 1 .. Len(t)
  BY <1>1, <1>3, LinesType DEF t
<1>6. ASSUME t # <<>>
      PROVE  t[1].half = 1 /\ ~IsHeader(t[1]) /\ EndsLine(t[Len(t)])
  <2>1. t[1].half = 2 - (1 % 2) /\ t[1].stamp # 0
    BY <1>3, <1>4, <1>5, <1>6
  <2> QED
    BY <1>2, <1>6, <2>1, LinesType DEF EndsLine, IsHeader, t
<1>7. ASSUME NEW i \in 1 .. Len(t) - 1
      PROVE  Follows(t[i], t[i + 1])
  <2>1. i \in 1 .. Len(t) /\ i + 1 \in 1 .. Len(t)
    BY <1>1, <1>3
  <2> DEFINE base == (number - 1) * Limit
  <2>2. /\ t[i] = [stamp |-> base + (i + 1) \div 2, half |-> 2 - (i % 2)]
        /\ t[i + 1] = [stamp |-> base + (i + 2) \div 2, half |-> 2 - ((i + 1) % 2)]
    <3>1. (i + 1) + 1 = i + 2
      OBVIOUS
    <3> QED
      BY <1>3, <2>1, <3>1
  <2>3. base + (i + 1) \div 2 # 0 /\ base + (i + 2) \div 2 # 0
    <3>1. (i + 1) + 1 = i + 2
      OBVIOUS
    <3> QED
      BY <1>4, <2>1, <3>1
  <2> HIDE DEF base
  <2>4. CASE i % 2 = 1
    <3>1. (i + 1) % 2 = 0 /\ (i + 1) \div 2 = (i + 2) \div 2
      BY <2>4
    <3>2. /\ t[i].stamp # 0 /\ t[i].half = 1
          /\ t[i + 1] = [t[i] EXCEPT !.half = 2]
      BY <2>2, <2>3, <2>4, <3>1
    <3> QED
      BY <3>2 DEF Follows, EndsLine, IsHeader
  <2>5. CASE i % 2 = 0
    <3>1. (i + 1) % 2 = 1
      BY <2>5
    <3>2. t[i].half = 2 /\ t[i + 1].half = 1 /\ t[i + 1].stamp # 0
      BY <2>2, <2>3, <2>5, <3>1
    <3> QED
      BY <3>2 DEF Follows, EndsLine, IsHeader
  <2>6. i % 2 \in {0, 1}
    OBVIOUS
  <2> QED
    BY <2>4, <2>5, <2>6
<1> QED
  BY <1>6, <1>7 DEF t

LEMMA CallbackTorn ==
  ASSUME LoggerInv, TornInv, NEW number \in Nat \ {0}, write_callback_batch(number)
  PROVE  TornInv'
<1> DEFINE t == Lines(number)
           new == owed \o t
<1>1. owed \in Seq(Cell) /\ t \in Seq(Cell)
  BY LinesType DEF LoggerInv, LoggerTypeOK
<1>2. /\ t # <<>> => t[1].half = 1 /\ ~IsHeader(t[1]) /\ EndsLine(t[Len(t)])
      /\ \A i \in 1 .. Len(t) - 1 : Follows(t[i], t[i + 1])
  BY LinesFollow
<1>3. owed # <<>> /\ Framed(owed)
  BY DEF TornInv, write_callback_batch
<1> HIDE DEF t
<1>4. /\ Len(new) = Len(owed) + Len(t) /\ Len(owed) \in Nat \ {0} /\ Len(t) \in Nat
      /\ \A i \in 1 .. Len(owed) : new[i] = owed[i]
      /\ \A i \in 1 .. Len(t) : new[Len(owed) + i] = t[i]
  BY <1>1, <1>3
<1>5. t # <<>> => Len(t) # 0
  BY <1>1
<1> HIDE DEF new
<1>6. new # <<>> /\ new[1] = Header /\ EndsLine(new[Len(new)])
  <2>1. new[1] = Header
    <3>1. 1 \in 1 .. Len(owed) /\ owed[1] = Header
      BY <1>3, <1>4 DEF Framed, Piece
    <3> QED
      BY <1>4, <3>1
  <2>2. EndsLine(new[Len(new)])
    <3>1. CASE t = <<>>
      <4>1. Len(new) = Len(owed) /\ Len(owed) \in 1 .. Len(owed)
        BY <1>4, <3>1
      <4> QED
        BY <1>3, <1>4, <4>1 DEF Framed
    <3>2. CASE t # <<>>
      <4>1. Len(t) \in 1 .. Len(t)
        BY <1>4, <1>5, <3>2
      <4> QED
        BY <1>2, <1>4, <3>2, <4>1
    <3> QED
      BY <3>1, <3>2
  <2>3. new # <<>>
    BY <1>4
  <2> QED
    BY <2>1, <2>2, <2>3
<1>7. ASSUME NEW i \in 1 .. Len(new) - 1
      PROVE  Follows(new[i], new[i + 1])
  <2>1. CASE i < Len(owed)
    <3>1. i \in 1 .. Len(owed) - 1 /\ i \in 1 .. Len(owed) /\ i + 1 \in 1 .. Len(owed) /\ i # 0
      BY <1>4, <2>1
    <3>2. Follows(owed[i], owed[i + 1])
      BY <1>3, <3>1 DEF Framed, Piece
    <3> QED
      BY <1>4, <3>1, <3>2
  <2>2. CASE i = Len(owed)
    <3>1. 1 \in 1 .. Len(t) /\ i \in 1 .. Len(owed) /\ Len(t) # 0
      BY <1>4, <2>2
    <3>2. t # <<>>
      BY <3>1
    <3>3. new[i] = owed[Len(owed)] /\ new[i + 1] = t[1]
      BY <1>4, <2>2, <3>1
    <3>4. EndsLine(owed[Len(owed)])
      BY <1>3 DEF Framed
    <3> QED
      BY <1>2, <3>2, <3>3, <3>4 DEF Follows
  <2>3. CASE i > Len(owed)
    <3> DEFINE j == i - Len(owed)
    <3>1. j \in 1 .. Len(t) - 1 /\ j \in 1 .. Len(t) /\ j + 1 \in 1 .. Len(t)
          /\ Len(owed) + j = i /\ Len(owed) + (j + 1) = i + 1
      BY <1>4, <2>3
    <3> HIDE DEF j
    <3>2. new[i] = t[j] /\ new[i + 1] = t[j + 1]
      BY <1>4, <3>1
    <3> QED
      BY <1>2, <3>1, <3>2
  <2> QED
    BY <1>4, <2>1, <2>2, <2>3
<1>8. Framed(new)
  BY <1>6, <1>7 DEF Framed, Piece
<1>9. owed' = new /\ UNCHANGED <<lpc, part, buf, written, ended>>
  BY DEF write_callback_batch, new, t
<1> QED
  BY <1>6, <1>8, <1>9 DEF TornInv, Unflushed

\* The first line is put into the buffer in whole, after the header.
LEMMA FwriteTorn == LoggerInv /\ TornInv /\ Fwrite => TornInv'
<1> SUFFICES ASSUME LoggerInv, TornInv, Fwrite
             PROVE  TornInv'
  OBVIOUS
<1> DEFINE first == SubSeq(todo, 1, Fitting)
<1>1. Fitting \in 1 .. Len(todo) /\ Fitting <= BufLen - Len(buf)
  BY FittingRange DEF LoggerInv, Fwrite
<1>2. /\ todo \in Seq(Cell) /\ part \in Seq(Cell) /\ buf \in Seq(Cell)
      /\ Len(buf) \in 0 .. BufLen /\ BufLen \in Nat /\ BufLen > 2
  BY LoggerAssumption, RecordingAssumption DEF LoggerInv, LoggerTypeOK
<1>3. first \in Seq(Cell) /\ Len(first) = Fitting
  BY <1>1, <1>2
<1>4. /\ buf' = buf \o first /\ ~written /\ ~written'
      /\ UNCHANGED <<part, owed, ended, lpc>>
  BY DEF Fwrite
<1> HIDE DEF first
<1> DEFINE pre == part \o buf
<1>5. pre \o todo = owed /\ lpc = "cli" /\ owed # <<>> /\ Piece(owed, 0)
  BY <1>4 DEF Fwrite, LoggerInv, Owes, Unflushed, TornInv, Framed
<1>6. Len(pre) \notin {0, 2}
  BY <1>4, <1>5 DEF TornInv, Unflushed
<1>7. Len(pre) = Len(part) + Len(buf) /\ Len(part) \in Nat /\ Len(buf) \in Nat /\ pre \in Seq(Cell)
  BY <1>2
<1>8. Len(part \o buf') = Len(pre) + Fitting
  <2>1. part \o buf' = part \o (buf \o first) /\ Len(buf \o first) = Len(buf) + Fitting
    BY <1>2, <1>3, <1>4, Concat
  <2>2. buf \o first \in Seq(Cell)
    BY <1>2, <1>3, Concat
  <2>3. Len(part \o buf') = Len(part) + Len(buf \o first)
    BY <1>2, <2>1, <2>2, Concat
  <2> QED
    BY <1>1, <1>2, <1>7, <2>1, <2>3
<1>9. Len(pre) = 1 => Fitting = 2
  <2> SUFFICES ASSUME Len(pre) = 1
               PROVE  Fitting = 2
    OBVIOUS
  <2> HIDE DEF pre
  <2>1. Len(todo) \in Nat \ {0} /\ Len(owed) = 1 + Len(todo)
    <3>1. Len(todo) \in Nat /\ Len(todo) # 0
      BY <1>2, Concat DEF Fwrite
    <3>2. Len(pre \o todo) = Len(pre) + Len(todo)
      BY <1>2, <1>7, Concat
    <3> QED
      BY <1>5, <3>1, <3>2
  <2>2. owed[2] = todo[1]
    <3>1. \A i \in 1 .. Len(todo) : (pre \o todo)[Len(pre) + i] = todo[i]
      BY <1>2, <1>7, Concat
    <3>2. 1 \in 1 .. Len(todo) /\ Len(pre) + 1 = 2
      BY <2>1
    <3> QED
      BY <1>5, <3>1, <3>2
  <2>3. owed[1] = Header /\ Follows(owed[1], owed[1 + 1])
    BY <1>5, <2>1 DEF Piece
  <2>4. todo[1].half = 1
    BY <2>2, <2>3 DEF Follows, EndsLine, IsHeader, Header
  <2>5. Head(todo) = todo[1]
    BY <1>2, <2>1
  <2>6. BufLen - Len(buf) >= 2
    <3>1. Len(part) + Len(buf) = 1
      BY <1>7
    <3> QED
      BY <1>2, <1>7, <3>1
  <2> QED
    BY <2>4, <2>5, <2>6 DEF Fitting
<1>10. Len(part \o buf') \notin {0, 2}
  <2> HIDE DEF pre
  <2>1. Len(pre) \in Nat
    BY <1>7
  <2>2. Fitting \in Nat \ {0}
    BY <1>1, <1>2
  <2>3. \A a, b \in Nat :
          a \notin {0, 2} /\ b # 0 /\ (a = 1 => b = 2) => a + b \notin {0, 2}
    OBVIOUS
  <2>4. Len(pre) + Fitting \notin {0, 2}
    <3> HIDE DEF Fitting
    <3> QED
      BY <1>6, <1>9, <2>1, <2>2, <2>3
  <2> QED
    BY <1>8, <2>4, Zenon
<1> QED
  BY <1>4, <1>10 DEF TornInv, Unflushed

LEMMA FlushBufferTorn == LoggerInv /\ TornInv /\ FlushBuffer => TornInv'
<1> SUFFICES ASSUME LoggerInv, TornInv, FlushBuffer
             PROVE  TornInv'
  OBVIOUS
<1>1. /\ part' = part \o buf /\ written' /\ ~written /\ Len(buf) = BufLen
      /\ UNCHANGED <<lpc, buf, owed, ended>>
  BY DEF FlushBuffer
<1>2. part \in Seq(Cell) /\ buf \in Seq(Cell) /\ BufLen \in Nat
  BY LoggerAssumption DEF LoggerInv, LoggerTypeOK
<1>3. Len(part') = Len(part) + BufLen /\ Len(part) \in Nat
  <2>1. Len(part \o buf) = Len(part) + Len(buf) /\ Len(part) \in Nat
    BY <1>2, Concat
  <2> QED
    BY <1>1, <2>1
<1>4. \A j \in 1 .. BufLen : buf'[j] = part'[Len(part') - BufLen + j]
  <2>1. Len(part') - BufLen = Len(part)
    BY <1>2, <1>3
  <2>2. \A j \in 1 .. BufLen : (part \o buf)[Len(part) + j] = buf[j]
    BY <1>1, <1>2, Concat
  <2> QED
    BY <1>1, <2>1, <2>2
<1>5. part' \o <<>> = part'
  BY <1>1, <1>2
<1>6. lpc' = "cli" => owed' # <<>> /\ Len(part' \o <<>>) \notin {0, 2}
  BY <1>1, <1>5 DEF TornInv, Unflushed
<1>7. BufLen <= Len(part') /\ Len(part') > 2
  BY <1>2, <1>3, RecordingAssumption
<1> QED
  BY <1>1, <1>4, <1>6, <1>7 DEF TornInv, Unflushed

LEMMA EmptyBufferTorn == LoggerInv /\ TornInv /\ EmptyBuffer => TornInv'
BY DEF EmptyBuffer, TornInv, Unflushed

\* Nothing is left of a session that has not opened the log; otherwise what
\* is left is not a header and half a line.
LEMMA LeavingsTorn ==
  ASSUME LoggerInv, TornInv
  PROVE  /\ Len(part) # 2
         /\ ~written => Len(part \o buf) # 2
<1>1. Len(part) # 2
  <2>1. part \in Seq(Cell) /\ (part = <<>> \/ Len(part) > 2)
    BY DEF LoggerInv, LoggerTypeOK, TornInv
  <2>2. Len(part) = 0 \/ Len(part) > 2
    BY <2>1
  <2>3. \A n : n = 0 \/ n > 2 => n # 2
    OBVIOUS
  <2> QED
    BY <2>2, <2>3
<1>2. CASE lpc # "cli"
  <2>1. part = <<>> /\ buf = <<>>
    BY <1>2 DEF LoggerInv, Owes
  <2> QED
    BY <2>1
<1>3. CASE lpc = "cli"
  BY <1>1, <1>3 DEF TornInv, Unflushed
<1> QED
  BY <1>2, <1>3

LEMMA LoggerReturnsTorn == LoggerInv /\ TornInv /\ LoggerReturns => TornInv'
<1> SUFFICES ASSUME LoggerInv, TornInv, LoggerReturns
             PROVE  TornInv'
  OBVIOUS
<1> DEFINE p == part \o buf
<1>1. ~written /\ p \in Seq(Cell) /\ Begins(p, owed) /\ p = owed
  BY Leavings DEF LoggerReturns, LoggerInv, Owes
<1>2. Len(p) # 2
  BY <1>1, LeavingsTorn
<1>3. EndLogger(p, "failed")
  BY DEF LoggerReturns
<1> HIDE DEF p
<1>4. Torn([part |-> p, owed |-> owed, how |-> "failed"])
  BY <1>1, <1>2, EndTorn
<1> QED
  BY <1>1, <1>3, <1>4, EndTornInv

\* A buffer that is flushed twice: only where the second copy begins the log
\* may be torn.
LEMMA DoubledPiece ==
  ASSUME LoggerInv, TornInv, written
  PROVE  Piece(part \o buf, Len(part)) /\ part # <<>>
<1> DEFINE p == part \o buf
           m == Len(part) - BufLen
<1>1. /\ part \in Seq(Cell) /\ buf \in Seq(Cell) /\ owed \in Seq(Cell) /\ BufLen \in Nat
      /\ BufLen > 2
  BY LoggerAssumption, RecordingAssumption DEF LoggerInv, LoggerTypeOK
<1>2. /\ Len(buf) = BufLen /\ BufLen <= Len(part)
      /\ \A j \in 1 .. BufLen : buf[j] = part[m + j]
  BY DEF TornInv
<1>3. Piece(part, 0)
  BY <1>1, Leavings, PieceBegins DEF TornInv, Framed
<1>4. /\ Len(p) = Len(part) + BufLen /\ Len(part) \in Nat
      /\ \A i \in 1 .. Len(part) : p[i] = part[i]
      /\ \A i \in 1 .. BufLen : p[Len(part) + i] = part[m + i]
      /\ part # <<>>
  <2>1. /\ Len(p) = Len(part) + Len(buf) /\ Len(part) \in Nat
        /\ \A i \in 1 .. Len(part) : p[i] = part[i]
        /\ \A i \in 1 .. Len(buf) : p[Len(part) + i] = buf[i]
        /\ part = <<>> <=> Len(part) = 0
    BY <1>1, Concat
  <2> HIDE DEF p, m
  <2>2. Len(part) # 0
    BY <1>1, <1>2, <2>1
  <2> QED
    BY <1>2, <2>1, <2>2
<1> HIDE DEF p
<1>5. p[1] = Header
  <2>1. 1 \in 1 .. Len(part)
    BY <1>1, <1>2, <1>4
  <2> QED
    BY <1>3, <1>4, <2>1 DEF Piece
<1>6. ASSUME NEW i \in 1 .. Len(p) - 1, i # Len(part)
      PROVE  Follows(p[i], p[i + 1])
  <2>1. CASE i < Len(part)
    <3>1. i \in 1 .. Len(part) - 1 /\ i # 0 /\ i \in 1 .. Len(part) /\ i + 1 \in 1 .. Len(part)
      BY <1>4, <2>1
    <3>2. Follows(part[i], part[i + 1])
      BY <1>3, <3>1 DEF Piece
    <3> QED
      BY <1>4, <3>1, <3>2
  <2>2. CASE i > Len(part)
    <3> DEFINE j == i - Len(part)
    <3>1. j \in 1 .. BufLen /\ j + 1 \in 1 .. BufLen /\ Len(part) + j = i
          /\ Len(part) + (j + 1) = i + 1
      BY <1>1, <1>4, <2>2
    <3>2. m + j \in 1 .. Len(part) - 1 /\ m + j # 0 /\ m + (j + 1) = (m + j) + 1
      BY <1>1, <1>2, <1>4, <3>1
    <3> HIDE DEF j, m
    <3>3. p[i] = part[m + j] /\ p[i + 1] = part[(m + j) + 1]
      BY <1>4, <3>1, <3>2
    <3>4. Follows(part[m + j], part[(m + j) + 1])
      BY <1>3, <3>2 DEF Piece
    <3> QED
      BY <3>3, <3>4
  <2> QED
    BY <1>4, <1>6, <2>1, <2>2
<1> QED
  BY <1>4, <1>5, <1>6 DEF Piece, p

LEMMA handlerTorn == LoggerInv /\ TornInv /\ handler => TornInv'
<1> SUFFICES ASSUME LoggerInv, TornInv, handler
             PROVE  TornInv'
  OBVIOUS
<1> DEFINE p == part \o buf
           how == IF lpc = "handler" THEN "failed" ELSE
                  IF written THEN "doubled" ELSE IF todo # <<>> THEN "cut" ELSE "saved"
<1>1. p \in Seq(Cell)
  BY Leavings
<1>2. how \in {"failed", "saved", "cut", "doubled", "killed"}
  OBVIOUS
<1>3. EndLogger(p, how)
  BY DEF handler
<1>4. CASE how = "doubled"
  <2>1. written
    BY <1>4
  <2>2. Piece(p, Len(part)) /\ Len(part) \in 0 .. Len(p)
    <3>1. part \in Seq(Cell) /\ buf \in Seq(Cell)
      BY DEF LoggerInv, LoggerTypeOK
    <3>2. Len(p) = Len(part) + Len(buf) /\ Len(part) \in Nat /\ Len(buf) \in Nat
      BY <3>1, Concat
    <3>3. Len(part) \in 0 .. Len(p)
      BY <3>2
    <3> QED
      BY <2>1, <3>3, DoubledPiece
  <2> HIDE DEF p, how
  <2> DEFINE e == [part |-> p, owed |-> owed, how |-> how]
  <2>3. e.part = p /\ e.how = "doubled"
    BY <1>4
  <2> HIDE DEF e
  <2>4. Torn(e)
    BY <2>2, <2>3 DEF Torn
  <2> QED
    BY <1>1, <1>2, <1>3, <2>4, EndTornInv DEF e
<1>5. CASE how # "doubled"
  <2>1. ~written
    BY <1>5 DEF LoggerInv, Owes
  <2>2. Begins(p, owed) /\ Len(p) # 2
    BY <2>1, Leavings, LeavingsTorn
  <2>3. how \in {"saved", "failed"} => p = owed
    <3>1. CASE lpc = "handler"
      BY <3>1, Leavings DEF LoggerInv, Owes
    <3>2. CASE lpc # "handler"
      BY <3>2, Leavings
    <3> QED
      BY <3>1, <3>2
  <2> HIDE DEF p, how
  <2>4. how \in {"failed", "saved", "cut", "killed"}
    BY <1>2, <1>5
  <2>5. Torn([part |-> p, owed |-> owed, how |-> how])
    BY <1>1, <2>2, <2>3, <2>4, EndTorn
  <2> QED
    BY <1>1, <1>2, <1>3, <2>5, EndTornInv
<1> QED
  BY <1>4, <1>5

LEMMA KillLoggerTorn == LoggerInv /\ TornInv /\ KillLogger => TornInv'
<1> SUFFICES ASSUME LoggerInv, TornInv, KillLogger
             PROVE  TornInv'
  OBVIOUS
<1>1. part \in Seq(Cell) /\ Begins(part, owed) /\ Len(part) # 2
  BY Leavings, LeavingsTorn
<1>2. Torn([part |-> part, owed |-> owed, how |-> "killed"])
  BY <1>1, EndTorn
<1> QED
  BY <1>1, <1>2, EndTornInv DEF KillLogger

LEMMA TornInitInv == LoggerInit => TornInv
<1> SUFFICES ASSUME LoggerInit
             PROVE  TornInv
  OBVIOUS
<1>1. Framed(<<>>)
  BY DEF Framed, Piece
<1> QED
  BY <1>1 DEF LoggerInit, TornInv

LEMMA TornStutters ==
  TornInv /\ UNCHANGED <<lpc, part, buf, written, owed, ended>> => TornInv'
BY DEF TornInv, Unflushed

\* Every step of the composition keeps it.
LEMMA TornStep ==
  RecordingInv /\ TornInv /\ [RecordingNext]_recordingVars => TornInv'
<1> SUFFICES ASSUME RecordingInv, TornInv, [RecordingNext]_recordingVars
             PROVE  TornInv'
  OBVIOUS
<1>0. ClientInv /\ LoggerInv /\ logger \in Receiver
  BY RecordingAssumption DEF RecordingInv
<1>1. CASE Begin
  <2>1. CASE StartLogger
    BY <2>1 DEF StartLogger, TornInv, Unflushed
  <2> QED
    BY <1>0, <1>1, <2>1, OpenLogTorn, WriteHeaderTorn DEF Begin
<1>2. CASE CallBack
  <2>1. Head(waiting[logger]) \in Nat \ {0}
    BY <1>0, <1>2, ReceiverAssumption DEF CallBack, Receive, ClientInv, ClientTypeOK, Batch
  <2> QED
    BY <1>0, <1>2, <2>1, CallbackTorn DEF CallBack
<1>3. CASE Writing
  BY <1>0, <1>3, FwriteTorn, FlushBufferTorn, EmptyBufferTorn DEF Writing
<1>4. CASE Return
  BY <1>0, <1>4, LoggerReturnsTorn DEF Return
<1>5. CASE Signal
  BY <1>0, <1>5, handlerTorn, KillLoggerTorn DEF Signal
<1>6. CASE Connect \/ CallBackReturns \/ Others \/ UNCHANGED recordingVars
  BY <1>6, TornStutters DEF Connect, CallBackReturns, Others, recordingVars, loggerVars
<1> QED
  BY <1>1, <1>2, <1>3, <1>4, <1>5, <1>6 DEF RecordingNext

-----------------------------------------------------------------------------
(* Places in order.                                                         *)

\* How many of S come before i, and what that is for the elements of S.
Rank(S, i) == Cardinality({j \in S : j < i})

LEMMA RankRange ==
  ASSUME NEW S, S \subseteq Nat, IsFiniteSet(S)
  PROVE  /\ Cardinality(S) \in Nat
         /\ \A i \in S : Rank(S, i) \in 0 .. Cardinality(S) - 1
         /\ \A i, k \in S : i < k => Rank(S, i) < Rank(S, k)
<1>1. Cardinality(S) \in Nat
  BY FS_CardinalityType
<1> DEFINE Below(i) == {j \in S : j < i}
<1>2. ASSUME NEW i \in S
      PROVE  /\ IsFiniteSet(Below(i)) /\ Rank(S, i) = Cardinality(Below(i))
             /\ Rank(S, i) \in Nat /\ i \notin Below(i) /\ Below(i) \subseteq S
             /\ IsFiniteSet(Below(i) \cup {i})
             /\ Cardinality(Below(i) \cup {i}) = Rank(S, i) + 1
  <2>1. Below(i) \in SUBSET S /\ i \notin Below(i)
    BY <1>2
  <2>2. Rank(S, i) = Cardinality(Below(i))
    BY DEF Rank
  <2> HIDE DEF Below
  <2>3. IsFiniteSet(Below(i))
    BY <2>1, FS_Subset
  <2>4. Cardinality(Below(i)) \in Nat
    BY <2>3, FS_CardinalityType
  <2> QED
    BY <2>1, <2>2, <2>3, <2>4, FS_AddElement
<1>3. ASSUME NEW i \in S
      PROVE  Rank(S, i) \in 0 .. Cardinality(S) - 1
  <2>1. Below(i) \cup {i} \in SUBSET S
    BY <1>3
  <2> HIDE DEF Below
  <2>2. Cardinality(Below(i) \cup {i}) <= Cardinality(S)
    BY <2>1, FS_Subset
  <2>3. Rank(S, i) \in Nat /\ Rank(S, i) + 1 <= Cardinality(S)
    BY <1>2, <2>2
  <2> QED
    BY <1>1, <2>3
<1>4. ASSUME NEW i \in S, NEW k \in S, i < k
      PROVE  Rank(S, i) < Rank(S, k)
  <2>1. Below(i) \cup {i} \in SUBSET Below(k)
    <3>1. i \in Nat /\ k \in Nat /\ \A j \in S : j \in Nat
      OBVIOUS
    <3>2. \A j \in Below(i) : j \in Below(k)
      BY <1>4, <3>1
    <3>3. i \in Below(k)
      BY <1>4
    <3> QED
      BY <3>2, <3>3
  <2> HIDE DEF Below
  <2>2. Cardinality(Below(i) \cup {i}) <= Cardinality(Below(k))
    BY <1>2, <2>1, FS_Subset
  <2>3. Rank(S, i) + 1 <= Rank(S, k) /\ Rank(S, i) \in Nat /\ Rank(S, k) \in Nat
    BY <1>2, <2>2
  <2> QED
    BY <2>3
<1> QED
  BY <1>1, <1>3, <1>4

\* There is one element of every rank, and Nth finds it.
LEMMA NthIsOfRank ==
  ASSUME NEW S, S \subseteq Nat, IsFiniteSet(S)
  PROVE  /\ \A k \in 1 .. Cardinality(S) : Nth(S, k) \in S /\ Rank(S, Nth(S, k)) = k - 1
         /\ \A i \in S : Rank(S, i) + 1 \in 1 .. Cardinality(S) /\ Nth(S, Rank(S, i) + 1) = i
<1> DEFINE n == Cardinality(S)
           r == [i \in S |-> Rank(S, i) + 1]
<1>1. /\ n \in Nat
      /\ \A i \in S : Rank(S, i) \in 0 .. n - 1
      /\ \A i, k \in S : i < k => Rank(S, i) < Rank(S, k)
  BY RankRange
<1>2. \A i, k \in S : Rank(S, i) = Rank(S, k) => i = k
  <2> SUFFICES ASSUME NEW i \in S, NEW k \in S, Rank(S, i) = Rank(S, k)
               PROVE  i = k
    OBVIOUS
  <2>1. i \in Nat /\ k \in Nat /\ Rank(S, i) \in Int /\ Rank(S, k) \in Int
    BY <1>1
  <2>2. ~(i < k) /\ ~(k < i)
    BY <1>1, <2>1
  <2> QED
    BY <2>1, <2>2
<1>3. r \in Injection(S, 1 .. n)
  <2>1. r \in [S -> 1 .. n]
    <3>1. \A i \in S : Rank(S, i) + 1 \in 1 .. n
      BY <1>1
    <3> QED
      BY <3>1
  <2>2. ASSUME NEW i \in S, NEW k \in S, r[i] = r[k]
        PROVE  i = k
    <3>1. Rank(S, i) + 1 = Rank(S, k) + 1 /\ Rank(S, i) \in Int /\ Rank(S, k) \in Int
      BY <1>1, <2>2
    <3>2. Rank(S, i) = Rank(S, k)
      BY <3>1
    <3> QED
      BY <1>2, <3>2
  <2> HIDE DEF r
  <2> QED
    BY <2>1, <2>2 DEF Injection, IsInjective
<1>4. r \in Surjection(S, 1 .. n)
  <2>1. IsFiniteSet(1 .. n) /\ Cardinality(1 .. n) = n
    BY <1>1, FS_Interval
  <2> HIDE DEF r
  <2> QED
    BY <1>3, <2>1, FS_Injection
<1>5. ASSUME NEW k \in 1 .. n
      PROVE  Nth(S, k) \in S /\ Rank(S, Nth(S, k)) = k - 1
  <2>1. PICK i \in S : r[i] = k
    BY <1>4 DEF Surjection
  <2>2. Rank(S, i) + 1 = k /\ Rank(S, i) \in Int
    BY <1>1, <2>1
  <2>3. Cardinality({j \in S : j < i}) = k - 1
    BY <2>2 DEF Rank
  <2>4. Nth(S, k) \in S /\ Cardinality({j \in S : j < Nth(S, k)}) = k - 1
    BY <2>3 DEF Nth
  <2> QED
    BY <2>4 DEF Rank
<1>6. ASSUME NEW i \in S
      PROVE  Rank(S, i) + 1 \in 1 .. n /\ Nth(S, Rank(S, i) + 1) = i
  <2>1. Rank(S, i) + 1 \in 1 .. n /\ (Rank(S, i) + 1) - 1 = Rank(S, i)
    BY <1>1
  <2>2. Nth(S, Rank(S, i) + 1) \in S /\ Rank(S, Nth(S, Rank(S, i) + 1)) = Rank(S, i)
    BY <1>5, <2>1
  <2> QED
    BY <1>2, <2>1, <2>2
<1> QED
  BY <1>5, <1>6

\* The order of Nth is that of its places.
LEMMA NthGrows ==
  ASSUME NEW S, S \subseteq Nat, IsFiniteSet(S),
         NEW j \in 1 .. Cardinality(S), NEW k \in 1 .. Cardinality(S), j < k
  PROVE  Nth(S, j) < Nth(S, k)
<1> DEFINE a == Nth(S, j)
           b == Nth(S, k)
<1>1. a \in S /\ b \in S /\ Rank(S, a) = j - 1 /\ Rank(S, b) = k - 1
  BY NthIsOfRank
<1>2. b < a => Rank(S, b) < Rank(S, a)
  BY <1>1, RankRange
<1>3. a # b /\ ~(b < a)
  <2>1. j \in Int /\ k \in Int /\ j - 1 < k - 1
    BY RankRange
  <2> HIDE DEF a, b
  <2> QED
    BY <1>1, <1>2, <2>1
<1>4. a \in Nat /\ b \in Nat
  BY <1>1
<1> HIDE DEF a, b
<1>5. a < b
  BY <1>3, <1>4
<1> QED
  BY <1>5 DEF a, b

\* A map onto another set that keeps the order takes the k-th element to the
\* k-th.
Moves(h, S, T) ==
  /\ h \in [S -> T]
  /\ \A i, k \in S : i < k => h[i] < h[k]
  /\ \A t \in T : \E i \in S : h[i] = t

\* Places that are moved without changing their order keep their rank.
LEMMA NthMoves ==
  ASSUME NEW S, S \subseteq Nat, IsFiniteSet(S), NEW T, T \subseteq Nat,
         NEW h, Moves(h, S, T)
  PROVE  /\ IsFiniteSet(T) /\ Cardinality(T) = Cardinality(S)
         /\ \A k \in 1 .. Cardinality(S) : Nth(T, k) = h[Nth(S, k)]
<1>0. /\ h \in [S -> T]
      /\ \A i, k \in S : i < k => h[i] < h[k]
      /\ \A t \in T : \E i \in S : h[i] = t
  BY DEF Moves
<1> USE <1>0
<1>1. ASSUME NEW i \in S, NEW k \in S
      PROVE  (h[i] = h[k] => i = k) /\ (h[i] < h[k] => i < k)
  <2>1. i \in Nat /\ k \in Nat /\ h[i] \in Nat /\ h[k] \in Nat
    OBVIOUS
  <2>2. i < k \/ i = k \/ k < i
    BY <2>1
  <2> QED
    BY <2>1, <2>2
<1>2. h \in Bijection(S, T)
  <2>1. h \in Injection(S, T)
    BY <1>1 DEF Injection, IsInjective
  <2>2. h \in Surjection(S, T)
    BY DEF Surjection
  <2> QED
    BY <2>1, <2>2 DEF Bijection
<1>3. ExistsBijection(S, T)
  BY <1>2 DEF ExistsBijection
<1>4. IsFiniteSet(T) /\ Cardinality(T) = Cardinality(S)
  BY <1>3, FS_Bijection
<1>5. ASSUME NEW i \in S
      PROVE  Rank(T, h[i]) = Rank(S, i)
  <2> DEFINE A == {j \in S : j < i}
             B == {j \in T : j < h[i]}
             g == [j \in A |-> h[j]]
  <2>1. A \in SUBSET S
    OBVIOUS
  <2>2. IsFiniteSet(A)
    <3> HIDE DEF A
    <3> QED
      BY <2>1, FS_Subset
  <2>3. g \in [A -> B]
    OBVIOUS
  <2>4. \A j, k \in A : g[j] = g[k] => j = k
    BY <1>1
  <2>5. \A t \in B : \E j \in A : g[j] = t
    <3> TAKE t \in B
    <3>1. PICK j \in S : h[j] = t
      OBVIOUS
    <3>2. j < i
      BY <1>1, <3>1
    <3> QED
      BY <3>1, <3>2
  <2>6. Rank(S, i) = Cardinality(A) /\ Rank(T, h[i]) = Cardinality(B)
    BY DEF Rank
  <2> HIDE DEF A, B, g
  <2>7. g \in Bijection(A, B)
    BY <2>3, <2>4, <2>5 DEF Bijection, Injection, IsInjective, Surjection
  <2>8. ExistsBijection(A, B)
    BY <2>7 DEF ExistsBijection
  <2>9. Cardinality(B) = Cardinality(A)
    BY <2>2, <2>8, FS_Bijection
  <2> QED
    BY <2>6, <2>9
<1>6. ASSUME NEW k \in 1 .. Cardinality(S)
      PROVE  Nth(T, k) = h[Nth(S, k)]
  <2> DEFINE a == Nth(S, k)
  <2>1. a \in S /\ Rank(S, a) = k - 1
    BY NthIsOfRank
  <2>2. h[a] \in T /\ Rank(T, h[a]) = k - 1
    BY <1>5, <2>1
  <2> HIDE DEF a
  <2>3. Nth(T, Rank(T, h[a]) + 1) = h[a]
    BY <1>4, <2>2, NthIsOfRank
  <2>4. (k - 1) + 1 = k
    OBVIOUS
  <2> QED
    BY <2>2, <2>3, <2>4 DEF a
<1> QED
  BY <1>4, <1>6

-----------------------------------------------------------------------------
(* The log as its pieces.                                                   *)

IsFlat(f, ss, n) == f = [i \in 1 .. n |-> IF i = 1 THEN ss[i] ELSE f[i - 1] \o ss[i]]

\* The recursion has a solution, so the fold that is chosen is one.
LEMMA FlatExists ==
  ASSUME NEW ss
  PROVE  \A n \in Nat : \E f : IsFlat(f, ss, n)
<1> DEFINE S == {n \in Nat : \E f : IsFlat(f, ss, n)}
<1>1. 0 \in S
  <2>1. IsFlat([i \in 1 .. 0 |-> 0], ss, 0)
    BY DEF IsFlat
  <2> QED
    BY <2>1
<1>2. ASSUME NEW n \in Nat, n \in S
      PROVE  n + 1 \in S
  <2>1. PICK f : IsFlat(f, ss, n)
    BY <1>2
  <2> DEFINE g == [i \in 1 .. n + 1 |->
                     IF i = 1 THEN ss[i] ELSE IF i = n + 1 THEN f[n] \o ss[i] ELSE f[i]]
  <2>2. \A i \in 1 .. n : f[i] = IF i = 1 THEN ss[i] ELSE f[i - 1] \o ss[i]
    BY <2>1 DEF IsFlat
  <2>3. \A i \in 1 .. n + 1 : g[i] = IF i = 1 THEN ss[i] ELSE g[i - 1] \o ss[i]
    <3> TAKE i \in 1 .. n + 1
    <3>1. CASE i = 1
      BY <3>1
    <3>2. CASE i # 1 /\ i = n + 1
      <4>1. g[n] = f[n] /\ n \in 1 .. n /\ i - 1 = n
        BY <2>2, <3>2
      <4> QED
        BY <3>2, <4>1
    <3>3. CASE i # 1 /\ i # n + 1
      <4>1. i \in 1 .. n /\ i - 1 \in 1 .. n /\ i - 1 \in 1 .. n + 1 /\ i - 1 # n + 1
        BY <3>3
      <4>2. g[i] = f[i] /\ g[i - 1] = f[i - 1]
        BY <2>2, <3>3, <4>1
      <4> QED
        BY <2>2, <3>3, <4>1, <4>2
    <3> QED
      BY <3>1, <3>2, <3>3
  <2>4. g = [i \in 1 .. n + 1 |-> g[i]]
    OBVIOUS
  <2> HIDE DEF g
  <2>5. IsFlat(g, ss, n + 1)
    BY <2>3, <2>4 DEF IsFlat
  <2> QED
    BY <2>5
<1>3. \A n \in Nat : n \in S
  <2> HIDE DEF S
  <2> QED
    BY <1>1, <1>2, ForAllNumbers
<1> QED
  BY <1>3

\* A concatenation is the last of those that lead to it.
LEMMA FlattenSteps ==
  ASSUME NEW n \in Nat, NEW ss \in [1 .. n -> Seq(Cell)]
  PROVE  \E F \in [0 .. n -> Seq(Cell)] :
           /\ F[0] = <<>>
           /\ \A k \in 0 .. n - 1 : F[k + 1] = F[k] \o ss[k + 1]
           /\ FlattenSeq(ss) = F[n]
<1> DEFINE f == CHOOSE f : IsFlat(f, ss, n)
           F == [k \in 0 .. n |-> IF k = 0 THEN <<>> ELSE f[k]]
<1>1. IsFlat(f, ss, n)
  BY FlatExists
<1>2. ss \in Seq(Seq(Cell)) /\ Len(ss) = n
  OBVIOUS
<1>3. FlattenSeq(ss) = IF n = 0 THEN ss ELSE f[n]
  BY <1>2 DEF FlattenSeq, IsFlat
<1> HIDE DEF f
<1>4. \A i \in 1 .. n : f[i] = IF i = 1 THEN ss[i] ELSE f[i - 1] \o ss[i]
  BY <1>1 DEF IsFlat
<1>5. ASSUME NEW k \in 0 .. n - 1
      PROVE  F[k + 1] = F[k] \o ss[k + 1]
  <2>1. k + 1 \in 1 .. n /\ k + 1 # 0 /\ k + 1 \in 0 .. n /\ (k + 1) - 1 = k
    OBVIOUS
  <2>2. ss[k + 1] \in Seq(Cell)
    BY <2>1
  <2>3. CASE k = 0
    <3>1. <<>> \o ss[k + 1] = ss[k + 1]
      <4>1. \A s \in Seq(Cell) : <<>> \o s = s
        OBVIOUS
      <4> QED
        BY <2>2, <4>1
    <3>2. f[k + 1] = ss[k + 1]
      BY <1>4, <2>1, <2>3
    <3>3. F[k + 1] = f[k + 1] /\ F[k] = <<>>
      BY <2>1, <2>3
    <3> HIDE DEF F
    <3> QED
      BY <3>1, <3>2, <3>3, Zenon
  <2>4. CASE k # 0
    <3>1. f[k + 1] = f[k] \o ss[k + 1]
      <4>1. k + 1 # 1
        BY <2>4
      <4>2. f[k + 1] = f[(k + 1) - 1] \o ss[k + 1]
        BY <1>4, <2>1, <4>1
      <4> QED
        BY <2>1, <4>2
    <3>2. F[k + 1] = f[k + 1] /\ F[k] = f[k]
      BY <2>1, <2>4
    <3> HIDE DEF F
    <3> QED
      BY <3>1, <3>2
  <2> QED
    BY <2>3, <2>4
<1>6. \A k \in 0 .. n : F[k] \in Seq(Cell)
  <2> DEFINE S == {k \in 0 .. n : F[k] \in Seq(Cell)}
  <2>1. 0 \in S
    BY EmptyFits
  <2>2. ASSUME NEW k \in 0 .. n - 1, k \in S
        PROVE  k + 1 \in S
    <3>1. k + 1 \in 1 .. n /\ k + 1 \in 0 .. n
      OBVIOUS
    <3>2. F[k] \in Seq(Cell) /\ ss[k + 1] \in Seq(Cell) /\ F[k + 1] = F[k] \o ss[k + 1]
      BY <1>5, <2>2, <3>1
    <3> HIDE DEF F
    <3>3. F[k + 1] \in Seq(Cell)
      BY <3>2, Concat
    <3> QED
      BY <3>1, <3>3
  <2>3. \A k \in 0 .. n : k \in S
    <3> HIDE DEF S
    <3> QED
      BY <2>1, <2>2, UpTo
  <2> QED
    BY <2>3
<1>7. FlattenSeq(ss) = F[n]
  <2>1. CASE n = 0
    BY <1>2, <1>3, <2>1
  <2>2. CASE n # 0
    BY <1>3, <2>2
  <2> QED
    BY <2>1, <2>2
<1>8. F \in [0 .. n -> Seq(Cell)] /\ F[0] = <<>>
  BY <1>6
<1> HIDE DEF F
<1> QED
  BY <1>5, <1>7, <1>8

\* The parts of the sessions that have ended.
Parts == [s \in DOMAIN ended |-> ended[s].part]

LEMMA PartsType ==
  ASSUME LoggerTypeOK
  PROVE  /\ Len(ended) \in Nat /\ DOMAIN ended = 1 .. Len(ended)
         /\ Parts \in [1 .. Len(ended) -> Seq(Cell)]
         /\ \A s \in 1 .. Len(ended) : Parts[s] = ended[s].part /\ ended[s] \in Ending
         /\ Log = FlattenSeq(Parts) \o part
<1>1. ended \in Seq(Ending)
  BY DEF LoggerTypeOK, Ending
<1>2. Len(ended) \in Nat /\ DOMAIN ended = 1 .. Len(ended) /\ \A s \in 1 .. Len(ended) : ended[s] \in Ending
  BY <1>1
<1>3. \A s \in 1 .. Len(ended) : ended[s].part \in Seq(Cell)
  BY <1>2 DEF Ending
<1> QED
  BY <1>2, <1>3 DEF Parts, Log

-----------------------------------------------------------------------------
(* Where a log has lines that are no samples.                               *)

Strays(log) == {i \in RecordStarts(log) : Parsed(log, i).stray}

LEMMA ParsedIs ==
  ASSUME NEW log, NEW i
  PROVE  Parsed(log, i).stray <=>
           ~(i < Len(log) /\ log[i].half = 1 /\ log[i + 1] = [log[i] EXCEPT !.half = 2])
BY DEF Parsed

LEMMA RecordStartsAre ==
  ASSUME NEW log \in Seq(Cell)
  PROVE  /\ \A i : i \in RecordStarts(log) <=>
                     /\ i \in 1 .. Len(log) /\ (i = 1 \/ EndsLine(log[i - 1]))
                     /\ ~IsHeader(log[i])
         /\ RecordStarts(log) \subseteq Nat /\ IsFiniteSet(RecordStarts(log))
<1>1. Len(log) \in Nat /\ DOMAIN log = 1 .. Len(log)
  OBVIOUS
<1>2. \A i : i \in RecordStarts(log) <=>
               /\ i \in 1 .. Len(log) /\ (i = 1 \/ EndsLine(log[i - 1]))
               /\ ~IsHeader(log[i])
  BY <1>1 DEF RecordStarts, LineStarts
<1>3. RecordStarts(log) \in SUBSET (1 .. Len(log))
  BY <1>2
<1>4. IsFiniteSet(1 .. Len(log))
  BY <1>1, FS_Interval
<1>5. IsFiniteSet(RecordStarts(log))
  BY <1>3, <1>4, FS_Subset
<1>6. RecordStarts(log) \subseteq Nat
  BY <1>1, <1>3
<1> QED
  BY <1>2, <1>5, <1>6

LEMMA StraysAre ==
  ASSUME NEW log \in Seq(Cell)
  PROVE  \A i : i \in Strays(log) <=>
           /\ i \in 1 .. Len(log) /\ (i = 1 \/ EndsLine(log[i - 1])) /\ ~IsHeader(log[i])
           /\ ~(i < Len(log) /\ log[i].half = 1 /\ log[i + 1] = [log[i] EXCEPT !.half = 2])
<1> TAKE i
<1>1. i \in Strays(log) <=> i \in RecordStarts(log) /\ Parsed(log, i).stray
  BY DEF Strays
<1> QED
  BY <1>1, RecordStartsAre, ParsedIs, Zenon

LEMMA NoStrays == Strays(<<>>) = {}
<1>1. <<>> \in Seq(Cell) /\ Len(<<>>) = 0
  BY EmptyFits
<1>2. \A i : i \in RecordStarts(<<>>) => i \in 1 .. 0
  BY <1>1, RecordStartsAre
<1> QED
  BY <1>2 DEF Strays

LEMMA StraysFinite ==
  ASSUME NEW log \in Seq(Cell)
  PROVE  IsFiniteSet(Strays(log)) /\ Cardinality(Strays(log)) \in Nat /\ Strays(log) \subseteq Nat
<1>1. Strays(log) \in SUBSET RecordStarts(log)
  BY DEF Strays
<1>2. IsFiniteSet(Strays(log))
  BY <1>1, RecordStartsAre, FS_Subset
<1> QED
  BY <1>1, <1>2, RecordStartsAre, FS_CardinalityType

\* A piece adds no strays but its own: its header ends the line before it.
LEMMA StraysJoin ==
  ASSUME NEW log \in Seq(Cell), NEW p \in Seq(Cell), p # <<>> => p[1] = Header
  PROVE  Cardinality(Strays(log \o p)) <= Cardinality(Strays(log)) + Cardinality(Strays(p))
<1> DEFINE j == log \o p
           n == Len(log)
           moved == [i \in Strays(p) |-> n + i]
           M == {n + i : i \in Strays(p)}
<1>1. /\ j \in Seq(Cell) /\ Len(j) = n + Len(p) /\ n \in Nat /\ Len(p) \in Nat
      /\ \A i \in 1 .. n : j[i] = log[i]
      /\ \A i \in 1 .. Len(p) : j[n + i] = p[i]
      /\ p = <<>> <=> Len(p) = 0
  BY Concat
<1> HIDE DEF j, n
<1>2. ASSUME NEW x \in Strays(j), x <= n
      PROVE  x \in Strays(log)
  <2>1. /\ x \in 1 .. Len(j) /\ (x = 1 \/ EndsLine(j[x - 1])) /\ ~IsHeader(j[x])
        /\ ~(x < Len(j) /\ j[x].half = 1 /\ j[x + 1] = [j[x] EXCEPT !.half = 2])
    BY <1>1, StraysAre
  <2>2. x \in 1 .. n /\ j[x] = log[x]
    BY <1>1, <1>2, <2>1
  <2>3. x = 1 \/ EndsLine(log[x - 1])
    <3>1. x # 1 => x - 1 \in 1 .. n
      BY <1>1, <2>2
    <3> QED
      BY <1>1, <2>1, <3>1
  <2>4. ~(x < n /\ log[x].half = 1 /\ log[x + 1] = [log[x] EXCEPT !.half = 2])
    <3>1. x < n => x < Len(j) /\ x + 1 \in 1 .. n
      BY <1>1, <2>2
    <3> QED
      BY <1>1, <2>1, <2>2, <3>1
  <2>5. x \in RecordStarts(log)
    BY <2>1, <2>2, <2>3, RecordStartsAre DEF n
  <2> QED
    BY <2>4, <2>5, ParsedIs DEF Strays, n
<1>3. ASSUME NEW x \in Strays(j), x > n
      PROVE  x \in M
  <2>1. /\ x \in 1 .. Len(j) /\ (x = 1 \/ EndsLine(j[x - 1])) /\ ~IsHeader(j[x])
        /\ ~(x < Len(j) /\ j[x].half = 1 /\ j[x + 1] = [j[x] EXCEPT !.half = 2])
    BY <1>1, StraysAre
  <2> DEFINE i == x - n
  <2>2. i \in 1 .. Len(p) /\ x = n + i /\ x - 1 = n + (i - 1) /\ x + 1 = n + (i + 1)
    <3>1. x \in Int /\ x <= n + Len(p) /\ n \in Int /\ Len(p) \in Int
      BY <1>1, <2>1
    <3> QED
      BY <1>3, <3>1
  <2> HIDE DEF i
  <2>3. j[x] = p[i]
    BY <1>1, <2>2
  <2>4. i # 1
    <3>1. i = 1 => p # <<>>
      BY <1>1, <2>2
    <3>2. i = 1 => IsHeader(p[i])
      BY <3>1 DEF IsHeader, Header
    <3> QED
      BY <2>1, <2>3, <3>2
  <2>5. EndsLine(p[i - 1])
    <3>1. i - 1 \in 1 .. Len(p) /\ x # 1
      BY <1>1, <2>2, <2>4
    <3>2. j[x - 1] = p[i - 1]
      BY <1>1, <2>2, <3>1
    <3> QED
      BY <2>1, <3>1, <3>2
  <2>6. ~(i < Len(p) /\ p[i].half = 1 /\ p[i + 1] = [p[i] EXCEPT !.half = 2])
    <3>1. i < Len(p) => x < Len(j) /\ i + 1 \in 1 .. Len(p)
      BY <1>1, <2>2
    <3> QED
      BY <1>1, <2>1, <2>2, <2>3, <3>1
  <2>7. i \in RecordStarts(p)
    BY <2>1, <2>2, <2>3, <2>5, RecordStartsAre
  <2>8. i \in Strays(p)
    BY <2>6, <2>7, ParsedIs DEF Strays
  <2> QED
    BY <2>2, <2>8
<1>4. Strays(j) \in SUBSET (Strays(log) \cup M)
  <2>1. \A x \in Strays(j) : x \in Nat
    BY <1>1, StraysFinite
  <2>2. \A x \in Strays(j) : x <= n \/ x > n
    BY <1>1, <2>1
  <2> HIDE DEF M
  <2> QED
    BY <1>2, <1>3, <2>2
<1>5. IsFiniteSet(M) /\ Cardinality(M) <= Cardinality(Strays(p))
  <2>1. moved \in Surjection(Strays(p), M)
    BY DEF Surjection
  <2>2. IsFiniteSet(Strays(p))
    BY StraysFinite
  <2> HIDE DEF M, moved
  <2> QED
    BY <2>1, <2>2, FS_Surjection
<1> HIDE DEF M
<1>6. IsFiniteSet(Strays(log)) /\ Cardinality(Strays(log)) \in Nat /\ Cardinality(Strays(p)) \in Nat
  BY StraysFinite
<1>7. /\ IsFiniteSet(Strays(log) \cup M)
      /\ Cardinality(Strays(log) \cup M) =
           Cardinality(Strays(log)) + Cardinality(M) - Cardinality(Strays(log) \cap M)
  BY <1>5, <1>6, FS_Union
<1>8. Cardinality(Strays(log) \cap M) \in Nat /\ Cardinality(M) \in Nat
  BY <1>5, <1>6, FS_Intersection, FS_CardinalityType
<1>9. Cardinality(Strays(j)) <= Cardinality(Strays(log) \cup M)
  BY <1>4, <1>7, FS_Subset
<1>10. Cardinality(Strays(j)) \in Nat
  BY <1>1, StraysFinite
<1>11. Cardinality(Strays(j)) <= Cardinality(Strays(log)) + Cardinality(Strays(p))
  BY <1>5, <1>6, <1>7, <1>8, <1>9, <1>10
<1> QED
  BY <1>11 DEF j

\* Where a piece that is torn after c has a stray within.
TornAt(p, c) ==
  IF c = 0 THEN {} ELSE IF EndsLine(p[c]) THEN {c + 1} ELSE {c}

\* A piece has strays where it is torn only: at its end, and once where it
\* was torn within.
LEMMA PieceStrays ==
  ASSUME NEW p \in Seq(Cell), NEW c \in 0 .. Len(p), Piece(p, c)
  PROVE  \A i \in Strays(p) : (i = Len(p) /\ ~EndsLine(p[i])) \/ i \in TornAt(p, c)
<1> SUFFICES ASSUME NEW i \in Strays(p)
             PROVE  (i = Len(p) /\ ~EndsLine(p[i])) \/ i \in TornAt(p, c)
  OBVIOUS
<1>1. /\ i \in 1 .. Len(p) /\ (i = 1 \/ EndsLine(p[i - 1])) /\ ~IsHeader(p[i])
      /\ ~(i < Len(p) /\ p[i].half = 1 /\ p[i + 1] = [p[i] EXCEPT !.half = 2])
  BY StraysAre
<1>2. Len(p) \in Nat /\ p # <<>>
  BY <1>1
<1>3. p[i].half = 1 \/ p[i].half = 2
  <2>1. p[i] \in Cell
    BY <1>1
  <2> QED
    BY <2>1 DEF Cell
<1>4. p[1] = Header /\ i # 1
  BY <1>1, <1>2 DEF Piece, IsHeader, Header
<1>5. CASE p[i].half = 1
  <2>1. ~EndsLine(p[i])
    BY <1>1, <1>5 DEF EndsLine
  <2>2. CASE i # Len(p) /\ i # c
    <3>1. i \in 1 .. Len(p) - 1
      BY <1>1, <1>2, <2>2
    <3>2. Follows(p[i], p[i + 1])
      BY <2>2, <3>1 DEF Piece
    <3>3. i < Len(p)
      BY <3>1
    <3> QED
      BY <1>1, <1>5, <2>1, <3>2, <3>3 DEF Follows
  <2>3. CASE i = c
    <3>1. c # 0
      BY <1>1, <2>3
    <3> QED
      BY <2>1, <2>3, <3>1 DEF TornAt
  <2> QED
    BY <2>1, <2>2, <2>3
<1>6. CASE p[i].half = 2
  <2>1. EndsLine(p[i - 1])
    BY <1>1, <1>4
  <2>2. i - 1 \in 1 .. Len(p) - 1 /\ (i - 1) + 1 = i
    BY <1>1, <1>2, <1>4
  <2>3. i - 1 = c
    <3>1. i - 1 # c => Follows(p[i - 1], p[(i - 1) + 1])
      BY <2>2 DEF Piece
    <3> QED
      BY <1>6, <2>1, <2>2, <3>1 DEF Follows
  <2>4. c # 0 /\ i = c + 1 /\ EndsLine(p[c])
    BY <2>1, <2>2, <2>3
  <2> QED
    BY <2>4 DEF TornAt
<1> QED
  BY <1>3, <1>5, <1>6

-----------------------------------------------------------------------------
(* How many strays a log has.                                               *)

\* How many of the first k sessions ended in one of these ways.
Endings(k, hows) == Cardinality({s \in 1 .. k : ended[s].how \in hows})

LEMMA EndingsStep ==
  ASSUME NEW hows, NEW k \in Nat
  PROVE  /\ Endings(k, hows) \in Nat
         /\ Endings(k + 1, hows) =
              Endings(k, hows) + (IF ended[k + 1].how \in hows THEN 1 ELSE 0)
<1> DEFINE A == {s \in 1 .. k : ended[s].how \in hows}
           B == {s \in 1 .. k + 1 : ended[s].how \in hows}
<1>1. A \in SUBSET (1 .. k) /\ k + 1 \notin A
  OBVIOUS
<1>2. B = IF ended[k + 1].how \in hows THEN A \cup {k + 1} ELSE A
  OBVIOUS
<1>3. Endings(k, hows) = Cardinality(A) /\ Endings(k + 1, hows) = Cardinality(B)
  BY DEF Endings
<1> HIDE DEF A, B
<1>4. IsFiniteSet(A)
  <2>1. IsFiniteSet(1 .. k)
    BY FS_Interval
  <2> QED
    BY <1>1, <2>1, FS_Subset
<1>5. Cardinality(A) \in Nat /\ Cardinality(A \cup {k + 1}) = Cardinality(A) + 1
  BY <1>1, <1>4, FS_CardinalityType, FS_AddElement
<1> QED
  BY <1>2, <1>3, <1>5

\* What a piece adds.
LEMMA TornStrays ==
  ASSUME NEW e \in Ending, Torn(e)
  PROVE  /\ e.part # <<>> => e.part[1] = Header
         /\ Cardinality(Strays(e.part)) <=
              (IF e.how \in {"cut", "killed", "doubled"} THEN 1 ELSE 0)
                + (IF e.how \in {"doubled"} THEN 1 ELSE 0)
<1> DEFINE p == e.part
<1>1. PICK c \in 0 .. Len(p) :
         /\ Piece(p, c)
         /\ e.how # "doubled" => c = 0 /\ Len(p) # 2
         /\ e.how \in {"saved", "failed"} /\ p # <<>> => EndsLine(p[Len(p)])
  BY DEF Torn
<1>2. p \in Seq(Cell) /\ e.how \in {"failed", "saved", "cut", "doubled", "killed"}
  BY DEF Ending
<1> HIDE DEF p
<1>3. p # <<>> => p[1] = Header
  BY <1>1 DEF Piece
<1>4. \A i \in Strays(p) : (i = Len(p) /\ ~EndsLine(p[i])) \/ i \in TornAt(p, c)
  BY <1>1, <1>2, PieceStrays
<1>5. IsFiniteSet(Strays(p)) /\ Cardinality(Strays(p)) \in Nat
  BY <1>2, StraysFinite
<1>6. CASE e.how \in {"saved", "failed"}
  <2>1. TornAt(p, c) = {}
    BY <1>1, <1>6 DEF TornAt
  <2>2. \A i \in Strays(p) : p # <<>>
    BY <1>2, RecordStartsAre DEF Strays
  <2>3. Strays(p) = {}
    BY <1>1, <1>4, <1>6, <2>1, <2>2
  <2>4. Cardinality(Strays(p)) = 0
    BY <2>3, FS_EmptySet
  <2> QED
    BY <1>3, <1>6, <2>4 DEF p
<1>7. CASE e.how \in {"cut", "killed"}
  <2>1. TornAt(p, c) = {}
    BY <1>1, <1>7 DEF TornAt
  <2>2. Strays(p) \in SUBSET {Len(p)}
    BY <1>4, <2>1
  <2>3. IsFiniteSet({Len(p)}) /\ Cardinality({Len(p)}) = 1
    BY FS_Singleton
  <2>4. Cardinality(Strays(p)) <= 1
    BY <2>2, <2>3, FS_Subset
  <2> QED
    BY <1>3, <1>7, <2>4 DEF p
<1>8. CASE e.how = "doubled"
  <2> DEFINE T == {Len(p)} \cup TornAt(p, c)
  <2>1. Strays(p) \in SUBSET T
    BY <1>4
  <2>2. IsFiniteSet(T) /\ Cardinality(T) <= 2
    <3>1. IsFiniteSet({Len(p)}) /\ Cardinality({Len(p)}) = 1
      BY FS_Singleton
    <3>2. PICK x : T \in {{Len(p)}, {Len(p)} \cup {x}}
      BY DEF TornAt
    <3> HIDE DEF T
    <3>3. /\ IsFiniteSet({Len(p)} \cup {x})
          /\ Cardinality({Len(p)} \cup {x}) =
               IF x \in {Len(p)} THEN Cardinality({Len(p)}) ELSE Cardinality({Len(p)}) + 1
      BY <3>1, FS_AddElement
    <3>4. Cardinality({Len(p)} \cup {x}) <= 2
      BY <3>1, <3>3
    <3>5. CASE T = {Len(p)}
      BY <3>1, <3>5
    <3>6. CASE T = {Len(p)} \cup {x}
      BY <3>3, <3>4, <3>6
    <3> QED
      BY <3>2, <3>5, <3>6
  <2> HIDE DEF T
  <2>3. Cardinality(Strays(p)) <= Cardinality(T) /\ Cardinality(T) \in Nat
    BY <2>1, <2>2, FS_Subset, FS_CardinalityType
  <2>4. Cardinality(Strays(p)) <= 2
    BY <1>5, <2>2, <2>3
  <2> QED
    BY <1>3, <1>8, <2>4 DEF p
<1> QED
  BY <1>2, <1>6, <1>7, <1>8

\* What is in the log of the session that runs.
LEMMA RunningStrays ==
  ASSUME LoggerInv, TornInv
  PROVE  /\ part \in Seq(Cell) /\ (part # <<>> => part[1] = Header)
         /\ Cardinality(Strays(part)) <= IF lpc = "off" THEN 0 ELSE 1
<1>1. part \in Seq(Cell) /\ Piece(part, 0)
  BY Leavings, PieceBegins DEF LoggerInv, LoggerTypeOK, TornInv, Framed
<1>2. 0 \in 0 .. Len(part)
  BY <1>1
<1>3. \A i \in Strays(part) : (i = Len(part) /\ ~EndsLine(part[i])) \/ i \in TornAt(part, 0)
  BY <1>1, <1>2, PieceStrays
<1>4. Strays(part) \in SUBSET {Len(part)}
  BY <1>3 DEF TornAt
<1>5. IsFiniteSet({Len(part)}) /\ Cardinality({Len(part)}) = 1
  BY FS_Singleton
<1>6. Cardinality(Strays(part)) <= 1
  BY <1>4, <1>5, FS_Subset
<1>7. ASSUME lpc = "off"
      PROVE  Cardinality(Strays(part)) = 0
  <2>1. part = <<>>
    BY <1>7 DEF LoggerInv, Owes
  <2> QED
    BY <2>1, NoStrays, FS_EmptySet
<1> QED
  BY <1>1, <1>6, <1>7 DEF Piece

\* The strays of a log are no more than its cuts.
LEMMA LogStrays ==
  ASSUME LoggerInv, TornInv
  PROVE  /\ Log \in Seq(Cell)
         /\ Cardinality(Strays(Log)) <=
              Endings(Len(ended), {"cut", "killed", "doubled"})
                + Endings(Len(ended), {"doubled"}) + (IF lpc = "off" THEN 0 ELSE 1)
<1> DEFINE n == Len(ended)
           bound(k) == Endings(k, {"cut", "killed", "doubled"}) + Endings(k, {"doubled"})
<1>1. /\ n \in Nat /\ DOMAIN ended = 1 .. n
      /\ Parts \in [1 .. n -> Seq(Cell)]
      /\ \A s \in 1 .. n : Parts[s] = ended[s].part /\ ended[s] \in Ending
      /\ Log = FlattenSeq(Parts) \o part
  BY PartsType DEF LoggerInv
<1> HIDE DEF n
<1>2. PICK F \in [0 .. n -> Seq(Cell)] :
         /\ F[0] = <<>>
         /\ \A k \in 0 .. n - 1 : F[k + 1] = F[k] \o Parts[k + 1]
         /\ FlattenSeq(Parts) = F[n]
  BY <1>1, FlattenSteps
<1>3. \A k \in Nat : bound(k) \in Nat
  BY EndingsStep
<1> DEFINE S == {k \in 0 .. n : Cardinality(Strays(F[k])) <= bound(k)}
<1>4. 0 \in S
  <2>2. Cardinality(Strays(F[0])) = 0
    BY <1>2, NoStrays, FS_EmptySet
  <2>3. bound(0) \in Nat
    BY <1>3
  <2> HIDE DEF bound
  <2> QED
    BY <1>1, <2>2, <2>3
<1>5. ASSUME NEW k \in 0 .. n - 1, k \in S
      PROVE  k + 1 \in S
  <2> DEFINE e == ended[k + 1]
             w1 == IF e.how \in {"cut", "killed", "doubled"} THEN 1 ELSE 0
             w2 == IF e.how \in {"doubled"} THEN 1 ELSE 0
  <2>1. /\ k \in Nat /\ k + 1 \in 1 .. n /\ k + 1 \in 0 .. n /\ k \in 0 .. n
        /\ F[k] \in Seq(Cell) /\ F[k + 1] = F[k] \o e.part
        /\ e \in Ending /\ e.part \in Seq(Cell)
    <3>1. k \in Nat /\ k + 1 \in 1 .. n /\ k + 1 \in 0 .. n /\ k \in 0 .. n
      BY <1>1
    <3>2. F[k] \in Seq(Cell) /\ F[k + 1] = F[k] \o Parts[k + 1]
      BY <1>2, <3>1
    <3>3. Parts[k + 1] = e.part /\ e \in Ending
      BY <1>1, <3>1
    <3>4. e.part \in Seq(Cell)
      BY <3>3 DEF Ending
    <3> HIDE DEF e
    <3> QED
      BY <3>1, <3>2, <3>3, <3>4
  <2>2. Torn(e)
    BY <1>1, <2>1 DEF TornInv
  <2>3. /\ e.part # <<>> => e.part[1] = Header
        /\ Cardinality(Strays(e.part)) <= w1 + w2
    <3> HIDE DEF e
    <3> QED
      BY <2>1, <2>2, TornStrays
  <2>4. Cardinality(Strays(F[k + 1])) <= Cardinality(Strays(F[k])) + Cardinality(Strays(e.part))
    <3> HIDE DEF e
    <3> QED
      BY <2>1, <2>3, StraysJoin
  <2>5. bound(k + 1) = bound(k) + w1 + w2
    <3>1. /\ Endings(k + 1, {"cut", "killed", "doubled"}) = Endings(k, {"cut", "killed", "doubled"}) + w1
          /\ Endings(k + 1, {"doubled"}) = Endings(k, {"doubled"}) + w2
      BY <2>1, EndingsStep
    <3>2. /\ Endings(k, {"cut", "killed", "doubled"}) \in Nat /\ Endings(k, {"doubled"}) \in Nat
          /\ w1 \in Nat /\ w2 \in Nat
      BY <2>1, EndingsStep
    <3> HIDE DEF w1, w2
    <3> QED
      BY <3>1, <3>2
  <2>6. /\ Cardinality(Strays(F[k + 1])) \in Nat /\ Cardinality(Strays(F[k])) \in Nat
        /\ Cardinality(Strays(e.part)) \in Nat
    BY <1>2, <2>1, StraysFinite
  <2>7. w1 \in Nat /\ w2 \in Nat /\ bound(k) \in Nat
    BY <1>3, <2>1
  <2>8. Cardinality(Strays(F[k])) <= bound(k)
    BY <1>5
  <2> HIDE DEF w1, w2, e, bound
  <2>9. Cardinality(Strays(F[k + 1])) <= bound(k + 1)
    BY <2>3, <2>4, <2>5, <2>6, <2>7, <2>8
  <2> QED
    BY <2>1, <2>9
<1>6. \A k \in 0 .. n : k \in S
  <2> HIDE DEF S
  <2> QED
    BY <1>1, <1>4, <1>5, UpTo
<1>7. Cardinality(Strays(F[n])) <= bound(n) /\ F[n] \in Seq(Cell)
  BY <1>1, <1>2, <1>6
<1>8. /\ part \in Seq(Cell) /\ (part # <<>> => part[1] = Header)
      /\ Cardinality(Strays(part)) <= IF lpc = "off" THEN 0 ELSE 1
  BY RunningStrays
<1>9. Log = F[n] \o part /\ Log \in Seq(Cell)
  BY <1>1, <1>2, <1>7, <1>8, Concat
<1>10. Cardinality(Strays(Log)) <= Cardinality(Strays(F[n])) + Cardinality(Strays(part))
  BY <1>7, <1>8, <1>9, StraysJoin
<1>11. /\ Cardinality(Strays(Log)) \in Nat /\ Cardinality(Strays(F[n])) \in Nat
       /\ Cardinality(Strays(part)) \in Nat /\ bound(n) \in Nat
  BY <1>1, <1>3, <1>7, <1>8, <1>9, StraysFinite
<1>12. Cardinality(Strays(Log)) <= bound(n) + (IF lpc = "off" THEN 0 ELSE 1)
  <2> HIDE DEF bound, S
  <2> QED
    BY <1>7, <1>8, <1>10, <1>11
<1> QED
  BY <1>9, <1>12 DEF n

-----------------------------------------------------------------------------
(* What is found of the lines in a log whose sessions were not flushed      *)
(* twice.                                                                   *)

\* A log begins with a header, and where it is torn a header follows; what
\* comes first after its headers is a whole line.
Tidy(log) ==
  /\ log # <<>> => log[1] = Header
  /\ \A i \in 1 .. Len(log) - 1 : Follows(log[i], log[i + 1]) \/ log[i + 1] = Header
  /\ \A i \in 1 .. Len(log) :
       ~IsHeader(log[i]) /\ (\A j \in 1 .. i - 1 : IsHeader(log[j]))
         => i < Len(log) /\ ~IsHeader(log[i + 1])

LEMMA PieceTidy ==
  ASSUME NEW p \in Seq(Cell), Piece(p, 0), Len(p) # 2
  PROVE  Tidy(p)
<1>1. Len(p) \in Nat /\ (Len(p) # 0 => p[1] = Header)
  BY DEF Piece
<1>2. ASSUME NEW i \in 1 .. Len(p) - 1
      PROVE  Follows(p[i], p[i + 1])
  BY DEF Piece
<1>3. ASSUME NEW i \in 1 .. Len(p), ~IsHeader(p[i]), \A j \in 1 .. i - 1 : IsHeader(p[j])
      PROVE  i < Len(p) /\ ~IsHeader(p[i + 1])
  <2>1. i # 1
    BY <1>1, <1>3 DEF IsHeader, Header
  <2>2. 1 \in 1 .. Len(p) - 1 /\ EndsLine(p[1])
    BY <1>1, <2>1 DEF EndsLine, IsHeader, Header
  <2>3. p[2].half = 1 /\ ~IsHeader(p[2])
    <3>1. Follows(p[1], p[1 + 1])
      BY <1>2, <2>2
    <3> QED
      BY <2>2, <3>1 DEF Follows
  <2>4. i = 2
    <3>1. i > 2 => 2 \in 1 .. i - 1
      BY <1>1
    <3> QED
      BY <1>1, <1>3, <2>1, <2>3, <3>1
  <2>5. 2 \in 1 .. Len(p) - 1 /\ i < Len(p) /\ i \in 1 .. Len(p) - 1
    <3>1. \A n \in Nat : n # 2 /\ 2 \in 1 .. n => n > 2
      OBVIOUS
    <3>2. Len(p) > 2
      BY <1>1, <2>4, <3>1
    <3> QED
      BY <1>1, <2>4, <3>2
  <2>6. Follows(p[i], p[i + 1])
    BY <1>2, <2>5
  <2>7. p[i + 1] = [p[i] EXCEPT !.half = 2]
    BY <2>3, <2>4, <2>6 DEF Follows, EndsLine
  <2>8. p[i] \in Cell
    BY <1>3
  <2>9. p[i + 1].stamp = p[i].stamp
    BY <2>7, <2>8 DEF Cell
  <2> QED
    BY <1>3, <2>5, <2>9 DEF IsHeader
<1> QED
  BY <1>1, <1>2, <1>3 DEF Tidy, Piece

\* A tidy log stays so when another session appends to it.
LEMMA TidyJoin ==
  ASSUME NEW log \in Seq(Cell), NEW p \in Seq(Cell), Tidy(log), Tidy(p)
  PROVE  Tidy(log \o p)
<1> DEFINE j == log \o p
           n == Len(log)
<1>1. /\ j \in Seq(Cell) /\ Len(j) = n + Len(p) /\ n \in Nat /\ Len(p) \in Nat
      /\ \A i \in 1 .. n : j[i] = log[i]
      /\ \A i \in 1 .. Len(p) : j[n + i] = p[i]
      /\ p = <<>> <=> Len(p) = 0
      /\ log = <<>> <=> n = 0
      /\ j = <<>> <=> Len(j) = 0
  BY Concat
<1>2. /\ log # <<>> => log[1] = Header
      /\ \A i \in 1 .. n - 1 : Follows(log[i], log[i + 1]) \/ log[i + 1] = Header
      /\ \A i \in 1 .. n :
           ~IsHeader(log[i]) /\ (\A k \in 1 .. i - 1 : IsHeader(log[k]))
             => i < n /\ ~IsHeader(log[i + 1])
  BY DEF Tidy
<1>3. /\ p # <<>> => p[1] = Header
      /\ \A i \in 1 .. Len(p) - 1 : Follows(p[i], p[i + 1]) \/ p[i + 1] = Header
      /\ \A i \in 1 .. Len(p) :
           ~IsHeader(p[i]) /\ (\A k \in 1 .. i - 1 : IsHeader(p[k]))
             => i < Len(p) /\ ~IsHeader(p[i + 1])
  BY DEF Tidy
<1> HIDE DEF j, n
<1>4. ASSUME j # <<>>
      PROVE  j[1] = Header
  <2>1. CASE n = 0
    <3>1. 1 \in 1 .. Len(p) /\ n + 1 = 1
      BY <1>1, <1>4, <2>1
    <3>2. j[1] = p[1]
      BY <1>1, <3>1
    <3>3. p # <<>>
      BY <1>1, <1>4, <2>1
    <3> QED
      BY <1>3, <3>2, <3>3
  <2>2. CASE n # 0
    <3>1. 1 \in 1 .. n
      BY <1>1, <2>2
    <3> QED
      BY <1>1, <1>2, <2>2, <3>1
  <2> QED
    BY <2>1, <2>2
<1>5. ASSUME NEW x \in 1 .. Len(j) - 1
      PROVE  Follows(j[x], j[x + 1]) \/ j[x + 1] = Header
  <2>1. CASE x < n
    <3>1. x \in 1 .. n - 1 /\ x \in 1 .. n /\ x + 1 \in 1 .. n
      BY <1>1, <2>1
    <3> QED
      BY <1>1, <1>2, <3>1
  <2>2. CASE x = n
    <3>1. 1 \in 1 .. Len(p) /\ p # <<>>
      BY <1>1, <2>2
    <3> QED
      BY <1>1, <1>3, <2>2, <3>1
  <2>3. CASE x > n
    <3> DEFINE i == x - n
    <3>1. i \in 1 .. Len(p) - 1 /\ i \in 1 .. Len(p) /\ i + 1 \in 1 .. Len(p)
          /\ x = n + i /\ x + 1 = n + (i + 1)
      BY <1>1, <2>3
    <3> HIDE DEF i
    <3>2. j[x] = p[i] /\ j[x + 1] = p[i + 1]
      BY <1>1, <3>1
    <3> QED
      BY <1>3, <3>1, <3>2
  <2> QED
    BY <1>1, <2>1, <2>2, <2>3
<1>6. ASSUME NEW x \in 1 .. Len(j), ~IsHeader(j[x]), \A k \in 1 .. x - 1 : IsHeader(j[k])
      PROVE  x < Len(j) /\ ~IsHeader(j[x + 1])
  <2>1. CASE x <= n
    <3>1. x \in 1 .. n /\ \A k \in 1 .. x - 1 : k \in 1 .. n
      BY <1>1, <2>1
    <3>2. ~IsHeader(log[x]) /\ \A k \in 1 .. x - 1 : IsHeader(log[k])
      BY <1>1, <1>6, <3>1
    <3>3. x < n /\ ~IsHeader(log[x + 1])
      BY <1>2, <3>1, <3>2
    <3>4. x + 1 \in 1 .. n /\ x < Len(j)
      BY <1>1, <3>1, <3>3
    <3> QED
      BY <1>1, <3>3, <3>4
  <2>2. CASE x > n
    <3> DEFINE i == x - n
    <3>1. i \in 1 .. Len(p) /\ x = n + i /\ x + 1 = n + (i + 1)
      BY <1>1, <2>2
    <3>2. \A k \in 1 .. i - 1 : k \in 1 .. Len(p) /\ n + k \in 1 .. x - 1
      BY <1>1, <2>2
    <3> HIDE DEF i
    <3>3. ~IsHeader(p[i]) /\ \A k \in 1 .. i - 1 : IsHeader(p[k])
      BY <1>1, <1>6, <3>1, <3>2
    <3>4. i < Len(p) /\ ~IsHeader(p[i + 1])
      BY <1>3, <3>1, <3>3
    <3>5. i + 1 \in 1 .. Len(p) /\ x < Len(j)
      BY <1>1, <3>1, <3>4
    <3> QED
      BY <1>1, <3>1, <3>4, <3>5
  <2> QED
    BY <1>1, <2>1, <2>2
<1> QED
  BY <1>4, <1>5, <1>6 DEF Tidy, j

\* The log is tidy unless a block was flushed twice.
LEMMA LogIsTidy ==
  ASSUME LoggerInv, TornInv, ~Doubled
  PROVE  Tidy(Log)
<1> DEFINE n == Len(ended)
<1>1. /\ n \in Nat /\ DOMAIN ended = 1 .. n
      /\ Parts \in [1 .. n -> Seq(Cell)]
      /\ \A s \in 1 .. n : Parts[s] = ended[s].part /\ ended[s] \in Ending
      /\ Log = FlattenSeq(Parts) \o part
  BY PartsType DEF LoggerInv
<1> HIDE DEF n
<1>2. PICK F \in [0 .. n -> Seq(Cell)] :
         /\ F[0] = <<>>
         /\ \A k \in 0 .. n - 1 : F[k + 1] = F[k] \o Parts[k + 1]
         /\ FlattenSeq(Parts) = F[n]
  BY <1>1, FlattenSteps
<1> DEFINE S == {k \in 0 .. n : Tidy(F[k])}
<1>3. 0 \in S
  <2>1. Len(<<>>) = 0
    OBVIOUS
  <2>2. Tidy(<<>>)
    BY <2>1 DEF Tidy
  <2> QED
    BY <1>1, <1>2, <2>2
<1>4. ASSUME NEW k \in 0 .. n - 1, k \in S
      PROVE  k + 1 \in S
  <2> DEFINE e == ended[k + 1]
  <2>1. k + 1 \in 1 .. n /\ k + 1 \in 0 .. n /\ k \in 0 .. n
    BY <1>1
  <2>2. F[k] \in Seq(Cell) /\ F[k + 1] = F[k] \o Parts[k + 1]
    BY <1>2, <2>1
  <2>3. Parts[k + 1] = e.part /\ e \in Ending /\ e.how # "doubled" /\ Torn(e)
    BY <1>1, <2>1 DEF Doubled, TornInv
  <2> HIDE DEF e
  <2>4. e.part \in Seq(Cell)
    BY <2>3 DEF Ending
  <2>5. Piece(e.part, 0) /\ Len(e.part) # 2
    BY <2>3 DEF Torn
  <2>6. Tidy(e.part) /\ Tidy(F[k])
    BY <1>4, <2>4, <2>5, PieceTidy
  <2>7. Tidy(F[k + 1])
    BY <2>2, <2>3, <2>4, <2>6, TidyJoin
  <2> QED
    BY <2>1, <2>7
<1>5. \A k \in 0 .. n : k \in S
  <2> HIDE DEF S
  <2> QED
    BY <1>1, <1>3, <1>4, UpTo
<1>6. Tidy(F[n]) /\ F[n] \in Seq(Cell)
  BY <1>1, <1>2, <1>5
<1>7. part \in Seq(Cell) /\ owed \in Seq(Cell) /\ Begins(part, owed) /\ Piece(owed, 0)
  BY Leavings DEF LoggerInv, LoggerTypeOK, TornInv, Framed
<1>8. Piece(part, 0) /\ Len(part) # 2
  BY <1>7, PieceBegins, LeavingsTorn
<1>9. Tidy(part)
  BY <1>7, <1>8, PieceTidy
<1> QED
  BY <1>1, <1>2, <1>6, <1>7, <1>9, TidyJoin

\* The records that are samples, and where the lines end that are in a log in
\* whole.
SampleRecords(log) ==
  {k \in 1 .. Cardinality(RecordStarts(log)) : ~Parsed(log, Nth(RecordStarts(log), k)).stray}
LineEnds(log) == {i \in DOMAIN log : EndsLine(log[i]) /\ ~IsHeader(log[i])}

\* A record that is a sample has the stamp of the line that ends in the next
\* cell.
LEMMA SampleIsLine ==
  ASSUME NEW log \in Seq(Cell), NEW x \in RecordStarts(log), ~Parsed(log, x).stray
  PROVE  /\ x \in 1 .. Len(log) /\ x + 1 \in LineEnds(log)
         /\ Parsed(log, x).time = log[x].stamp /\ log[x + 1].stamp = log[x].stamp
<1>1. x < Len(log) /\ log[x].half = 1 /\ log[x + 1] = [log[x] EXCEPT !.half = 2]
  BY ParsedIs
<1>2. x \in 1 .. Len(log) /\ ~IsHeader(log[x]) /\ Len(log) \in Nat
  BY RecordStartsAre
<1>3. log[x] \in Cell
  BY <1>2
<1>4. log[x + 1].half = 2 /\ log[x + 1].stamp = log[x].stamp
  BY <1>1, <1>3 DEF Cell
<1>5. x + 1 \in DOMAIN log
  BY <1>1, <1>2
<1>6. Parsed(log, x).time = log[x].stamp
  BY <1>1 DEF Parsed
<1> QED
  BY <1>2, <1>4, <1>5, <1>6 DEF LineEnds, EndsLine, IsHeader

\* The cell before the end of a line begins a sample.
LEMMA LineIsSample ==
  ASSUME NEW log \in Seq(Cell), Tidy(log), NEW x \in LineEnds(log)
  PROVE  x - 1 \in RecordStarts(log) /\ ~Parsed(log, x - 1).stray
<1>1. /\ x \in 1 .. Len(log) /\ EndsLine(log[x]) /\ ~IsHeader(log[x]) /\ Len(log) \in Nat
  BY DEF LineEnds
<1>2. log[x].half = 2
  BY <1>1 DEF EndsLine
<1>3. log[1] = Header /\ IsHeader(Header)
  <2>1. log # <<>>
    BY <1>1
  <2> QED
    BY <2>1 DEF Tidy, IsHeader, Header
<1>4. x # 1
  BY <1>1, <1>3
<1>5. x - 1 \in 1 .. Len(log) - 1 /\ x - 1 \in 1 .. Len(log) /\ (x - 1) + 1 = x
  BY <1>1, <1>4
<1>6. Follows(log[x - 1], log[x])
  <2>1. Follows(log[x - 1], log[(x - 1) + 1]) \/ log[(x - 1) + 1] = Header
    BY <1>5 DEF Tidy
  <2> QED
    BY <1>1, <1>3, <1>5, <2>1
<1>7. ~EndsLine(log[x - 1]) /\ log[x] = [log[x - 1] EXCEPT !.half = 2]
  BY <1>2, <1>6 DEF Follows
<1>8. log[x - 1].half = 1 /\ ~IsHeader(log[x - 1])
  <2>1. log[x - 1] \in Cell
    BY <1>5
  <2>2. log[x - 1].half \in {1, 2}
    BY <2>1 DEF Cell
  <2> QED
    BY <1>7, <2>2 DEF EndsLine
<1>9. EndsLine(log[(x - 1) - 1])
  <2>1. x - 1 # 1
    BY <1>3, <1>8
  <2>2. (x - 1) - 1 \in 1 .. Len(log) - 1 /\ ((x - 1) - 1) + 1 = x - 1
    BY <1>1, <1>5, <2>1
  <2>3. Follows(log[(x - 1) - 1], log[x - 1])
    <3>1. Follows(log[(x - 1) - 1], log[((x - 1) - 1) + 1]) \/ log[((x - 1) - 1) + 1] = Header
      BY <2>2 DEF Tidy
    <3> QED
      BY <1>3, <1>8, <2>2, <3>1
  <2>4. log[(x - 1) - 1] \in Cell
    BY <2>2
  <2>5. ASSUME ~EndsLine(log[(x - 1) - 1])
        PROVE  log[x - 1].half = 2
    <3>1. log[x - 1] = [log[(x - 1) - 1] EXCEPT !.half = 2]
      BY <2>3, <2>5 DEF Follows
    <3> QED
      BY <2>4, <3>1 DEF Cell
  <2> QED
    BY <1>8, <2>5
<1>10. x - 1 \in RecordStarts(log)
  BY <1>5, <1>8, <1>9, RecordStartsAre
<1>11. x - 1 < Len(log)
  BY <1>1
<1>12. ~Parsed(log, x - 1).stray
  BY <1>5, <1>7, <1>8, <1>11, ParsedIs
<1> QED
  BY <1>10, <1>12

\* The first record is a sample, if there is one.
LEMMA FirstIsSample ==
  ASSUME NEW log \in Seq(Cell), Tidy(log), RecordStarts(log) # {}
  PROVE  1 \in SampleRecords(log)
<1> DEFINE R == RecordStarts(log)
           Y == {i \in 1 .. Len(log) : ~IsHeader(log[i])}
<1>1. \A i : i \in R <=> /\ i \in 1 .. Len(log) /\ (i = 1 \/ EndsLine(log[i - 1]))
                         /\ ~IsHeader(log[i])
  BY RecordStartsAre
<1>2. R \subseteq Nat /\ IsFiniteSet(R) /\ R # {} /\ R \subseteq Y
  BY <1>1, RecordStartsAre
<1>3. Y \subseteq Nat /\ Y # {}
  BY <1>2
<1> HIDE DEF R
<1>4. PICK y \in Y : \A k \in Y : y <= k
  <2> HIDE DEF Y
  <2> QED
    BY <1>3, LeastNumber
<1>5. y \in 1 .. Len(log) /\ ~IsHeader(log[y]) /\ Len(log) \in Nat
  OBVIOUS
<1>6. \A j \in 1 .. y - 1 : IsHeader(log[j])
  <2> TAKE j \in 1 .. y - 1
  <2>1. j \in 1 .. Len(log) /\ ~(y <= j)
    BY <1>5
  <2> QED
    BY <1>4, <2>1
<1>7. y < Len(log) /\ ~IsHeader(log[y + 1])
  BY <1>5, <1>6 DEF Tidy
<1>8. log[1] = Header /\ IsHeader(Header)
  <2>1. log # <<>>
    BY <1>5
  <2> QED
    BY <2>1 DEF Tidy, IsHeader, Header
<1>9. y # 1 /\ y - 1 \in 1 .. y - 1 /\ y - 1 \in 1 .. Len(log) - 1 /\ (y - 1) + 1 = y
  BY <1>5, <1>7, <1>8
<1>10. EndsLine(log[y - 1])
  BY <1>6, <1>9 DEF EndsLine
<1>11. log[y].half = 1
  <2>1. Follows(log[y - 1], log[(y - 1) + 1]) \/ log[(y - 1) + 1] = Header
    BY <1>9 DEF Tidy
  <2> QED
    BY <1>5, <1>8, <1>9, <1>10, <2>1 DEF Follows
<1>12. log[y + 1] = [log[y] EXCEPT !.half = 2]
  <2>1. y \in 1 .. Len(log) - 1
    BY <1>5, <1>7
  <2>2. Follows(log[y], log[y + 1]) \/ log[y + 1] = Header
    BY <2>1 DEF Tidy
  <2> QED
    BY <1>5, <1>7, <1>8, <1>11, <2>2 DEF Follows, EndsLine
<1>13. ~Parsed(log, y).stray
  BY <1>7, <1>11, <1>12, ParsedIs
<1>14. y \in R
  BY <1>1, <1>5, <1>10
<1>15. Rank(R, y) = 0
  <2>1. \A j \in R : ~(j < y)
    <3> TAKE j \in R
    <3>1. j \in Y /\ j \in Nat /\ y \in Nat
      BY <1>2, <1>3
    <3> HIDE DEF Y
    <3> QED
      BY <1>4, <3>1
  <2>2. {j \in R : j < y} = {}
    BY <2>1
  <2> QED
    BY <2>2, FS_EmptySet DEF Rank
<1>16. 1 \in 1 .. Cardinality(R) /\ Nth(R, 1) = y
  <2>1. 0 + 1 \in 1 .. Cardinality(R) /\ Nth(R, 0 + 1) = y
    BY <1>2, <1>14, <1>15, NthIsOfRank
  <2> QED
    BY <2>1
<1> QED
  BY <1>13, <1>16 DEF SampleRecords, R

\* The samples are the whole lines, in order.
LEMMA SamplesAreLines ==
  ASSUME NEW log \in Seq(Cell), Tidy(log)
  PROVE  /\ Cardinality(SampleRecords(log)) = Cardinality(LineEnds(log))
         /\ \A n \in 1 .. Cardinality(SampleRecords(log)) :
              /\ Nth(SampleRecords(log), n) \in SampleRecords(log)
              /\ Nth(LineEnds(log), n) =
                   Nth(RecordStarts(log), Nth(SampleRecords(log), n)) + 1
<1> DEFINE R == RecordStarts(log)
           K == SampleRecords(log)
           T == LineEnds(log)
           h == [k \in K |-> Nth(R, k) + 1]
<1>1. R \subseteq Nat /\ IsFiniteSet(R)
  BY RecordStartsAre
<1>2. K \in SUBSET (1 .. Cardinality(R)) /\ \A k \in K : ~Parsed(log, Nth(R, k)).stray
  BY DEF SampleRecords
<1>3. Cardinality(R) \in Nat /\ IsFiniteSet(1 .. Cardinality(R))
  BY <1>1, FS_CardinalityType, FS_Interval
<1>4. IsFiniteSet(K) /\ K \subseteq Nat
  <2> HIDE DEF K
  <2>1. IsFiniteSet(K)
    BY <1>2, <1>3, FS_Subset
  <2> QED
    BY <1>2, <1>3, <2>1
<1>5. T \subseteq Nat
  BY DEF LineEnds
<1>6. ASSUME NEW k \in K
      PROVE  Nth(R, k) \in R /\ Nth(R, k) \in Nat /\ Nth(R, k) + 1 \in T
  <2> HIDE DEF K, T, h, R
  <2>1. Nth(R, k) \in R
    BY <1>1, <1>2, NthIsOfRank
  <2>2. ~Parsed(log, Nth(R, k)).stray
    BY <1>2
  <2>3. Nth(R, k) + 1 \in T
    BY <2>1, <2>2, SampleIsLine DEF R, T
  <2> QED
    BY <1>1, <2>1, <2>3
<1>7. h \in [K -> T]
  <2>1. \A k \in K : Nth(R, k) + 1 \in T
    BY <1>6
  <2> HIDE DEF K, T, R
  <2> QED
    BY <2>1
<1>8. \A i, k \in K : i < k => h[i] < h[k]
  <2> HIDE DEF K, T, R
  <2> SUFFICES ASSUME NEW i \in K, NEW k \in K, i < k
               PROVE  h[i] < h[k]
    OBVIOUS
  <2>1. Nth(R, i) < Nth(R, k)
    BY <1>1, <1>2, NthGrows
  <2>2. Nth(R, i) + 1 < Nth(R, k) + 1
    BY <1>6, <2>1
  <2> QED
    BY <2>2
<1>9. \A t \in T : \E k \in K : h[k] = t
  <2> SUFFICES ASSUME NEW t \in T
               PROVE  \E k \in K : h[k] = t
    OBVIOUS
  <2> DEFINE k == Rank(R, t - 1) + 1
  <2>1. t - 1 \in R /\ ~Parsed(log, t - 1).stray
    BY LineIsSample
  <2>2. k \in 1 .. Cardinality(R) /\ Nth(R, k) = t - 1
    <3> HIDE DEF R
    <3> QED
      BY <1>1, <2>1, NthIsOfRank
  <2> HIDE DEF k
  <2>3. k \in K
    BY <2>1, <2>2 DEF SampleRecords
  <2>4. t \in Nat
    BY <1>5
  <2>5. h[k] = (t - 1) + 1
    BY <2>2, <2>3
  <2>6. h[k] = t
    <3> HIDE DEF h
    <3> QED
      BY <2>4, <2>5
  <2> QED
    BY <2>3, <2>6
<1> HIDE DEF h
<1>10. /\ Cardinality(T) = Cardinality(K)
       /\ \A n \in 1 .. Cardinality(K) : Nth(T, n) = h[Nth(K, n)]
  <2> HIDE DEF K, T, R
  <2>1. Moves(h, K, T)
    BY <1>7, <1>8, <1>9 DEF Moves
  <2> QED
    BY <1>4, <1>5, <2>1, NthMoves
<1>11. \A n \in 1 .. Cardinality(K) : Nth(K, n) \in K
  <2> HIDE DEF K
  <2> QED
    BY <1>4, NthIsOfRank
<1> QED
  BY <1>10, <1>11 DEF h

-----------------------------------------------------------------------------
(* The rewritten log.                                                       *)

\* A session of the logger leaves a log that is torn at its end, if it was
\* killed or cut, or where a block was flushed twice, and nowhere else; and the
\* first line after its header is whole (load_cell_logger.c 20-49, 101-108).
THEOREM TornInvHolds == RecordingSpec => [](RecordingInv /\ TornInv)
<1>1. RecordingInit => RecordingInv /\ TornInv
  BY ClientInitInv, LoggerInitInv, TornInitInv DEF RecordingInit, RecordingInv
<1>2. RecordingInv /\ TornInv /\ [RecordingNext]_recordingVars => (RecordingInv /\ TornInv)'
  BY RecordingStep, TornStep
<1> QED
  BY <1>1, <1>2, PTL DEF RecordingSpec

\* What is written is what is read, with the first time taken away.
LEMMA RewrittenIs ==
  ASSUME NEW log \in Seq(Cell)
  PROVE  /\ Cardinality(RecordStarts(log)) \in Nat
         /\ DOMAIN Rewritten(log) = 1 .. Cardinality(RecordStarts(log))
         /\ \A k \in 1 .. Cardinality(RecordStarts(log)) :
              /\ Rewritten(log)[k].stray = Parsed(log, Nth(RecordStarts(log), k)).stray
              /\ Rewritten(log)[k].time =
                   Parsed(log, Nth(RecordStarts(log), k)).time
                     - Parsed(log, Nth(RecordStarts(log), 1)).time
         /\ {k \in DOMAIN Rewritten(log) : ~Rewritten(log)[k].stray} = SampleRecords(log)
<1> DEFINE R == RecordStarts(log)
           n == Cardinality(R)
           p == [k \in 1 .. n |-> Parsed(log, Nth(R, k))]
           w == [k \in 1 .. n |-> [p[k] EXCEPT !.time = @ - p[1].time]]
<1>1. n \in Nat
  BY RecordStartsAre, FS_CardinalityType
<1>2. Rewritten(log) = w
  BY DEF Rewritten, Records, RecordsAt
<1>3. \A i : DOMAIN Parsed(log, i) = {"time", "stray"}
             /\ Parsed(log, i) = [time |-> Parsed(log, i).time, stray |-> Parsed(log, i).stray]
  BY DEF Parsed
<1>4. ASSUME NEW k \in 1 .. n
      PROVE  /\ w[k].stray = Parsed(log, Nth(R, k)).stray
             /\ w[k].time = Parsed(log, Nth(R, k)).time - Parsed(log, Nth(R, 1)).time
  <2>1. 1 \in 1 .. n /\ k \in 1 .. n
    BY <1>1
  <2>2. p[k] = Parsed(log, Nth(R, k)) /\ p[1] = Parsed(log, Nth(R, 1))
    BY <2>1
  <2>3. w[k] = [p[k] EXCEPT !.time = p[k].time - p[1].time]
    BY <2>1
  <2> HIDE DEF p, w, R
  <2>4. w[k].stray = p[k].stray /\ w[k].time = p[k].time - p[1].time
    BY <1>3, <2>2, <2>3
  <2> QED
    BY <2>2, <2>4
<1>5. DOMAIN w = 1 .. n
  OBVIOUS
<1>6. {k \in DOMAIN w : ~w[k].stray} = SampleRecords(log)
  <2> HIDE DEF w, p
  <2> QED
    BY <1>4, <1>5 DEF SampleRecords
<1> HIDE DEF w, p
<1> QED
  BY <1>1, <1>2, <1>4, <1>5, <1>6

\* No more records are strays than places begin one.
LEMMA StrayRecords ==
  ASSUME NEW log \in Seq(Cell)
  PROVE  LET strays == {k \in DOMAIN Rewritten(log) : Rewritten(log)[k].stray}
         IN Cardinality(strays) \in Nat /\ Cardinality(strays) <= Cardinality(Strays(log))
<1> DEFINE R == RecordStarts(log)
           K == {k \in DOMAIN Rewritten(log) : Rewritten(log)[k].stray}
           at == [k \in K |-> Nth(R, k)]
<1>1. R \subseteq Nat /\ IsFiniteSet(R) /\ Cardinality(R) \in Nat
  BY RecordStartsAre, FS_CardinalityType
<1>2. K \in SUBSET (1 .. Cardinality(R)) /\ \A k \in K : Parsed(log, Nth(R, k)).stray
  BY RewrittenIs
<1> HIDE DEF K, R
<1>3. IsFiniteSet(K) /\ Cardinality(K) \in Nat
  <2>1. IsFiniteSet(1 .. Cardinality(R))
    BY <1>1, FS_Interval
  <2>2. IsFiniteSet(K)
    BY <1>2, <2>1, FS_Subset
  <2> QED
    BY <2>2, FS_CardinalityType
<1>4. \A k \in K : Nth(R, k) \in Strays(log)
  <2> TAKE k \in K
  <2>1. Nth(R, k) \in R
    BY <1>1, <1>2, NthIsOfRank
  <2> QED
    BY <1>2, <2>1 DEF Strays, R
<1>5. \A j, k \in K : Nth(R, j) = Nth(R, k) => j = k
  <2> TAKE j, k \in K
  <2>1. Rank(R, Nth(R, j)) = j - 1 /\ Rank(R, Nth(R, k)) = k - 1
    BY <1>1, <1>2, NthIsOfRank
  <2>2. j \in Int /\ k \in Int
    BY <1>2
  <2> QED
    BY <2>1, <2>2
<1>6. at \in Injection(K, Strays(log))
  <2>1. at \in [K -> Strays(log)]
    BY <1>4
  <2>2. \A j, k \in K : at[j] = at[k] => j = k
    BY <1>5
  <2> QED
    BY <2>1, <2>2 DEF Injection, IsInjective
<1>7. IsFiniteSet(Strays(log))
  BY StraysFinite
<1> HIDE DEF at
<1>8. Cardinality(K) <= Cardinality(Strays(log))
  BY <1>6, <1>7, FS_Injection
<1> QED
  BY <1>3, <1>8 DEF K

\* output_rewrite takes for a sample what is none at most once for each
\* session of the logger that was cut or still runs, and once more for one
\* that was flushed twice (output_rewrite.c 30-59, load_cell_logger.c 20-49).
THEOREM StraysAreFew == RecordingSpec => []OneStrayPerCut
<1>1. RecordingInv /\ TornInv => OneStrayPerCut
  <2> SUFFICES ASSUME RecordingInv, TornInv
               PROVE  OneStrayPerCut
    OBVIOUS
  <2> DEFINE K == {k \in DOMAIN Rewritten(Log) : Rewritten(Log)[k].stray}
             c == {s \in DOMAIN ended : ended[s].how \in {"cut", "killed", "doubled"}}
             d == {s \in DOMAIN ended : ended[s].how \in {"doubled"}}
             r == IF lpc = "off" THEN 0 ELSE 1
  <2>1. LoggerInv
    BY DEF RecordingInv
  <2>2. Log \in Seq(Cell)
    BY <2>1, LogStrays
  <2>3. DOMAIN ended = 1 .. Len(ended) /\ Len(ended) \in Nat
    BY <2>1, PartsType DEF LoggerInv
  <2>4. Cardinality(c) = Endings(Len(ended), {"cut", "killed", "doubled"})
        /\ Cardinality(d) = Endings(Len(ended), {"doubled"})
    BY <2>3 DEF Endings
  <2>5. Cardinality(Strays(Log)) <= Cardinality(c) + Cardinality(d) + r
    <3> HIDE DEF c, d
    <3> QED
      BY <2>1, <2>4, LogStrays
  <2>6. Cardinality(K) \in Nat /\ Cardinality(K) <= Cardinality(Strays(Log))
    BY <2>2, StrayRecords
  <2>7. Cardinality(Strays(Log)) \in Nat
    BY <2>2, StraysFinite
  <2>8. Cardinality(c) \in Nat /\ Cardinality(d) \in Nat
    <3> HIDE DEF c, d
    <3> QED
      BY <2>3, <2>4, EndingsStep
  <2>9. Cardinality(K) <= Cardinality(c) + Cardinality(d) + r
    <3> HIDE DEF c, d, K
    <3> QED
      BY <2>5, <2>6, <2>7, <2>8
  <2> QED
    BY <2>9, Zenon DEF OneStrayPerCut
<1> QED
  BY <1>1, TornInvHolds, PTL

\* Every line that is in the log in whole is found, in order, with its time
\* from that of the first, whatever the sessions before and after it left,
\* if none was flushed twice (output_rewrite.c 30-59).
THEOREM SamplesAreKept == RecordingSpec => []RewriteKeepsSamples
<1>1. RecordingInv /\ TornInv => RewriteKeepsSamples
  <2> SUFFICES ASSUME RecordingInv, TornInv, ~Doubled
               PROVE  RewriteKeepsSamples
    BY DEF RewriteKeepsSamples
  <2> DEFINE R == RecordStarts(Log)
             K == SampleRecords(Log)
             w == Rewritten(Log)
  <2>1. LoggerInv
    BY DEF RecordingInv
  <2>2. Log \in Seq(Cell) /\ Tidy(Log)
    BY <2>1, LogStrays, LogIsTidy
  <2>3. Complete = LineEnds(Log)
    BY DEF Complete, LineEnds
  <2>4. {k \in DOMAIN w : ~w[k].stray} = K
    BY <2>2, RewrittenIs
  <2>5. Cardinality(K) = Cardinality(Complete)
    BY <2>2, <2>3, SamplesAreLines
  <2>6. ASSUME NEW n \in 1 .. Cardinality(K)
        PROVE  w[Nth(K, n)].time = Log[Nth(Complete, n)].stamp - Log[Nth(Complete, 1)].stamp
    <3>1. R \subseteq Nat /\ IsFiniteSet(R) /\ Cardinality(R) \in Nat
      BY <2>2, RecordStartsAre, FS_CardinalityType
    <3>2. K \in SUBSET (1 .. Cardinality(R)) /\ \A k \in K : ~Parsed(Log, Nth(R, k)).stray
      BY DEF SampleRecords
    <3>3. IsFiniteSet(K) /\ K \subseteq Nat /\ Cardinality(K) \in Nat
      <4> HIDE DEF K, R
      <4>1. IsFiniteSet(1 .. Cardinality(R))
        BY <3>1, FS_Interval
      <4>2. IsFiniteSet(K)
        BY <3>2, <4>1, FS_Subset
      <4> QED
        BY <3>1, <3>2, <4>2, FS_CardinalityType
    <3> HIDE DEF K
    <3>4. 1 \in 1 .. Cardinality(K)
      BY <3>3
    <3>5. ASSUME NEW k \in K
          PROVE  Parsed(Log, Nth(R, k)).time = Log[Nth(R, k) + 1].stamp
      <4> HIDE DEF R
      <4>1. Nth(R, k) \in R /\ ~Parsed(Log, Nth(R, k)).stray
        BY <3>1, <3>2, NthIsOfRank
      <4> QED
        BY <2>2, <4>1, SampleIsLine DEF R
    <3>6. \A m \in 1 .. Cardinality(K) :
            Nth(K, m) \in K /\ Nth(Complete, m) = Nth(R, Nth(K, m)) + 1
      BY <2>2, <2>3, SamplesAreLines DEF K
    <3>7. 1 \in K /\ Nth(K, 1) = 1
      <4>1. R # {}
        <5>1. Nth(K, 1) \in 1 .. Cardinality(R)
          BY <3>2, <3>4, <3>6
        <5> QED
          BY <5>1, FS_EmptySet
      <4>2. 1 \in K
        BY <2>2, <4>1, FirstIsSample DEF K
      <4>3. {j \in K : j < 1} = {}
        <5>1. \A j \in 1 .. Cardinality(R) : ~(j < 1)
          BY <3>1
        <5> QED
          BY <3>2, <5>1
      <4>4. Rank(K, 1) = 0
        BY <4>3, FS_EmptySet DEF Rank
      <4>5. Nth(K, 0 + 1) = 1
        BY <3>3, <4>2, <4>4, NthIsOfRank
      <4> QED
        BY <4>2, <4>5
    <3>8. Nth(K, n) \in K /\ Nth(K, n) \in 1 .. Cardinality(R)
      BY <3>2, <3>6
    <3>9. w[Nth(K, n)].time = Parsed(Log, Nth(R, Nth(K, n))).time - Parsed(Log, Nth(R, 1)).time
      BY <2>2, <3>8, RewrittenIs
    <3>10. Log[Nth(Complete, n)].stamp = Parsed(Log, Nth(R, Nth(K, n))).time
      BY <3>5, <3>6, <3>8
    <3>11. Log[Nth(Complete, 1)].stamp = Parsed(Log, Nth(R, 1)).time
      BY <3>4, <3>5, <3>6, <3>7
    <3> QED
      BY <3>9, <3>10, <3>11
  <2> HIDE DEF K, w
  <2> QED
    BY <2>4, <2>5, <2>6, Zenon DEF RewriteKeepsSamples, w
<1> QED
  BY <1>1, TornInvHolds, PTL
=============================================================================
