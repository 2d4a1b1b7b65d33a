------------------------------- MODULE Logger -------------------------------
(***************************************************************************)
(* load_cell_logger.c: lines are appended to a log, through the buffer of  *)
(* stdio, until SIGINT, whose handler flushes and closes the log wherever  *)
(* the program happens to be.  A line is two cells: the digits of its time *)
(* but for the last one, and the rest up to the newline; the two header    *)
(* lines of a session are one cell, as they are in the buffer together     *)
(* before anything is flushed.  The disk does not fill up.                 *)
(***************************************************************************)
EXTENDS Naturals, Sequences

CONSTANTS
  Limit,        \* samples in a batch
  BufLen,       \* cells that the buffer of stdio holds
  MaxLog        \* bound: sessions of the logger on one log

ASSUME LoggerAssumption == Limit \in Nat /\ BufLen \in Nat \ {0} /\ MaxLog \in Nat

VARIABLES
  lpc,      \* "off", or where main() is: "handler", "open" or "cli"
  part,     \* the cells that this session has in the log
  buf,      \* the cells in the buffer
  todo,     \* what the running fwrite() and the lines after it have to put
  written,  \* write() has taken the buffer, which has not been emptied yet
  owed,     \* history: the cells this session was to put into the log
  ended     \* the sessions before, what each has in the log and was to have,
            \* and how it ended

loggerVars == <<lpc, part, buf, todo, written, owed, ended>>

Header == [stamp |-> 0, half |-> 1]
Cell == [stamp : Nat, half : {1, 2}]

\* The cells of the lines of a batch: `number` is which, from 1, and its
\* samples are stamped one after the other, from 1 over all batches.
Lines(number) ==
  [i \in 1 .. 2 * Limit |->
     [stamp |-> (number - 1) * Limit + (i + 1) \div 2, half |-> 2 - (i % 2)]]

LoggerTypeOK ==
  /\ lpc \in {"off", "handler", "open", "cli"}
  /\ part \in Seq(Cell) /\ buf \in Seq(Cell) /\ todo \in Seq(Cell) /\ owed \in Seq(Cell)
  /\ Len(buf) \in 0 .. BufLen
  /\ written \in BOOLEAN
  /\ ended \in Seq([part : Seq(Cell), owed : Seq(Cell),
                    how : {"failed", "saved", "cut", "doubled", "killed"}])

LoggerInit ==
  /\ lpc = "off"
  /\ part = <<>> /\ buf = <<>> /\ todo = <<>> /\ owed = <<>>
  /\ written = FALSE
  /\ ended = <<>>

-----------------------------------------------------------------------------
\* main() up to sigaction(), with arguments it accepts.
StartLogger ==
  /\ lpc = "off" /\ Len(ended) < MaxLog
  /\ lpc' = "handler"
  /\ UNCHANGED <<part, buf, todo, written, owed, ended>>

\* The process ends with p in the log.
EndLogger(p, how) ==
  /\ lpc' = "off"
  /\ part' = <<>> /\ buf' = <<>> /\ todo' = <<>> /\ owed' = <<>>
  /\ written' = FALSE
  /\ ended' = Append(ended, [part |-> p, owed |-> owed, how |-> how])

\* fopen() with "a"; after that the program ends if fopen() failed or the
\* constants of -k are not as expected.
OpenLog ==
  /\ lpc = "handler"
  /\ \/ lpc' = "open" /\ UNCHANGED <<part, buf, todo, written, owed, ended>>
     \/ EndLogger(part, "failed")

\* MUTANT: only the first session on a log writes the header.
WriteHeaderOnce ==
  /\ lpc = "open" /\ lpc' = "cli"
  /\ buf' = IF ended = <<>> THEN <<Header>> ELSE <<>>
  /\ owed' = buf'
  /\ UNCHANGED <<part, todo, written, ended>>

\* The two comment lines.
WriteHeader ==
  /\ lpc = "open" /\ lpc' = "cli"
  /\ buf' = <<Header>>
  /\ owed' = <<Header>>
  /\ UNCHANGED <<part, todo, written, ended>>

\* MUTANT: the loop over the batch starts at its second sample.
write_callback_batchFromOne(number) ==
  /\ lpc = "cli" /\ todo = <<>>
  /\ todo' = SubSeq(Lines(number), 3, 2 * Limit)
  /\ owed' = owed \o Lines(number)
  /\ UNCHANGED <<lpc, part, buf, written, ended>>

\* write_callback_batch() is called with a batch.
write_callback_batch(number) ==
  /\ lpc = "cli" /\ todo = <<>>
  /\ todo' = Lines(number)
  /\ owed' = owed \o Lines(number)
  /\ UNCHANGED <<lpc, part, buf, written, ended>>

\* What the running fwrite() still has to put, and the buffer has room for.
Fitting == LET call == IF Head(todo).half = 1 THEN 2 ELSE 1
               room == BufLen - Len(buf)
           IN IF call <= room THEN call ELSE room

\* fwrite() puts into the buffer what it has room for.
Fwrite ==
  /\ todo # <<>> /\ ~written /\ Len(buf) < BufLen
  /\ buf' = buf \o SubSeq(todo, 1, Fitting)
  /\ todo' = SubSeq(todo, Fitting + 1, Len(todo))
  /\ UNCHANGED <<lpc, part, written, owed, ended>>

\* It has none: the buffer goes to the log ...
FlushBuffer ==
  /\ todo # <<>> /\ ~written /\ Len(buf) = BufLen
  /\ part' = part \o buf
  /\ written' = TRUE
  /\ UNCHANGED <<lpc, buf, todo, owed, ended>>

\* ... and is emptied.
EmptyBuffer ==
  /\ written
  /\ buf' = <<>>
  /\ written' = FALSE
  /\ UNCHANGED <<lpc, part, todo, owed, ended>>

\* The worker has returned, and main() returns: exit() flushes.
LoggerReturns ==
  /\ lpc = "cli" /\ todo = <<>>
  /\ EndLogger(part \o buf, "failed")

\* MUTANT: the handler does not close the log.
handlerNoClose ==
  /\ lpc # "off"
  /\ EndLogger(part, IF lpc = "handler" THEN "failed" ELSE
                     IF written THEN "doubled" ELSE IF todo # <<>> THEN "cut" ELSE "saved")

\* SIGINT: handler() flushes the buffer, also one that write() has just
\* taken, and ends the program; a log that is not open yet is a null pointer
\* to it.
handler ==
  /\ lpc # "off"
  /\ EndLogger(part \o buf, IF lpc = "handler" THEN "failed" ELSE
                            IF written THEN "doubled" ELSE IF todo # <<>> THEN "cut" ELSE "saved")

\* Any other signal that ends the program: the buffer is gone.
KillLogger ==
  /\ lpc # "off"
  /\ EndLogger(part, "killed")

LoggerNext ==
  \/ StartLogger \/ OpenLog \/ WriteHeader
  \/ \E number \in Nat : write_callback_batch(number)
  \/ Fwrite \/ FlushBuffer \/ EmptyBuffer
  \/ LoggerReturns \/ handler \/ KillLogger

LoggerSpec == LoggerInit /\ [][LoggerNext]_loggerVars

-----------------------------------------------------------------------------
Begins(s, t) == \E n \in 0 .. Len(t) : s = SubSeq(t, 1, n)

\* Whatever interrupts the logger, a session has in the log the lines of the
\* batches it was called back with, in order, each once, up to some place in
\* a line; but for one that was interrupted between the write() of a flush
\* and the emptying of the buffer.
LogIsPrefix ==
  /\ Begins(part, owed)
  /\ \A s \in DOMAIN ended :
       ended[s].how # "doubled" => Begins(ended[s].part, ended[s].owed)

\* A session that SIGINT ended while the logger waited for a datagram has
\* all of them in the log (handler, 20-26).
InterruptSavesAll ==
  \A s \in DOMAIN ended : ended[s].how = "saved" => ended[s].part = ended[s].owed
=============================================================================
