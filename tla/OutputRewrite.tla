---------------------------- MODULE OutputRewrite ----------------------------
(***************************************************************************)
(* output_rewrite.c: the times of a log are rewritten so that the first is *)
(* zero.  The log is given as the cells of module Logger.                  *)
(***************************************************************************)
EXTENDS Integers, Sequences, FiniteSets

\* The header lines end with a newline, and so does the second cell of a line.
IsHeader(cell) == cell.stamp = 0
EndsLine(cell) == IsHeader(cell) \/ cell.half = 2

\* Of a set of places, the k-th in their order.
Nth(S, k) == CHOOSE i \in S : Cardinality({j \in S : j < i}) = k - 1

\* Where the lines that fgets() returns begin.
LineStarts(log) == {i \in DOMAIN log : i = 1 \/ EndsLine(log[i - 1])}

\* What strtol() and strtod() make of a line that begins at i: a sample, or,
\* when its two cells are not of one line, a number that is none, whose time
\* is some number of the digits that are there and stands as 0.
Parsed(log, i) ==
  IF i < Len(log) /\ log[i].half = 1 /\ log[i + 1] = [log[i] EXCEPT !.half = 2]
    THEN [time |-> log[i].stamp, stray |-> FALSE]
    ELSE [time |-> 0, stray |-> TRUE]

\* The records of the lines that begin at `starts`, in the order of the file.
RecordsAt(log, starts) ==
  [k \in 1 .. Cardinality(starts) |-> Parsed(log, Nth(starts, k))]

\* A line whose first character is no digit is skipped.
RecordStarts(log) == {i \in LineStarts(log) : ~IsHeader(log[i])}

\* MUTANT: no line is skipped.
RecordsUnskipped(log) == RecordsAt(log, LineStarts(log))

\* data_vec
Records(log) == RecordsAt(log, RecordStarts(log))

\* What the program appends to its output: nothing if there is no record.
Rewritten(log) ==
  LET data_vec == Records(log)
  IN [k \in DOMAIN data_vec |->
        [data_vec[k] EXCEPT !.time = @ - data_vec[1].time]]
=============================================================================
