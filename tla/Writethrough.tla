---------------------------- MODULE Writethrough ----------------------------
(***************************************************************************)
(* The file of the server's -w option.  Every session of the server puts a *)
(* mark at its end, a structure of nothing but 0xff bytes, and then one    *)
(* record per sample.  Structures are multiples of 16 bytes, and so are    *)
(* the blocks in which a disk fills up and a file system keeps what it has *)
(* when the power fails: the file is a sequence of cells of 16 bytes.  No  *)
(* cell of a record looks like one of the mark, as each holds a time or a  *)
(* number that is not all ones.                                            *)
(***************************************************************************)
EXTENDS Integers, Sequences

CONSTANTS
  MarkLen,      \* sizeof(output_data), in cells
  RecordLen,    \* sizeof(output_minimal) or sizeof(output_data), in cells
  MaxCells,     \* bound: cells in the file
  MaxSamples,   \* bound: samples in one session
  MaxSessions   \* bound: sessions

ASSUME WritethroughAssumption ==
  /\ MarkLen \in Nat \ {0} /\ RecordLen \in Nat \ {0}
  /\ MaxCells \in Nat /\ MaxSamples \in Nat /\ MaxSessions \in Nat

VARIABLES
  file,     \* the cells of the file as the server would read them
  synced,   \* so many of them are on the disk
  wpc,      \* "closed", "marking" or "recording"
  session,  \* sessions begun so far
  count,    \* samples of this session so far
  torn      \* history: the sessions in which a write of a record was short

fileVars == <<file, synced, wpc, session, count, torn>>

Mark == [mark |-> TRUE]
\* Part p, from 0, of the record of sample n, from 0, in session s.
Cell(s, n, p) == [session |-> s, sample |-> n, part |-> p]
IsMark(c) == c = Mark

Marks(n) == [i \in 1 .. n |-> Mark]
Record(s, n, len) == [i \in 1 .. len |-> Cell(s, n, i - 1)]

Cells == [session : Nat, sample : Nat, part : 0 .. RecordLen - 1] \cup {Mark}

FileTypeOK ==
  /\ file \in Seq(Cells)
  /\ synced \in 0 .. Len(file)
  /\ wpc \in {"closed", "marking", "recording"}
  /\ session \in Nat /\ count \in Nat
  /\ torn \subseteq 1 .. session

FileInit ==
  /\ file = <<>> /\ synced = 0
  /\ wpc = "closed"
  /\ session = 0 /\ count = 0
  /\ torn = {}

\* MUTANT: open() with O_TRUNC in place of O_APPEND.
OpenFileTruncates ==
  /\ wpc = "closed"
  /\ session < MaxSessions
  /\ file' = <<>> /\ synced' = 0
  /\ wpc' = "marking"
  /\ session' = session + 1
  /\ count' = 0
  /\ UNCHANGED torn

\* open() with O_CREAT and O_APPEND.
OpenFile ==
  /\ wpc = "closed"
  /\ session < MaxSessions
  /\ wpc' = "marking"
  /\ session' = session + 1
  /\ count' = 0
  /\ UNCHANGED <<file, synced, torn>>

\* MUTANT: a short write of the mark is not noticed.
WriteMarkUnchecked ==
  /\ wpc = "marking"
  /\ Len(file) < MaxCells
  /\ \E n \in 0 .. MarkLen : file' = file \o Marks(n)
  /\ wpc' = "recording"
  /\ UNCHANGED <<synced, session, count, torn>>

\* write() of the mark, the program exits if that is short.
WriteMark ==
  /\ wpc = "marking"
  /\ Len(file) < MaxCells
  /\ \E n \in 0 .. MarkLen :
       /\ file' = file \o Marks(n)
       /\ wpc' = IF n = MarkLen THEN "recording" ELSE "closed"
  /\ UNCHANGED <<synced, session, count, torn>>

\* write() of a record, whose result is not looked at.
WriteRecord ==
  /\ wpc = "recording"
  /\ Len(file) < MaxCells /\ count < MaxSamples
  /\ \E n \in 0 .. RecordLen :
       /\ file' = file \o Record(session, count, n)
       /\ torn' = IF n < RecordLen THEN torn \cup {session} ELSE torn
  /\ count' = count + 1
  /\ UNCHANGED <<synced, wpc, session>>

\* close(), or the end of the process.
CloseFile ==
  /\ wpc # "closed"
  /\ wpc' = "closed"
  /\ UNCHANGED <<file, synced, session, count, torn>>

\* The kernel writes back more of the file.
Flush ==
  /\ synced < Len(file)
  /\ synced' \in synced + 1 .. Len(file)
  /\ UNCHANGED <<file, wpc, session, count, torn>>

\* The power fails: of what has not been written back, anything from
\* nothing to everything is there afterwards, up to some place.
FilePowerFailure ==
  /\ \E n \in synced .. Len(file) :
       file' = SubSeq(file, 1, n) /\ synced' = n
  /\ wpc' = "closed"
  /\ UNCHANGED <<session, count, torn>>

FileNext ==
  \/ OpenFile \/ WriteMark \/ WriteRecord \/ CloseFile
  \/ Flush \/ FilePowerFailure

FileSpec == FileInit /\ [][FileNext]_fileVars

-----------------------------------------------------------------------------
(* What a reader of the file finds.                                         *)

\* The cell before c in a session whose writes were complete.
Predecessor(c) ==
  IF c.part = 0 THEN Cell(c.session, c.sample - 1, RecordLen - 1)
                ELSE Cell(c.session, c.sample, c.part - 1)

\* A complete mark ends just before place q.
MarkedAt(q) == MarkLen < q /\ \A i \in 1 .. MarkLen : IsMark(file[q - i])

\* "This will be useful for resyncing if data is lost" (271-275).  Whatever
\* earlier sessions suffered, a reader that looks for a complete mark finds
\* the records of each session behind it: no record follows anything but a
\* mark or a record of its own session, and in a session without a short
\* write the first one is that of the first sample, each next one that of
\* the next sample, and all of them in whole but for the last.
SessionsReadBack ==
  \A q \in 1 .. Len(file) :
    LET c == file[q]
    IN IsMark(c) \/
       IF c.session \in torn
         THEN MarkedAt(q) \/ (q > 1 /\ ~IsMark(file[q - 1])
                                    /\ file[q - 1].session = c.session)
         ELSE IF c.sample = 0 /\ c.part = 0
                THEN MarkedAt(q)
                ELSE q > 1 /\ file[q - 1] = Predecessor(c)

\* What has been written back is never overwritten or lost, by later writes,
\* sessions or power failures (265: O_APPEND).
FlushedIsKept ==
  [][/\ Len(file') >= synced
     /\ \A q \in 1 .. synced : file'[q] = file[q]
     /\ synced' >= synced]_fileVars
=============================================================================
