-------------------------- MODULE AcquisitionProofs --------------------------
(***************************************************************************)
(* Proofs about the driver of the ADC and the writethrough file, for marks *)
(* and records of any length and any number of samples, sessions, failed   *)
(* transfers, short writes and power failures.                             *)
(***************************************************************************)
EXTENDS Acquisition, SequenceTheorems, TLAPS

-----------------------------------------------------------------------------
(* Words.                                                                   *)

\* Exchanging the bytes of a word twice gives it back.
LEMMA SwappedTwice ==
  ASSUME NEW w \in Word
  PROVE  Swapped(w) \in Word /\ Swapped(Swapped(w)) = w
<1> DEFINE low == w % 256
           high == w \div 256
<1>1. low \in 0 .. 255 /\ high \in 0 .. 255 /\ w = high * 256 + low
  BY DEF Word
<1>2. Swapped(w) = low * 256 + high
  BY DEF Swapped
<1> HIDE DEF low, high
<1>3. Swapped(w) \in Word
  BY <1>1, <1>2 DEF Word
<1>4. Swapped(w) % 256 = high /\ Swapped(w) \div 256 = low
  BY <1>1, <1>2
<1> QED
  BY <1>1, <1>3, <1>4 DEF Swapped

\* A word as a `short` is one.
LEMMA ShortRange == \A w \in Word : Short(w) \in ShortInt
BY DEF Short, Word, ShortInt

\* Any integer as a word is one.
LEMMA UnsignedRange == \A i \in Int : Unsigned(i) \in Word
BY DEF Unsigned, Word

\* The configuration the driver writes, in spite of its signed fields, is
\* the one it means (ads1115.c 5-35, 68-83).
LEMMA ConfigIsIntended ==
  ConfigWord(config) \in Word /\ Settings(ConfigWord(config)) = Intended
<1>1. /\ Masked(config, "input_multiplexer") = 0 /\ Masked(config, "gain_amplifier") = 5
      /\ Masked(config, "operating_mode") = 0 /\ Masked(config, "data_rate") = 7
      /\ Masked(config, "comparator_mode") = 0 /\ Masked(config, "comparator_polarity") = 1
      /\ Masked(config, "latching_comparator") = 1
      /\ Masked(config, "comparator_queue_disable") = 0
  BY DEF Masked, config, Stored, Field, Fields, Sizes, Intended
<1>2. ConfigWord(config) = 2796
  BY <1>1 DEF ConfigWord
<1>3. Settings(2796) = Intended
  BY DEF Settings, Intended
<1> QED
  BY <1>2, <1>3 DEF Word

-----------------------------------------------------------------------------
(* The driver and main().                                                   *)

\* What the chip was told so far by a reset_adc() whose writes all arrived.
Told ==
  /\ dpc # "hith" => reg["HITH_REG"] = 1
  /\ dpc \notin {"hith", "loth"} => reg["LOTH_REG"] = 0
  /\ dpc \notin {"hith", "loth", "conf"} => Settings(reg["CONF_REG"]) = Intended

ChipInv ==
  /\ AdcTypeOK
  /\ apc \in {"off", "mark", "init", "first", "loop", "sample", "poll", "closing"}
  /\ dpc \in {"wait", "ready", "conv"} => apc = "sample"
  /\ apc \in {"first", "loop", "sample", "poll", "closing"} /\ ~missed => Told

\* What i2cReadWordData() yields is a word.
LEMMA ReadIsWord ==
  ASSUME AdcTypeOK, NEW r \in Registers, NEW res \in ReadWord(r)
  PROVE  res \in Word
<1>1. Swapped(reg[r]) \in Word
  BY SwappedTwice DEF AdcTypeOK
<1>2. I2cReadFailed \in Int
  BY DEF I2cReadFailed
<1>3. Unsigned(I2cReadFailed) \in Word
  BY <1>2, UnsignedRange
<1> QED
  BY <1>1, <1>3 DEF ReadWord

\* A write to a register leaves the others alone, and either puts the word
\* there or is missed.
LEMMA Written ==
  ASSUME AdcTypeOK, NEW r \in Registers, NEW w \in Word, WriteWord(r, Swapped(w))
  PROVE  /\ reg' \in [Registers -> Word] /\ missed' \in BOOLEAN
         /\ ~missed' => ~missed /\ reg' = [reg EXCEPT ![r] = w]
BY SwappedTwice DEF AdcTypeOK, WriteWord

LEMMA DriverInv == ChipInv /\ Driver /\ apc' = apc => ChipInv'
<1> SUFFICES ASSUME ChipInv, Driver, apc' = apc
             PROVE  ChipInv'
  OBVIOUS
<1> USE DEF ChipInv
<1>1. CASE set_hithresh
  <2>1. 1 \in Word /\ "HITH_REG" \in Registers
    BY DEF Word, Registers
  <2>2. /\ reg' \in [Registers -> Word] /\ missed' \in BOOLEAN
        /\ ~missed' => ~missed /\ reg' = [reg EXCEPT !["HITH_REG"] = 1]
    BY <1>1, <2>1, Written DEF set_hithresh
  <2> QED
    BY <1>1, <2>2, <2>1 DEF set_hithresh, AdcTypeOK, Told
<1>2. CASE set_lothresh
  <2>1. 0 \in Word /\ "LOTH_REG" \in Registers
    BY DEF Word, Registers
  <2>2. /\ reg' \in [Registers -> Word] /\ missed' \in BOOLEAN
        /\ ~missed' => ~missed /\ reg' = [reg EXCEPT !["LOTH_REG"] = 0]
    BY <1>2, <2>1, Written DEF set_lothresh
  <2>3. Told /\ ~missed' => Told'
    BY <1>2, <2>2 DEF set_lothresh, AdcTypeOK, Registers, Told
  <2>4. AdcTypeOK'
    BY <1>2, <2>2 DEF set_lothresh, AdcTypeOK
  <2>5. dpc' \notin {"wait", "ready", "conv"}
    BY <1>2 DEF set_lothresh
  <2> QED
    BY <2>2, <2>3, <2>4, <2>5
<1>3. CASE write_config
  <2>1. ConfigWord(config) \in Word /\ "CONF_REG" \in Registers
    BY ConfigIsIntended DEF Registers
  <2>2. /\ reg' \in [Registers -> Word] /\ missed' \in BOOLEAN
        /\ ~missed' => ~missed /\ reg' = [reg EXCEPT !["CONF_REG"] = ConfigWord(config)]
    BY <1>3, <2>1, Written DEF write_config
  <2>3. Told /\ ~missed' => Told'
    BY <1>3, <2>2, ConfigIsIntended DEF write_config, AdcTypeOK, Registers, Told
  <2>4. AdcTypeOK'
    BY <1>3, <2>2 DEF write_config, AdcTypeOK
  <2>5. dpc' \notin {"wait", "ready", "conv"}
    BY <1>3 DEF write_config
  <2> QED
    BY <2>2, <2>3, <2>4, <2>5
<1>4. CASE WaitReady
  BY <1>4 DEF WaitReady, AdcTypeOK, Told
<1>5. CASE AskAgain
  BY <1>5 DEF AskAgain, AdcTypeOK, Told
<1>6. CASE read_conversion
  <2>1. val' \in ShortInt
    <3>1. PICK res \in ReadWord("CONV_REG") : val' = Short(Swapped(res))
      BY <1>6 DEF read_conversion
    <3> QED
      BY <3>1, ReadIsWord, SwappedTwice, ShortRange DEF Registers
  <2> QED
    BY <1>6, <2>1 DEF read_conversion, AdcTypeOK, Told
<1> QED
  BY <1>1, <1>2, <1>3, <1>4, <1>5, <1>6 DEF Driver

\* The chip's own steps.
LEMMA ChipStepInv == ChipInv /\ (Convert \/ BrownOut) /\ apc' = apc => ChipInv'
<1> SUFFICES ASSUME ChipInv, Convert \/ BrownOut, apc' = apc
             PROVE  ChipInv'
  OBVIOUS
<1> USE DEF ChipInv
<1>1. CASE Convert
  <2>1. PICK v \in Inputs : reg' = [reg EXCEPT !["CONV_REG"] = Unsigned(v)]
    BY <1>1 DEF Convert
  <2>2. Unsigned(v) \in Word
    BY InputsAssumption, UnsignedRange DEF ShortInt
  <2> QED
    BY <1>1, <2>1, <2>2 DEF Convert, AdcTypeOK, Told, Registers
<1>2. CASE BrownOut
  BY <1>2 DEF BrownOut, AdcTypeOK, PowerOn, Registers, Word, ShortInt
<1> QED
  BY <1>1, <1>2

\* reset_adc() may be called in any state of the chip.
LEMMA BeginResetInv ==
  ChipInv /\ BeginReset /\ apc' \in {"first", "loop"} => ChipInv'
BY DEF ChipInv, BeginReset, AdcTypeOK, Told

LEMMA ChipInvStep == ChipInv /\ [AcquisitionNext]_acquisitionVars => ChipInv'
<1> SUFFICES ASSUME ChipInv, [AcquisitionNext]_acquisitionVars
             PROVE  ChipInv'
  OBVIOUS
<1> USE DEF ChipInv
<1>1. CASE Startup
  BY <1>1 DEF Startup, AdcTypeOK, Told
<1>2. CASE MarkSession
  BY <1>2 DEF MarkSession, adcVars, AdcTypeOK, Told
<1>3. ASSUME apc # "sample", End
      PROVE  ChipInv'
  BY <1>3 DEF End, adcVars, AdcTypeOK, Told
<1>4. CASE InitAdc
  BY <1>3, <1>4, BeginResetInv DEF InitAdc
<1>5. CASE FirstReset
  BY <1>5, BeginResetInv DEF FirstReset
<1>6. CASE Loop
  <2>1. CASE apc' = "sample" /\ BeginValue
    BY <1>6, <2>1 DEF Loop, BeginValue, AdcTypeOK, Told
  <2>2. CASE apc' = "closing" /\ UNCHANGED adcVars
    BY <1>6, <2>2 DEF Loop, adcVars, AdcTypeOK, Told
  <2> QED
    BY <1>6, <2>1, <2>2 DEF Loop
<1>7. CASE Write
  BY <1>7 DEF Write, AdcTypeOK, ShortInt, Told
<1>8. CASE PollReset
  <2>1. CASE BeginReset
    BY <1>8, <2>1, BeginResetInv DEF PollReset
  <2>2. CASE UNCHANGED adcVars
    BY <1>8, <2>2 DEF PollReset, adcVars, AdcTypeOK, Told
  <2> QED
    BY <1>8, <2>1, <2>2 DEF PollReset
<1>9. CASE Finish
  BY <1>3, <1>9 DEF Finish
<1>10. CASE Transfer
  BY <1>10, DriverInv DEF Transfer
<1>11. CASE Killed
  BY <1>3, <1>11 DEF Killed
<1>12. CASE PowerFailure
  BY <1>12 DEF PowerFailure, AdcTypeOK, PowerOn, Registers, Word, ShortInt
<1>13. CASE Surroundings
  BY <1>13, ChipStepInv DEF Surroundings, adcVars, AdcTypeOK, Told
<1>14. CASE UNCHANGED acquisitionVars
  BY <1>14 DEF acquisitionVars, adcVars, AdcTypeOK, Told
<1> QED
  BY <1>1, <1>2, <1>4, <1>5, <1>6, <1>7, <1>8, <1>9, <1>10, <1>11, <1>12, <1>13, <1>14
     DEF AcquisitionNext, Program

LEMMA ChipInvHolds == AcquisitionSpec => []ChipInv
<1>1. AcquisitionInit => ChipInv
  BY DEF AcquisitionInit, AdcInit, ChipInv, AdcTypeOK, PowerOn, Registers, Word, ShortInt
<1> QED
  BY <1>1, ChipInvStep, PTL DEF AcquisitionSpec

\* A reset_adc() whose writes arrived has set the chip up, whatever state it
\* was in before (ads1115.c 85-94).
THEOREM ResetSetsUp == AcquisitionSpec => []ChipIsSetUp
<1>1. ChipInv => ChipIsSetUp
  BY DEF ChipInv, ChipIsSetUp, Told
<1> QED
  BY <1>1, ChipInvHolds, PTL

\* next_value() returns what the chip had converted to, or the one number
\* that a failed read comes out as (ads1115.c 96-114).
THEOREM ValuesAreConversions == AcquisitionSpec => ValueIsConversion
<1> DEFINE Good == dpc = "conv" /\ dpc' # "conv" /\ apc' # "off"
                     => val' \in {Short(reg["CONV_REG"]), FailedValue}
<1>1. ChipInv /\ [AcquisitionNext]_acquisitionVars => [Good]_acquisitionVars
  <2> SUFFICES ASSUME ChipInv, AcquisitionNext, dpc = "conv", dpc' # "conv", apc' # "off"
               PROVE  val' \in {Short(reg["CONV_REG"]), FailedValue}
    BY DEF acquisitionVars, adcVars
  <2>1. apc = "sample"
    BY DEF ChipInv
  <2>2. read_conversion
    BY <2>1 DEF AcquisitionNext, Program, Startup, MarkSession, InitAdc, FirstReset, Loop,
       Write, PollReset, Finish, Transfer, Killed, PowerFailure, Surroundings, Driver,
       set_hithresh, set_lothresh, write_config, WaitReady, AskAgain, Convert, BrownOut, adcVars
  <2>3. PICK res \in ReadWord("CONV_REG") : val' = Short(Swapped(res))
    BY <2>2 DEF read_conversion
  <2>4. reg["CONV_REG"] \in Word
    BY DEF ChipInv, AdcTypeOK, Registers
  <2>5. CASE res = Swapped(reg["CONV_REG"])
    BY <2>3, <2>4, <2>5, SwappedTwice
  <2>6. CASE res = Unsigned(I2cReadFailed)
    BY <2>3, <2>6 DEF FailedValue
  <2> QED
    BY <2>3, <2>5, <2>6 DEF ReadWord
<1> QED
  BY <1>1, ChipInvHolds, PTL DEF AcquisitionSpec, ValueIsConversion

-----------------------------------------------------------------------------
(* The file.                                                                *)

\* Seen from the file, every step of main() and of its surroundings is a
\* step of the file or none (255-292, 366-372, 388-389).
LEMMA FileStep == [AcquisitionNext]_acquisitionVars => [FileNext]_fileVars
<1> SUFFICES ASSUME [AcquisitionNext]_acquisitionVars
             PROVE  [FileNext]_fileVars
  OBVIOUS
<1>1. CASE Startup
  BY <1>1 DEF Startup, FileNext
<1>2. CASE MarkSession
  BY <1>2 DEF MarkSession, FileNext
<1>3. ASSUME End
      PROVE  FileNext
  BY <1>3 DEF End, FileNext
<1>4. CASE InitAdc \/ Finish \/ Killed
  BY <1>3, <1>4 DEF InitAdc, Finish, Killed
<1>5. CASE FirstReset \/ Loop \/ PollReset \/ Transfer
  BY <1>5 DEF FirstReset, Loop, PollReset, Transfer
<1>6. CASE Write
  BY <1>6 DEF Write, FileNext
<1>7. CASE PowerFailure
  BY <1>7 DEF PowerFailure, FileNext
<1>8. CASE Surroundings
  BY <1>8 DEF Surroundings, FileNext
<1>9. CASE UNCHANGED acquisitionVars
  BY <1>9 DEF acquisitionVars
<1> QED
  BY <1>1, <1>2, <1>4, <1>5, <1>6, <1>7, <1>8, <1>9 DEF AcquisitionNext, Program

\* The server implements the file.
THEOREM AcquisitionImplementsFile == AcquisitionSpec => FileIsWritethrough
<1>1. AcquisitionInit => FileInit
  BY DEF AcquisitionInit
<1> QED
  BY <1>1, FileStep, PTL DEF AcquisitionSpec, FileSpec, FileIsWritethrough

\* Cell c is one of a sample of session s.
Of(c, s) == ~IsMark(c) /\ c.session = s

\* What SessionsReadBack says of place q.
Readable(q) ==
  LET c == file[q]
  IN IsMark(c) \/
     IF c.session \in torn
       THEN MarkedAt(q) \/ (q > 1 /\ Of(file[q - 1], c.session))
       ELSE IF c.sample = 0 /\ c.part = 0
              THEN MarkedAt(q)
              ELSE q > 1 /\ file[q - 1] = Predecessor(c)

\* While a session records, a mark or the newest record is at the end.
AtEnd ==
  LET last == file[Len(file)]
  IN \/ MarkedAt(Len(file) + 1) /\ (session \notin torn => count = 0)
     \/ /\ file # <<>> /\ Of(last, session)
        /\ session \notin torn => count > 0 /\ last = Cell(session, count - 1, RecordLen - 1)

FileInv ==
  /\ FileTypeOK
  /\ wpc # "closed" => session > 0
  /\ wpc = "marking" => count = 0
  /\ wpc = "recording" => AtEnd
  /\ \A q \in 1 .. Len(file) : Readable(q)

\* No cell of a record looks like one of a mark.
LEMMA CellIsNoMark ==
  ASSUME NEW s \in Nat, NEW n \in Nat, NEW p \in 0 .. RecordLen - 1
  PROVE  /\ Cell(s, n, p) \in Cells /\ ~IsMark(Cell(s, n, p))
         /\ Of(Cell(s, n, p), s)
<1>1. "mark" \in DOMAIN Mark /\ "mark" \notin DOMAIN Cell(s, n, p)
  BY DEF Mark, Cell
<1>2. Cell(s, n, p) # Mark
  BY <1>1
<1> QED
  BY <1>2 DEF Cell, Cells, IsMark, Of

\* The lengths are what they are said to be.
LEMMA Lengths ==
  /\ MarkLen \in Nat /\ MarkLen > 0
  /\ RecordLen \in Nat /\ RecordLen > 0
BY WritethroughAssumption

\* A mark stays one when something is put behind it, or when what is behind
\* it is lost.
LEMMA MarkedStays ==
  ASSUME FileInv, NEW q \in Nat, MarkedAt(q), \A i \in 1 .. q - 1 : file'[i] = file[i]
  PROVE  MarkedAt(q)'
<1>1. ASSUME NEW i \in 1 .. MarkLen
      PROVE  IsMark(file'[q - i])
  <2>1. q - i \in 1 .. q - 1
    BY Lengths DEF MarkedAt
  <2> QED
    BY <2>1 DEF MarkedAt
<1> QED
  BY <1>1 DEF MarkedAt, IsMark

\* So does any other cell, as long as its session is what it was.
LEMMA ReadableStays ==
  ASSUME FileInv, NEW q \in 1 .. Len(file), \A i \in 1 .. q : file'[i] = file[i],
         ~IsMark(file[q]) => (file[q].session \in torn' <=> file[q].session \in torn)
  PROVE  Readable(q)'
<1>1. q \in Nat /\ q > 0 /\ file'[q] = file[q]
  OBVIOUS
<1>2. q > 1 => file'[q - 1] = file[q - 1]
  BY <1>1
<1>3. MarkedAt(q) => MarkedAt(q)'
  BY <1>1, MarkedStays
<1>4. Readable(q)
  BY DEF FileInv
<1> QED
  BY <1>1, <1>2, <1>3, <1>4 DEF Readable, IsMark, Of, Predecessor, Cell

\* The cell before one that is not the first of its session is of the same
\* session.
LEMMA PredecessorIsOf ==
  ASSUME NEW c \in Cells, ~IsMark(c), ~(c.sample = 0 /\ c.part = 0)
  PROVE  Of(Predecessor(c), c.session)
<1>1. c.session \in Nat /\ c.sample \in Nat /\ c.part \in 0 .. RecordLen - 1
  BY DEF Cells, IsMark
<1>2. CASE c.part = 0
  <2>1. c.sample - 1 \in Nat /\ RecordLen - 1 \in 0 .. RecordLen - 1
    BY <1>1, <1>2, Lengths
  <2> QED
    BY <1>1, <1>2, <2>1, CellIsNoMark DEF Predecessor
<1>3. CASE c.part # 0
  <2>1. c.part - 1 \in 0 .. RecordLen - 1
    BY <1>1, <1>3, Lengths
  <2> QED
    BY <1>1, <1>3, <2>1, CellIsNoMark DEF Predecessor
<1> QED
  BY <1>2, <1>3

LEMMA FileInitInv == FileInit => FileInv
<1> SUFFICES ASSUME FileInit
             PROVE  FileInv
  OBVIOUS
<1>1. file = <<>> /\ Len(file) = 0
  BY DEF FileInit
<1>2. file \in Seq(Cells)
  BY <1>1
<1>3. synced \in 0 .. Len(file) /\ torn \subseteq 1 .. session
  BY <1>1 DEF FileInit
<1>4. FileTypeOK
  BY <1>2, <1>3 DEF FileInit, FileTypeOK
<1> QED
  BY <1>1, <1>4 DEF FileInit, FileInv

LEMMA WriteMarkInv == FileInv /\ WriteMark => FileInv'
<1> SUFFICES ASSUME FileInv, WriteMark
             PROVE  FileInv'
  OBVIOUS
<1> USE DEF FileInv
<1>1. PICK n \in 0 .. MarkLen :
        /\ file' = file \o Marks(n)
        /\ wpc' = IF n = MarkLen THEN "recording" ELSE "closed"
  BY DEF WriteMark
<1>2. file \in Seq(Cells) /\ Len(file) \in Nat
  BY DEF FileTypeOK
<1>3. Marks(n) \in Seq(Cells) /\ Len(Marks(n)) = n /\ \A i \in 1 .. n : Marks(n)[i] = Mark
  BY Lengths DEF Marks, Cells
<1>4. /\ file' \in Seq(Cells) /\ Len(file') = Len(file) + n
      /\ \A i \in 1 .. Len(file) : file'[i] = file[i]
      /\ \A i \in 1 .. n : file'[Len(file) + i] = Mark
  <2> DEFINE cells == Marks(n)
  <2>1. cells \in Seq(Cells) /\ Len(cells) = n /\ \A i \in 1 .. n : cells[i] = Mark
    BY <1>3
  <2> HIDE DEF cells
  <2>2. /\ file \o cells \in Seq(Cells)
        /\ Len(file \o cells) = Len(file) + n
        /\ \A i \in 1 .. Len(file) + n :
             (file \o cells)[i] = IF i <= Len(file) THEN file[i] ELSE cells[i - Len(file)]
    BY <1>2, <2>1, ConcatProperties
  <2>3. file' = file \o cells
    BY <1>1 DEF cells
  <2>4. n \in Nat
    BY Lengths
  <2>5. ASSUME NEW i \in 1 .. n
        PROVE  file'[Len(file) + i] = Mark
    <3>1. Len(file) + i \in 1 .. Len(file) + n /\ ~(Len(file) + i <= Len(file))
            /\ (Len(file) + i) - Len(file) = i
      BY <1>2, <2>4
    <3> QED
      BY <2>1, <2>2, <2>3, <3>1
  <2>6. \A i \in 1 .. Len(file) : file'[i] = file[i]
    BY <1>2, <2>2, <2>3, <2>4
  <2> QED
    BY <2>2, <2>3, <2>5, <2>6
<1>5. FileTypeOK'
  <2>1. synced' \in 0 .. Len(file')
    BY <1>2, <1>4, Lengths DEF WriteMark, FileTypeOK
  <2> QED
    BY <1>1, <1>4, <2>1 DEF WriteMark, FileTypeOK
<1>6. ASSUME NEW q \in 1 .. Len(file')
      PROVE  Readable(q)'
  <2>1. CASE q \in 1 .. Len(file)
    <3>1. \A i \in 1 .. q : file'[i] = file[i]
      BY <1>2, <1>4, <2>1
    <3> QED
      BY <2>1, <3>1, ReadableStays DEF WriteMark
  <2>2. CASE q \notin 1 .. Len(file)
    <3>1. q - Len(file) \in 1 .. n /\ q = Len(file) + (q - Len(file))
      BY <1>2, <1>4, <2>2, Lengths
    <3>2. file'[q] = Mark
      BY <1>4, <3>1
    <3> QED
      BY <3>2 DEF Readable, IsMark
  <2> QED
    BY <2>1, <2>2
<1>7. ASSUME wpc' = "recording"
      PROVE  AtEnd'
  <2>1. n = MarkLen
    BY <1>1, <1>7
  <2>2. ASSUME NEW i \in 1 .. MarkLen
        PROVE  file'[Len(file') + 1 - i] = Mark
    <3>1. MarkLen + 1 - i \in 1 .. n
      BY <2>1, Lengths
    <3>2. Len(file') + 1 - i = Len(file) + (MarkLen + 1 - i)
      BY <1>2, <1>4, <2>1, Lengths
    <3> QED
      BY <1>4, <3>1, <3>2
  <2>3. MarkLen < Len(file') + 1
    BY <1>2, <1>4, <2>1, Lengths
  <2>4. MarkedAt(Len(file) + 1)'
    BY <2>2, <2>3 DEF MarkedAt, IsMark
  <2> QED
    BY <2>4 DEF AtEnd, WriteMark
<1>8. wpc' # "marking"
  BY <1>1
<1> QED
  BY <1>5, <1>6, <1>7, <1>8 DEF WriteMark

\* What is appended leaves the cells before it where they are.
LEMMA CellsAppended ==
  \A s, t \in Seq(Cells) :
    /\ s \o t \in Seq(Cells) /\ Len(s \o t) = Len(s) + Len(t)
    /\ \A i \in 1 .. Len(s) : (s \o t)[i] = s[i]
    /\ \A i \in 1 .. Len(t) : (s \o t)[Len(s) + i] = t[i]
OBVIOUS

LEMMA WriteRecordInv == FileInv /\ WriteRecord => FileInv'
<1> SUFFICES ASSUME FileInv, WriteRecord
             PROVE  FileInv'
  OBVIOUS
<1> USE DEF FileInv
<1>1. PICK n \in 0 .. RecordLen :
        /\ file' = file \o Record(session, count, n)
        /\ torn' = IF n < RecordLen THEN torn \cup {session} ELSE torn
  BY DEF WriteRecord
<1>2. /\ file \in Seq(Cells) /\ Len(file) \in Nat
      /\ session \in Nat /\ count \in Nat /\ torn \subseteq 1 .. session
  BY DEF FileTypeOK
<1> DEFINE new(i) == Cell(session, count, i - 1)
           record == Record(session, count, n)
<1>3. ASSUME NEW i \in 1 .. n
      PROVE  new(i) \in Cells /\ ~IsMark(new(i)) /\ Of(new(i), session)
  <2>1. i - 1 \in 0 .. RecordLen - 1
    BY Lengths
  <2> QED
    BY <1>2, <2>1, CellIsNoMark
<1>4. /\ record \in Seq(Cells) /\ Len(record) = n
      /\ \A i \in 1 .. n : record[i] = new(i)
  BY <1>3, Lengths DEF Record
<1> HIDE DEF new, record
<1>5. /\ file' \in Seq(Cells) /\ Len(file') = Len(file) + n
      /\ \A i \in 1 .. Len(file) : file'[i] = file[i]
      /\ \A i \in 1 .. n : file'[Len(file) + i] = new(i)
  <2>1. file' = file \o record
    BY <1>1 DEF record
  <2>2. /\ file \o record \in Seq(Cells) /\ Len(file \o record) = Len(file) + Len(record)
        /\ \A i \in 1 .. Len(file) : (file \o record)[i] = file[i]
        /\ \A i \in 1 .. Len(record) : (file \o record)[Len(file) + i] = record[i]
    BY <1>2, <1>4, CellsAppended
  <2> QED
    BY <1>4, <2>1, <2>2
<1>6. FileTypeOK'
  <2>1. synced' \in 0 .. Len(file')
    BY <1>2, <1>5, Lengths DEF WriteRecord, FileTypeOK
  <2>2. torn' \subseteq 1 .. session
    <3>1. CASE torn' = torn
      BY <1>2, <3>1
    <3>2. CASE torn' = torn \cup {session}
      BY <1>2, <3>2 DEF WriteRecord
    <3> QED
      BY <1>1, <3>1, <3>2
  <2> QED
    BY <1>2, <1>5, <2>1, <2>2 DEF WriteRecord, FileTypeOK
<1>7. AtEnd /\ session' = session /\ count' = count + 1 /\ wpc' = "recording"
  BY DEF WriteRecord
<1>8. ASSUME NEW q \in 1 .. Len(file)
      PROVE  Readable(q)'
  <2>1. \A i \in 1 .. q : file'[i] = file[i]
    BY <1>2, <1>5
  <2>2. CASE torn' = torn \/ IsMark(file[q]) \/ file[q].session # session
    BY <1>1, <2>1, <2>2, ReadableStays
  <2>3. CASE session \in torn' /\ session \notin torn
             /\ ~IsMark(file[q]) /\ file[q].session = session
    <3>1. file[q] \in Cells /\ file'[q] = file[q] /\ Readable(q)
      BY <1>2, <2>1
    <3>2. CASE MarkedAt(q)
      <4>1. MarkedAt(q)'
        BY <1>2, <2>1, <3>2, MarkedStays
      <4> QED
        BY <2>3, <3>1, <4>1 DEF Readable
    <3>3. CASE ~MarkedAt(q)
      <4>1. q > 1 /\ file[q - 1] = Predecessor(file[q])
            /\ ~(file[q].sample = 0 /\ file[q].part = 0)
        BY <2>3, <3>1, <3>3 DEF Readable
      <4>2. Of(file[q - 1], session)
        BY <2>3, <3>1, <4>1, PredecessorIsOf
      <4>3. file'[q - 1] = file[q - 1]
        BY <1>2, <2>1, <4>1
      <4> QED
        BY <2>3, <3>1, <4>1, <4>2, <4>3 DEF Readable, Of, IsMark
    <3> QED
      BY <3>2, <3>3
  <2> QED
    BY <1>1, <2>2, <2>3
<1>9. ASSUME NEW q, NEW i \in 1 .. n, q = Len(file) + i
      PROVE  Readable(q)'
  <2>1. file'[q] = new(i) /\ ~IsMark(new(i)) /\ new(i) = Cell(session, count, i - 1)
    BY <1>3, <1>5, <1>9 DEF new
  <2>2. file'[q].session = session /\ file'[q].sample = count /\ file'[q].part = i - 1
    BY <2>1 DEF Cell
  <2>3. CASE i > 1
    <3>1. i - 1 \in 1 .. n /\ q - 1 = Len(file) + (i - 1) /\ q > 1
      BY <1>2, <1>9, <2>3, Lengths
    <3>2. file'[q - 1] = new(i - 1) /\ Of(new(i - 1), session)
      BY <1>3, <1>5, <3>1
    <3>3. new(i - 1) = Predecessor(file'[q])
      <4>1. (i - 1) - 1 = file'[q].part - 1 /\ file'[q].part # 0
        BY <2>2, <2>3
      <4> QED
        BY <2>2, <4>1 DEF new, Predecessor
    <3>4. ~(file'[q].sample = 0 /\ file'[q].part = 0)
      BY <2>2, <2>3
    <3> QED
      BY <2>2, <3>1, <3>2, <3>3, <3>4 DEF Readable, Of, IsMark, Predecessor, Cell
  <2>4. CASE i = 1
    <3>1. q = Len(file) + 1 /\ file'[q].part = 0
      BY <1>9, <2>2, <2>4
    <3>2. CASE MarkedAt(Len(file) + 1) /\ (session \notin torn => count = 0)
      <4>1. MarkedAt(q)'
        <5>1. q \in Nat /\ MarkedAt(q) /\ \A j \in 1 .. q - 1 : file'[j] = file[j]
          BY <1>2, <1>5, <3>1, <3>2
        <5> QED
          BY <5>1, MarkedStays
      <4> QED
        BY <1>1, <2>2, <3>1, <3>2, <4>1 DEF Readable
    <3>3. CASE /\ file # <<>> /\ Of(file[Len(file)], session)
               /\ session \notin torn
                    => count > 0 /\ file[Len(file)] = Cell(session, count - 1, RecordLen - 1)
      <4>1. q > 1 /\ q - 1 = Len(file) /\ file'[q - 1] = file[Len(file)]
        BY <1>2, <1>5, <3>1, <3>3
      <4>2. session \notin torn => Predecessor(file'[q]) = file[Len(file)] /\ count # 0
        BY <1>2, <2>2, <3>1, <3>3 DEF Predecessor
      <4> QED
        BY <1>1, <2>2, <3>1, <3>3, <4>1, <4>2 DEF Readable, Of, IsMark, Predecessor, Cell
    <3> QED
      BY <1>7, <3>2, <3>3 DEF AtEnd
  <2> QED
    BY <2>3, <2>4, Lengths
<1>10. AtEnd'
  <2>1. CASE n = 0
    <3>1. Len(file') = Len(file) /\ session \in torn' /\ torn' = torn \cup {session}
      BY <1>1, <1>2, <1>5, <2>1, Lengths
    <3>2. CASE MarkedAt(Len(file) + 1)
      <4>1. Len(file) + 1 \in Nat /\ \A i \in 1 .. (Len(file) + 1) - 1 : file'[i] = file[i]
        BY <1>2, <1>5
      <4>2. ASSUME NEW q, q = Len(file) + 1
            PROVE  MarkedAt(q)'
        <5>1. q \in Nat /\ MarkedAt(q) /\ \A i \in 1 .. q - 1 : file'[i] = file[i]
          BY <3>2, <4>1, <4>2
        <5> QED
          BY <5>1, MarkedStays
      <4> QED
        BY <1>7, <3>1, <4>2 DEF AtEnd
    <3>3. CASE file # <<>> /\ Of(file[Len(file)], session)
      <4>1. file' # <<>> /\ file'[Len(file')] = file[Len(file)]
        BY <1>2, <1>5, <3>1, <3>3
      <4> QED
        BY <1>7, <3>1, <3>3, <4>1 DEF AtEnd, Of, IsMark
    <3> QED
      BY <1>7, <3>2, <3>3 DEF AtEnd
  <2>2. CASE n # 0
    <3>1. n \in 1 .. n /\ Len(file') = Len(file) + n /\ file' # <<>>
      BY <1>2, <1>5, <2>2, Lengths
    <3>2. file'[Len(file')] = new(n) /\ Of(new(n), session)
      BY <1>3, <1>5, <3>1
    <3>3. session \notin torn' => n = RecordLen
      BY <1>1, Lengths
    <3>4. count' > 0 /\ count' - 1 = count
      BY <1>2, <1>7
    <3> QED
      BY <1>7, <3>1, <3>2, <3>3, <3>4 DEF AtEnd, Of, IsMark, new
  <2> QED
    BY <2>1, <2>2
<1>11. ASSUME NEW q \in 1 .. Len(file')
       PROVE  Readable(q)'
  <2>1. CASE q \in 1 .. Len(file)
    BY <1>8, <2>1
  <2>2. CASE q \notin 1 .. Len(file)
    <3>1. q - Len(file) \in 1 .. n /\ q = Len(file) + (q - Len(file))
      BY <1>2, <1>5, <2>2, Lengths
    <3> QED
      BY <1>9, <3>1
  <2> QED
    BY <2>1, <2>2
<1> QED
  BY <1>6, <1>7, <1>10, <1>11 DEF WriteRecord

\* The power fails: what is left is a beginning of the file.
LEMMA FilePowerFailureInv == FileInv /\ FilePowerFailure => FileInv'
<1> SUFFICES ASSUME FileInv, FilePowerFailure
             PROVE  FileInv'
  OBVIOUS
<1> USE DEF FileInv
<1>1. PICK n \in synced .. Len(file) : file' = SubSeq(file, 1, n) /\ synced' = n
  BY DEF FilePowerFailure
<1>2. file \in Seq(Cells) /\ Len(file) \in Nat /\ n \in 0 .. Len(file)
  BY DEF FileTypeOK
<1>3. /\ file' \in Seq(Cells) /\ Len(file') = n
      /\ \A i \in 1 .. n : file'[i] = file[i]
  BY <1>1, <1>2
<1>4. FileTypeOK'
  BY <1>1, <1>2, <1>3 DEF FilePowerFailure, FileTypeOK
<1>5. ASSUME NEW q \in 1 .. Len(file')
      PROVE  Readable(q)'
  <2>1. q \in 1 .. Len(file) /\ \A i \in 1 .. q : file'[i] = file[i]
    BY <1>2, <1>3
  <2> QED
    BY <2>1, ReadableStays DEF FilePowerFailure
<1> QED
  BY <1>4, <1>5 DEF FilePowerFailure

LEMMA FileInvStep == FileInv /\ [FileNext]_fileVars => FileInv'
<1> SUFFICES ASSUME FileInv, [FileNext]_fileVars
             PROVE  FileInv'
  OBVIOUS
<1> USE DEF FileInv
<1>1. ASSUME UNCHANGED <<file, torn>>, FileTypeOK', wpc' # "recording",
             wpc' # "closed" => session' > 0, wpc' = "marking" => count' = 0
      PROVE  FileInv'
  BY <1>1 DEF Readable, MarkedAt
<1>2. CASE OpenFile
  <2>1. FileTypeOK' /\ session' > 0
    BY <1>2 DEF OpenFile, FileTypeOK
  <2> QED
    BY <1>1, <1>2, <2>1 DEF OpenFile
<1>3. CASE CloseFile
  BY <1>1, <1>3 DEF CloseFile, FileTypeOK
<1>4. CASE Flush
  <2>1. FileTypeOK'
    BY <1>4 DEF Flush, FileTypeOK
  <2> QED
    BY <1>4, <2>1 DEF Flush, Readable, MarkedAt, AtEnd
<1>5. CASE UNCHANGED fileVars
  BY <1>5 DEF fileVars, FileTypeOK, Readable, MarkedAt, AtEnd
<1> QED
  BY <1>2, <1>3, <1>4, <1>5, WriteMarkInv, WriteRecordInv, FilePowerFailureInv DEF FileNext

LEMMA FileInvHolds == FileSpec => []FileInv
BY FileInitInv, FileInvStep, PTL DEF FileSpec

\* Behind every complete mark are the records of its session, one after the
\* other and in whole unless a write was short (271-275, 366-372).
THEOREM SessionsStayReadable == AcquisitionSpec => []SessionsReadBack
<1>1. FileInv => SessionsReadBack
  BY DEF FileInv, Readable, SessionsReadBack, Of
<1> QED
  BY <1>1, FileInvHolds, AcquisitionImplementsFile, PTL DEF FileIsWritethrough

\* What is on the disk stays there (265).
THEOREM FlushedStays == AcquisitionSpec => FlushedIsKept
<1> DEFINE Kept == /\ Len(file') >= synced
                   /\ \A q \in 1 .. synced : file'[q] = file[q]
                   /\ synced' >= synced
<1>1. FileInv /\ [FileNext]_fileVars => [Kept]_fileVars
  <2> SUFFICES ASSUME FileInv, FileNext
               PROVE  Kept
    OBVIOUS
  <2>1. file \in Seq(Cells) /\ Len(file) \in Nat /\ synced \in 0 .. Len(file)
    BY DEF FileInv, FileTypeOK
  <2>2. CASE OpenFile \/ CloseFile
    BY <2>1, <2>2 DEF OpenFile, CloseFile
  <2>3. CASE WriteMark
    <3>1. PICK n \in 0 .. MarkLen : file' = file \o Marks(n)
      BY <2>3 DEF WriteMark
    <3>2. Marks(n) \in Seq(Cells) /\ Len(Marks(n)) \in Nat
      BY Lengths DEF Marks, Cells
    <3>3. Len(file') >= Len(file) /\ \A i \in 1 .. Len(file) : file'[i] = file[i]
      BY <2>1, <3>1, <3>2, CellsAppended
    <3> QED
      BY <2>1, <2>3, <3>3 DEF WriteMark
  <2>4. CASE WriteRecord
    <3>1. PICK n \in 0 .. RecordLen : file' = file \o Record(session, count, n)
      BY <2>4 DEF WriteRecord
    <3>2. ASSUME NEW i \in 1 .. n
          PROVE  Cell(session, count, i - 1) \in Cells
      <4>1. i - 1 \in 0 .. RecordLen - 1
        BY Lengths
      <4> QED
        BY <4>1, CellIsNoMark DEF FileInv, FileTypeOK
    <3>3. Record(session, count, n) \in Seq(Cells) /\ Len(Record(session, count, n)) \in Nat
      BY <3>2, Lengths DEF Record
    <3>4. Len(file') >= Len(file) /\ \A i \in 1 .. Len(file) : file'[i] = file[i]
      BY <2>1, <3>1, <3>3, CellsAppended
    <3> QED
      BY <2>1, <2>4, <3>4 DEF WriteRecord
  <2>5. CASE Flush
    BY <2>1, <2>5 DEF Flush
  <2>6. CASE FilePowerFailure
    <3>1. PICK n \in synced .. Len(file) : file' = SubSeq(file, 1, n) /\ synced' = n
      BY <2>6 DEF FilePowerFailure
    <3>2. Len(file') = n /\ \A i \in 1 .. n : file'[i] = file[i]
      BY <2>1, <3>1
    <3> QED
      BY <2>1, <3>1, <3>2
  <2> QED
    BY <2>2, <2>3, <2>4, <2>5, <2>6 DEF FileNext
<1> QED
  BY <1>1, FileInvHolds, AcquisitionImplementsFile, PTL DEF FileSpec, FileIsWritethrough, FlushedIsKept

\* Registers, driver, file and main() hold what they should.
THEOREM AcquisitionTypeCorrect == AcquisitionSpec => []AcquisitionTypeOK
<1> DEFINE Open == apc = "off" => wpc = "closed"
<1>1. AcquisitionInit => Open
  BY DEF AcquisitionInit, FileInit
<1>2. Open /\ [AcquisitionNext]_acquisitionVars => Open'
  <2> SUFFICES ASSUME Open, [AcquisitionNext]_acquisitionVars
               PROVE  Open'
    OBVIOUS
  <2>1. CASE Startup \/ MarkSession \/ InitAdc \/ FirstReset \/ Loop \/ Write
    BY <2>1 DEF Startup, MarkSession, WriteMark, InitAdc, End, CloseFile, FirstReset, Loop, Write
  <2>2. CASE PollReset \/ Finish \/ Transfer \/ Killed
    BY <2>2 DEF PollReset, Finish, Transfer, Killed, End, CloseFile
  <2>3. CASE PowerFailure \/ Surroundings \/ UNCHANGED acquisitionVars
    BY <2>3 DEF PowerFailure, FilePowerFailure, Surroundings, Flush, acquisitionVars, fileVars
  <2> QED
    BY <2>1, <2>2, <2>3 DEF AcquisitionNext, Program
<1>3. ChipInv /\ FileInv /\ Open => AcquisitionTypeOK
  BY DEF ChipInv, FileInv, AcquisitionTypeOK
<1> QED
  BY <1>1, <1>2, <1>3, ChipInvHolds, FileInvHolds, AcquisitionImplementsFile, PTL
     DEF AcquisitionSpec, FileIsWritethrough
=============================================================================
