----------------------------- MODULE Acquisition -----------------------------
(***************************************************************************)
(* The path of a sample through load_cell_serv.c, from the ADC to the disk *)
(* and across restarts: main() from the opening of the file of -w to its   *)
(* return, with the transfers of the driver, failures on the way, and the  *)
(* power failing at any moment.  What the server does in the same loop for *)
(* the network and for the auxiliary server is module LoadCellServ.        *)
(***************************************************************************)
EXTENDS Ads1115, Writethrough

VARIABLE
  apc  \* where main() is: "off" is no process

acquisitionVars == <<adcVars, fileVars, apc>>

AcquisitionTypeOK ==
  /\ AdcTypeOK /\ FileTypeOK
  /\ apc \in {"off", "mark", "init", "first", "loop", "sample", "poll", "closing"}
  /\ apc = "off" => wpc = "closed"

AcquisitionInit == AdcInit /\ FileInit /\ apc = "off"

\* The arguments are right and the file can be opened.
Startup ==
  /\ apc = "off" /\ apc' = "mark"
  /\ dpc' = "idle"
  /\ OpenFile
  /\ UNCHANGED <<reg, val, missed>>

MarkSession ==
  /\ apc = "mark"
  /\ WriteMark
  /\ apc' = IF wpc' = "recording" THEN "init" ELSE "off"
  /\ UNCHANGED adcVars

\* The process ends, and with it the driver; the file is closed.
End ==
  /\ apc' = "off"
  /\ CloseFile
  /\ UNCHANGED adcVars

\* init_adc(): pigpio, the bus or the pin cannot be had, or reset_adc() is
\* called for the first time.
InitAdc ==
  /\ apc = "init"
  /\ \/ apc' = "first" /\ BeginReset /\ UNCHANGED fileVars
     \/ End

\* The reset_adc() before the loop.
FirstReset ==
  /\ apc = "first" /\ apc' = "loop"
  /\ BeginReset
  /\ UNCHANGED fileVars

\* while (global): SIGINT may have come.
Loop ==
  /\ apc = "loop"
  /\ dpc = "idle"
  /\ \/ apc' = "sample" /\ BeginValue
     \/ apc' = "closing" /\ UNCHANGED adcVars
  /\ UNCHANGED fileVars

\* next_value() has returned: the sample is written through.
Write ==
  /\ apc = "sample" /\ apc' = "poll"
  /\ dpc = "idle"
  /\ WriteRecord
  /\ val' = 0
  /\ UNCHANGED <<reg, dpc, missed>>

\* A reset may have been asked for.
PollReset ==
  /\ apc = "poll" /\ apc' = "loop"
  /\ BeginReset \/ UNCHANGED adcVars
  /\ UNCHANGED fileVars

Finish == apc = "closing" /\ End

\* A step of the driver, inside a call that main() has made.
Transfer == apc # "off" /\ Driver /\ UNCHANGED <<fileVars, apc>>

Program ==
  \/ MarkSession \/ InitAdc \/ FirstReset \/ Loop \/ Write \/ PollReset
  \/ Finish \/ Transfer

\* SIGINT before its handler is installed (325) ends the process.
Killed == apc \in {"mark", "init", "first"} /\ End

\* The power of everything fails.
PowerFailure ==
  /\ apc' = "off"
  /\ dpc' = "idle" /\ reg' = PowerOn /\ missed' = TRUE
  /\ UNCHANGED val
  /\ FilePowerFailure

Surroundings ==
  \/ Flush /\ UNCHANGED <<adcVars, apc>>
  \/ (Convert \/ BrownOut) /\ UNCHANGED <<fileVars, apc>>

AcquisitionNext == Startup \/ Program \/ Killed \/ PowerFailure \/ Surroundings

\* The process is scheduled while it exists.
AcquisitionSpec ==
  /\ AcquisitionInit /\ [][AcquisitionNext]_acquisitionVars
  /\ WF_acquisitionVars(Program)

-----------------------------------------------------------------------------
\* While main() samples, the chip has the settings the driver was written
\* for, and converts, unless a transfer failed or the chip lost its power
\* since the driver last told it: every reset_adc() (ads1115.c 85-94), the
\* one that OP_RESET asks for included, brings it back from any state.
ChipIsSetUp ==
  apc \in {"loop", "sample", "poll"} /\ dpc \notin {"hith", "loth", "conf"} /\ ~missed =>
    /\ Settings(reg["CONF_REG"]) = Intended
    /\ reg["HITH_REG"] = 1 /\ reg["LOTH_REG"] = 0

\* next_value() returns what the chip had converted to, sign and all, when
\* it was read; but a read that failed comes out as one and the same number,
\* which nothing tells from a conversion (ads1115.c 96-114).
ValueIsConversion ==
  [][dpc = "conv" /\ dpc' # "conv" /\ apc' # "off"
       => val' \in {Short(reg["CONV_REG"]), FailedValue}]_acquisitionVars

\* Seen from the file, the server is as Writethrough says.
FileIsWritethrough == FileSpec

\* next_value() returns, whatever the chip is doing or has become: the loop
\* around is_ready() (106-108) ends.
ValueReturns == dpc = "wait" ~> dpc # "wait"
=============================================================================
