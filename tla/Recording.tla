------------------------------ MODULE Recording ------------------------------
(***************************************************************************)
(* From the network to a log and to its rewritten copy: a logger, another  *)
(* receiver on the same host whose worker is detached, as the GUI's is,    *)
(* and the program that rewrites a log, which may be started in any state  *)
(* and changes none of this.                                               *)
(***************************************************************************)
EXTENDS ClientInterface, Logger, OutputRewrite, SequencesExt

CONSTANT logger  \* the receiver that is the logger

\* The buffer of stdio holds more than the header and one line.
ASSUME RecordingAssumption == logger \in Receiver \ Detached /\ BufLen > 2

recordingVars == <<clientVars, loggerVars>>

\* The file, over all sessions.
Log == FlattenSeq([s \in DOMAIN ended |-> ended[s].part]) \o part

RecordingTypeOK == ClientTypeOK /\ LoggerTypeOK

RecordingInit == ClientInit /\ LoggerInit

\* main() of the logger up to the call of run_load_cell_cli().
Begin ==
  /\ StartLogger \/ OpenLog \/ WriteHeader
  /\ UNCHANGED clientVars

\* run_load_cell_cli() and the calls of its worker.
Connect ==
  /\ lpc = "cli"
  /\ Run(logger) \/ Setup(logger)
  /\ UNCHANGED loggerVars

CallBack == Receive(logger) /\ write_callback_batch(Head(waiting[logger]))

Writing ==
  /\ Fwrite \/ FlushBuffer \/ EmptyBuffer
  /\ UNCHANGED clientVars

CallBackReturns ==
  /\ todo = <<>>
  /\ CallbackReturns(logger)
  /\ UNCHANGED loggerVars

Return == rpc[logger] = "returned" /\ LoggerReturns /\ ReceiverEnds(logger)

Signal == (handler \/ KillLogger) /\ ReceiverEnds(logger)

Worker(r) == Setup(r) \/ Receive(r) \/ CallbackReturns(r)

Others ==
  /\ \/ Arrive
     \/ \E r \in Receiver \ {logger} :
          \/ Run(r) \/ Worker(r)
          \/ rpc[r] # "none" /\ ReceiverEnds(r)
  /\ UNCHANGED loggerVars

RecordingNext ==
  \/ Begin \/ Connect \/ CallBack \/ Writing \/ CallBackReturns \/ Return
  \/ Signal \/ Others

\* The logger is scheduled, and so are the workers of the other receivers.
RecordingSpec ==
  /\ RecordingInit /\ [][RecordingNext]_recordingVars
  /\ WF_recordingVars(Connect \/ CallBack \/ Writing \/ CallBackReturns)
  /\ \A r \in Receiver \ {logger} : WF_recordingVars(Worker(r) /\ UNCHANGED loggerVars)

-----------------------------------------------------------------------------
(* What output_rewrite makes of the log if it is started now.               *)

Doubled == \E s \in DOMAIN ended : ended[s].how = "doubled"

\* Where the lines end that are in the log in whole.
Complete == {i \in DOMAIN Log : EndsLine(Log[i]) /\ ~IsHeader(Log[i])}

\* It finds every line that is in the log in whole, in order, whatever
\* sessions before and after it were cut - the header of a session ends the
\* line that the session before may have left without a newline - and the
\* first sample of all is at time zero ("rewrites the timesteps to start at
\* zero", output_rewrite.c 2).
RewriteKeepsSamples ==
  ~Doubled =>
    LET rewritten == Rewritten(Log)
        samples == {k \in DOMAIN rewritten : ~rewritten[k].stray}
    IN /\ Cardinality(samples) = Cardinality(Complete)
       /\ \A n \in 1 .. Cardinality(samples) :
            rewritten[Nth(samples, n)].time =
              Log[Nth(Complete, n)].stamp - Log[Nth(Complete, 1)].stamp

\* It takes for a sample what is none at most once for each session that was
\* cut or still runs, and once more for one that was flushed twice.
OneStrayPerCut ==
  LET rewritten == Rewritten(Log)
      endings(hows) == Cardinality({s \in DOMAIN ended : ended[s].how \in hows})
  IN Cardinality({k \in DOMAIN rewritten : rewritten[k].stray}) <=
       endings({"cut", "killed", "doubled"}) + endings({"doubled"})
         + (IF lpc = "off" THEN 0 ELSE 1)
=============================================================================
