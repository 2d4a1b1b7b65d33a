---------------------------- MODULE LoadCellServ ----------------------------
(***************************************************************************)
(* The load cell server: its main thread, its auxiliary server and the     *)
(* SIGINT handler, interleaved.  The modules that make it up share the     *)
(* variables of ServerState; each leaves the others' private ones alone.   *)
(***************************************************************************)
EXTENDS Sampler, AuxServer

vars == <<sharedVars, samplerVars, auxVars>>

Init == SharedInit /\ SamplerInit /\ AuxInit

Interrupt == Sigint /\ UNCHANGED <<samplerVars, auxVars>>
Main == SamplerNext /\ UNCHANGED auxVars
Auxiliary == AuxNext /\ UNCHANGED samplerVars

\* After main() has returned nothing is left to happen but in the clients.
Next == Main \/ Auxiliary \/ Interrupt

\* The scheduler runs every thread that can run.  Neither a client nor the
\* user at the terminal owes the server a step.
Fairness ==
  /\ WF_vars(Main)
  /\ WF_vars(Setup /\ UNCHANGED samplerVars)
  /\ \A c \in Conns :
       /\ WF_vars(Accept(c) /\ UNCHANGED samplerVars)
       /\ WF_vars(Handler(c) /\ UNCHANGED samplerVars)

Spec == Init /\ [][Next]_vars
FairSpec == Spec /\ Fairness

\* The variables of all parts together hold what their declarations allow.
TypeOK == SharedTypeOK /\ SamplerTypeOK /\ AuxTypeOK

-----------------------------------------------------------------------------
(* Safety.                                                                  *)

\* A reset that a handler has asked for, and so may have acknowledged, is
\* either still flagged for main() or main() is about to reset the ADC: no
\* interleaving of the compare-and-swap loops of main() and the handlers
\* (load_cell_serv.c 50-53 and 374-382) drops it.
NoLostReset == owed # {} => reset = 1 \/ mpc = "resetadc"

\* The first and the last time stamp in a message.
FirstStamp(msg) ==
  IF FastAsPossible THEN msg.data[0].collect_time ELSE msg.collect_time
LastStamp(msg) ==
  IF FastAsPossible THEN msg.data[BatchSize - 1].collect_time
                    ELSE msg.collect_time

\* The newest sample that has been broadcast, and the newest one that has
\* been broadcast or put in the batch; stamp 0 before the first of the run.
LastSent == IF wire = NoMsg THEN 0 ELSE LastStamp(wire)
LastPublished ==
  IF batch.count > 0 THEN batch.data[batch.count - 1].collect_time
                     ELSE LastSent

\* The first n entries of a batch were taken one after the other.
Consecutive(data, n) ==
  \A i \in 0 .. n - 2 : data[i + 1].collect_time = Tick(data[i].collect_time)

\* What has been broadcast, what waits in the batch and the sample in
\* main()'s hands are one unbroken run of samples: push_batch (130-142)
\* drops, repeats and reorders none, whichever slots it finds stale data in.
StreamHasNoHoles ==
  /\ o.collect_time = IF mpc = "publish" THEN Tick(LastPublished)
                                         ELSE LastPublished
  /\ batch.count > 0 => batch.data[0].collect_time = Tick(LastSent)
  /\ Consecutive(batch.data, batch.count)
  /\ IF FastAsPossible
       THEN wire # NoMsg =>
              wire.count = BatchSize /\ Consecutive(wire.data, BatchSize)
       ELSE batch.count = 0

\* Every message main() sends takes up exactly where the one before ended,
\* in both builds (359-364): a receiver can tell a lost datagram by the gap.
DatagramsFollow ==
  [][wire' # wire => FirstStamp(wire') = Tick(LastSent)]_vars

\* The writethrough file (366-372) gets every sample exactly once and in
\* order, and a sample is broadcast just before it is written, never after
\* a later one and never without being the file's next.
FileIsComplete ==
  [][writethrough =>
       /\ file' # file => file' = Tick(file)
       /\ wire' # wire => LastStamp(wire') = Tick(file)]_vars

\* After a handler has stored a new tare (59), at most the one sample main()
\* had already converted still goes out with the old one (357-363).
AtMostOneStalePacket == stale <= 1

\* A client that reads an acknowledgement has been told the truth: what it
\* sent is a command the server knows, and unless that was only a ping it
\* has been carried out.  Nothing is carried out that was not asked for
\* (47-74).
AckAfterEffect ==
  \A c \in Conns :
    /\ rep[c] = "OP_ACK" => asked[c] \in {"OP_ACK", applied[c]} \ {"none"}
    /\ applied[c] \in {"none", asked[c]}

-----------------------------------------------------------------------------
(* The abstract specification.                                              *)

\* A sample belongs to the group that is held from the moment it is taken.
Promised ==
  INSTANCE Stream WITH
    Limit   <- IF FastAsPossible THEN BatchSize ELSE 1,
    Keeping <- writethrough,
    taken   <- o.collect_time,
    held    <- IF mpc = "publish" THEN batch.count + 1 ELSE batch.count,
    sent    <- LastSent,
    kept    <- file

\* Threads, batches, resets, tares and signals (325-397) are invisible in
\* the samples that reach the network and the file: the server implements
\* Stream.
ImplementsStream == Promised!Spec

-----------------------------------------------------------------------------
(* Liveness.                                                                *)

\* Every reset asked for reaches the ADC, unless the server is stopped
\* first: however the requests interleave with main()'s polling, again and
\* again the moment comes when none is outstanding.
ResetServed == owed # {} ~> owed = {} \/ ~up

\* A handler that has something to read, or whose client has left, gets to
\* close its connection: the retries of its compare-and-swap end.
HandlerCompletes ==
  \A c \in Conns :
    hpc[c] = "read" /\ (req[c] # Silence \/ cli[c] = "gone")
      ~> hpc[c] = "done" \/ ~up

\* SIGINT stops the server, whatever main() is doing when it arrives.
StopsOnInterrupt == ~global ~> ~up

-----------------------------------------------------------------------------
(* What the README says and the code does not do.                           *)

\* "The server will broadcast all data it collects" (README.md:54-56): when
\* main() has returned, nothing it collected is left unsent.
TailIsSent == mpc = "exited" => batch.count = 0
=============================================================================
