------------------------------- MODULE Stream -------------------------------
(***************************************************************************)
(* What the load cell server promises its receivers, without threads,      *)
(* batches or a network: samples are taken one after the other; they are   *)
(* held until there are Limit of them and then sent together; and when a   *)
(* file is kept each sample is added to it once, after it has been sent if *)
(* it was the last of its group and before the next one is taken.          *)
(***************************************************************************)
EXTENDS Integers

CONSTANTS
  Limit,    \* samples that are sent together
  Horizon,  \* bound: the stamps of the samples count modulo Horizon
  Keeping   \* the samples are also added to a file

VARIABLES
  taken,  \* stamp of the newest sample
  held,   \* samples taken and not yet sent
  sent,   \* stamp of the newest sample that was sent
  kept    \* stamp of the newest sample in the file

streamVars == <<taken, held, sent, kept>>

\* The stamp of the sample that follows one stamped t.
Next(t) == IF t = Horizon - 1 THEN 0 ELSE t + 1

Init == taken = 0 /\ held = 0 /\ sent = 0 /\ kept = 0

Take ==
  /\ held < Limit
  /\ Keeping => kept = taken
  /\ taken' = Next(taken)
  /\ held' = held + 1
  /\ UNCHANGED <<sent, kept>>

Send ==
  /\ held = Limit
  /\ sent' = taken
  /\ held' = 0
  /\ UNCHANGED <<taken, kept>>

Keep ==
  /\ Keeping
  /\ held < Limit
  /\ kept' = taken
  /\ UNCHANGED <<taken, held, sent>>

Spec == Init /\ [][Take \/ Send \/ Keep]_streamVars
=============================================================================
