----------------------------- MODULE ServerState -----------------------------
(***************************************************************************)
(* What the threads of the load cell server share: the stop flag, the two  *)
(* atomics that main() hands to the auxiliary server by address, and the   *)
(* life of the process.  The main thread is module Sampler, the accept     *)
(* thread and the per-connection handler threads are module AuxServer.     *)
(***************************************************************************)
EXTENDS Integers

CONSTANTS
  FastAsPossible,  \* the FAST_AS_POSSIBLE build of load_cell.h
  Conns,           \* connection attempts to the auxiliary port, one handler each
  TareValues       \* the values an OP_TARE message may carry

ASSUME BuildAssumption == FastAsPossible \in BOOLEAN
ASSUME TareAssumption == TareValues \subseteq Int /\ 0 \in TareValues

VARIABLES
  global,  \* `static int global`: cleared by the SIGINT handler
  reset,   \* atomic_int: a reset of the ADC has been asked for
  tare,    \* _Atomic(double): subtracted from every value
  apc,     \* the accept thread: "unborn", "setup", "listening" or "failed"
  up,      \* the server process exists
  owed,    \* history: connections whose reset the ADC has not yet seen
  stale    \* history: packets sent with an older tare than the last stored

sharedVars == <<global, reset, tare, apc, up, owed, stale>>

SharedTypeOK ==
  /\ global \in BOOLEAN
  /\ reset \in {0, 1}
  /\ tare \in TareValues
  /\ apc \in {"unborn", "setup", "listening", "failed"}
  /\ up \in BOOLEAN
  /\ owed \subseteq Conns
  /\ stale \in Nat

\* What main() has built by the time it installs the SIGINT handler and
\* enters its service: `global` is 1, both atomics hold 0, and the thread
\* that will accept connections has not been created.
SharedInit ==
  /\ global = TRUE
  /\ reset = 0
  /\ tare = 0
  /\ apc = "unborn"
  /\ up = TRUE
  /\ owed = {}
  /\ stale = 0

\* The SIGINT handler.  It is installed before the first modelled step and
\* may run between any two of them, on whichever thread takes the signal.
Sigint ==
  /\ up
  /\ global' = FALSE
  /\ UNCHANGED <<reset, tare, apc, up, owed, stale>>
=============================================================================
