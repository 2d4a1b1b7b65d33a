---------------------------- MODULE MCMotorStand ----------------------------
(***************************************************************************)
(* Values for TLC: two actors, started for any pair of commands, race each *)
(* other and main(); one load, so that an average of values is that load.  *)
(***************************************************************************)
EXTENDS MotorStand, TLC

CONSTANTS c1, c2

\* One actor is as good as another.
Symmetry == Permutations(Conns)

\* The same for liveness, where symmetry is unsound: the pairs of commands
\* that differ only in which actor was given which are tried once, and with
\* a server that sends to one host the second actor pings.
OrderedInit ==
  /\ SystemInit
  /\ op[c2] = "OP_RESET" => op[c1] = "OP_RESET"
  /\ op[c2] = "OP_TARE" => op[c1] # "OP_ACK"
  /\ dest = "unicast" => op[c2] = "OP_ACK"
OrderedFairSpec == OrderedInit /\ [][SystemNext]_systemVars /\ SystemFairness
=============================================================================
