--------------------------- MODULE MCLoadCellServ ---------------------------
(***************************************************************************)
(* Values for TLC.  Two connections are enough for two handlers to race    *)
(* each other as well as main(); a batch of two has a first, a last and a  *)
(* stale slot; five stamps tell a repeated or a skipped sample or batch.   *)
(***************************************************************************)
EXTENDS LoadCellServ, TLC

CONSTANTS c1, c2

\* One connection is as good as another.
Symmetry == Permutations(Conns)
=============================================================================
