---------------------------- MODULE MCCalibration ----------------------------
(***************************************************************************)
(* Values for TLC: a small ADC, load cells that turn either way, weights   *)
(* of one and two digits, and one weight more than the tool's first        *)
(* buffers hold.                                                           *)
(***************************************************************************)
EXTENDS Calibration

CellGains == {2, -3}
CellZeros == {-2, 4}

\* One line that no load cell has stands for all that are wrong.
WrongLine == {[m |-> [n |-> 0, d |-> 10], b |-> [n |-> 7, d |-> 10]]}
=============================================================================
