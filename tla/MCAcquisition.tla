--------------------------- MODULE MCAcquisition ---------------------------
(***************************************************************************)
(* Values for TLC: conversions at both ends of the range and about the     *)
(* border between its bytes.                                               *)
(***************************************************************************)
EXTENDS Acquisition

Conversions == {-32768, 255}
=============================================================================
