----------------------------- MODULE MCRecording -----------------------------
(***************************************************************************)
(* Values for TLC: the logger and the receive thread of a GUI.             *)
(***************************************************************************)
EXTENDS Recording

CONSTANT gui  \* the receiver that is the GUI

Receivers == {logger, gui}
DetachedReceivers == {gui}
=============================================================================
