------------------------------ MODULE MCThreads ------------------------------
(***************************************************************************)
(* Values for TLC: two receivers on the host that the server was told to   *)
(* send to by its own address.                                             *)
(***************************************************************************)
EXTENDS ClientInterface

CONSTANTS logger, gui

Receivers == {logger, gui}
DetachedReceivers == {gui}
=============================================================================
