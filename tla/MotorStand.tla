----------------------------- MODULE MotorStand -----------------------------
(***************************************************************************)
(* The whole stand: the load cell server, the network and a number of      *)
(* actors (load_cell_actor.c) run against it.  A datagram is lost or       *)
(* handled at the moment it is sent.  TCP is reliable while both ends live.*)
(***************************************************************************)
EXTENDS LoadCellServ, Actor

systemVars == <<vars, actorVars>>

SystemInit == Init /\ ActorInit

\* This step of main() calls sendto().
Sending == mpc = "publish" /\ (FastAsPossible => batch.count + 1 = BatchSize)

\* MUTANT: the actors average the values a tare was already taken from.
SystemMainTared ==
  /\ Main
  /\ IF Sending THEN Deliver(o.value_tare) ELSE UNCHANGED actorVars

SystemMain ==
  /\ Main
  /\ IF Sending THEN Deliver(o.value) ELSE UNCHANGED actorVars

SystemSetup == Setup /\ UNCHANGED <<samplerVars, actorVars>>
SystemAccept(c) == Accept(c) /\ UNCHANGED <<samplerVars, actorVars>>
SystemHandler(c) == Handler(c) /\ UNCHANGED <<samplerVars, actorVars>>
SystemInterrupt == Interrupt /\ UNCHANGED actorVars
SystemActor(a) == ActorMain(a) /\ UNCHANGED <<sharedVars, samplerVars>>

SystemKill(a) == ActorKilled(a) /\ UNCHANGED <<sharedVars, samplerVars>>

SystemNext ==
  \/ SystemMain \/ SystemSetup \/ SystemInterrupt
  \/ \E c \in Conns : \/ SystemAccept(c) \/ SystemHandler(c)
                      \/ SystemActor(c) \/ SystemKill(c)

\* The schedulers run every thread that can run, and the kernel completes the
\* handshakes it has room for.  An actor that waits for a datagram owes no
\* step of its own: that a call in get_server_address fails is nobody's duty,
\* and neither is an interruption.  Of the datagrams that are broadcast the
\* network does not lose all; those for one host may all be given to another
\* socket on the port.
SystemFairness ==
  /\ WF_systemVars(SystemMain)
  /\ WF_systemVars(SystemSetup)
  /\ \A c \in Conns :
       /\ WF_systemVars(SystemAccept(c))
       /\ WF_systemVars(SystemHandler(c))
       /\ WF_systemVars(SystemActor(c) /\ act[c] # "address")
       /\ SF_systemVars(/\ SystemMain /\ dest = "broadcast"
                        /\ act[c] = "address" /\ act'[c] = "connect")

SystemSpec == SystemInit /\ [][SystemNext]_systemVars
FairSystemSpec == SystemSpec /\ SystemFairness

SystemTypeOK == TypeOK /\ ActorTypeOK

-----------------------------------------------------------------------------
(* What the users of the stand are promised.                                *)

\* "reset succeeded" and "tare succeeded" (actor 176, 191) are only printed
\* when the server has done it, whatever dies or is refused on the way.
SuccessIsReal ==
  \A a \in Conns :
    out[a] = "succeeded" /\ op[a] \in {"OP_RESET", "OP_TARE"}
      => applied[a] = op[a]

\* Tares do not add up: an actor averages the values before tare (36), so
\* under a steady load every tare it sends is that load - or 0 if it heard
\* nothing - no matter how often and by how many actors it is repeated.
TareIsLoad ==
  \A raw \in Readings :
    Readings = {raw} =>
      {tare} \cup {prior[a] : a \in Conns} \subseteq {0, Calibrated(raw)}

\* The actors are among the clients the server was modelled with: seen from
\* the server, the stand behaves as LoadCellServ says, so what holds of the
\* server alone holds of it here.
ServerSpec == Spec

\* A handler thread was never created for the connection (serv 123).
Abandoned(a) == sock[a] = "accepted" /\ hpc[a] = "unborn"

\* It waits in get_server_address for a datagram that nobody owes it: the
\* server was stopped, or sends to this host alone and the kernel picks
\* another of the sockets on the port - that of the actor's own receive
\* thread, perhaps - each time.
Unaddressed(a) == act[a] = "address" /\ (~up \/ dest = "unicast")

\* An actor ends, with one of its two answers (actor 167-202), unless it is
\* left without a datagram or without a handler.
ActorFinishes ==
  \A a \in Conns :
    act[a] = "start" ~> \/ act[a] = "done"
                        \/ Abandoned(a) /\ up
                        \/ Unaddressed(a)

-----------------------------------------------------------------------------
(* What the program says and does not keep.                                 *)

\* "pong" (actor 170) means that the server answered.
PongIsAnswer ==
  \A a \in Conns :
    out[a] = "succeeded" /\ op[a] = "OP_ACK" => rep[a] = "OP_ACK"
=============================================================================
