------------------------------ MODULE AuxServer ------------------------------
(***************************************************************************)
(* The auxiliary server of load_cell_serv.c: a thread that accepts TCP     *)
(* connections and, for each, a detached thread that reads one command,    *)
(* carries it out on the atomics it shares with main(), acknowledges it    *)
(* and closes the connection.  The kernel's side of a connection, and a    *)
(* client that may send anything and leave at any time, are modelled from  *)
(* how the code uses them.                                                 *)
(***************************************************************************)
EXTENDS ServerState, FiniteSets

CONSTANT Backlog  \* connections the kernel keeps waiting for accept()

ASSUME BacklogAssumption == Backlog \in Nat \ {0}

VARIABLES
  cli,     \* the client's end of each connection: "idle", "open" or "gone"
  sock,    \* the server's end: "none", "queued", "accepted" or "closed"
  req,     \* the command in the server's receive buffer, or Silence
  rep,     \* what the client can read: Silence or the acknowledgement
  hpc,     \* program counter of each handler thread
  hmsg,    \* a handler's local `msg`
  hexp,    \* a handler's local `expected`
  asked,   \* history: the type of the command sent on each connection
  applied  \* history: the type of the command carried out for it

tcpVars == <<cli, sock, req, rep, asked>>
handlerVars == <<hpc, hmsg, hexp, applied>>
auxVars == <<tcpVars, handlerVars>>

Ops == {"OP_RESET", "OP_TARE", "OP_ACK"}
Command == [type : Ops \cup {"unknown"}, value : TareValues]

\* A message structure nothing was read into: its type is -1.
Silence == [type |-> "none", value |-> 0]

HandlerPcs == {"unborn", "read", "load", "swap", "tare", "ack", "finish", "done"}

AuxTypeOK ==
  /\ cli \in [Conns -> {"idle", "open", "gone"}]
  /\ sock \in [Conns -> {"none", "queued", "accepted", "closed"}]
  /\ req \in [Conns -> Command \cup {Silence}]
  /\ rep \in [Conns -> {"nothing", "OP_ACK"}]
  /\ hpc \in [Conns -> HandlerPcs]
  /\ hmsg \in [Conns -> Command \cup {Silence}]
  /\ hexp \in [Conns -> {0, 1}]
  /\ asked \in [Conns -> Ops \cup {"unknown", "none"}]
  /\ applied \in [Conns -> {"OP_RESET", "OP_TARE", "none"}]

AuxInit ==
  /\ cli = [c \in Conns |-> "idle"]
  /\ sock = [c \in Conns |-> "none"]
  /\ req = [c \in Conns |-> Silence]
  /\ rep = [c \in Conns |-> "nothing"]
  /\ hpc = [c \in Conns |-> "unborn"]
  /\ hmsg = [c \in Conns |-> Silence]
  /\ hexp = [c \in Conns |-> 0]
  /\ asked = [c \in Conns |-> "none"]
  /\ applied = [c \in Conns |-> "none"]

-----------------------------------------------------------------------------
(* The accept thread.                                                       *)

\* socket(), bind() and listen(): if one of them fails the thread returns,
\* and the server goes on sampling without it.
Setup ==
  /\ up
  /\ apc = "setup"
  /\ apc' \in {"listening", "failed"}
  /\ UNCHANGED <<global, reset, tare, up, owed, stale, auxVars>>

\* accept(), malloc() and pthread_create().  The result of the last is not
\* looked at: when it fails the connection stays open with nobody behind it.
Accept(c) ==
  /\ up
  /\ apc = "listening"
  /\ sock[c] = "queued"
  /\ sock' = [sock EXCEPT ![c] = "accepted"]
  /\ \/ hpc' = [hpc EXCEPT ![c] = "read"]
     \/ UNCHANGED hpc
  /\ UNCHANGED <<sharedVars, cli, req, rep, asked, hmsg, hexp, applied>>

-----------------------------------------------------------------------------
(* handle_auxillary_command, one action per access to something shared.     *)

HandlerAt(c, pc) == up /\ hpc[c] = pc
HandlerGoto(c, pc) == hpc' = [hpc EXCEPT ![c] = pc]

\* MUTANT: the default case breaks out of the switch like the others.
DispatchDefaultAcks(type) ==
  CASE type = "OP_RESET" -> "load"
    [] type = "OP_TARE"  -> "tare"
    [] OTHER             -> "ack"

\* Where the switch on msg.type leads.
Dispatch(type) ==
  CASE type = "OP_RESET" -> "load"
    [] type = "OP_TARE"  -> "tare"
    [] type = "OP_ACK"   -> "ack"
    [] OTHER             -> "finish"

\* read() returns the command, or nothing once the client is gone, which
\* leaves `msg` as it was initialised.
HandlerRead(c) ==
  /\ HandlerAt(c, "read")
  /\ req[c] # Silence \/ cli[c] = "gone"
  /\ hmsg' = [hmsg EXCEPT ![c] = req[c]]
  /\ req' = [req EXCEPT ![c] = Silence]
  /\ HandlerGoto(c, Dispatch(req[c].type))
  /\ UNCHANGED <<sharedVars, cli, sock, rep, asked, hexp, applied>>

\* expected = atomic_load(handler->data.reset)
HandlerLoad(c) ==
  /\ HandlerAt(c, "load")
  /\ hexp' = [hexp EXCEPT ![c] = reset]
  /\ HandlerGoto(c, "swap")
  /\ UNCHANGED <<sharedVars, tcpVars, hmsg, applied>>

\* MUTANT: the retry does not load the flag again.
HandlerSwapNoReload(c) ==
  /\ HandlerAt(c, "swap")
  /\ IF reset = hexp[c]
       THEN /\ reset' = 1
            /\ owed' = owed \cup {c}
            /\ applied' = [applied EXCEPT ![c] = "OP_RESET"]
            /\ HandlerGoto(c, "ack")
       ELSE UNCHANGED <<reset, owed, applied, hpc>>
  /\ UNCHANGED <<global, tare, apc, up, stale, tcpVars, hmsg, hexp>>

\* atomic_compare_exchange_strong(handler->data.reset, &expected, 1)
HandlerSwap(c) ==
  /\ HandlerAt(c, "swap")
  /\ IF reset = hexp[c]
       THEN /\ reset' = 1
            /\ owed' = owed \cup {c}
            /\ applied' = [applied EXCEPT ![c] = "OP_RESET"]
            /\ HandlerGoto(c, "ack")
       ELSE /\ HandlerGoto(c, "load")
            /\ UNCHANGED <<reset, owed, applied>>
  /\ UNCHANGED <<global, tare, apc, up, stale, tcpVars, hmsg, hexp>>

\* MUTANT: the tare is added to the one in force.
HandlerTareAdds(c) ==
  /\ HandlerAt(c, "tare")
  /\ tare' = tare + hmsg[c].value
  /\ stale' = 0
  /\ applied' = [applied EXCEPT ![c] = "OP_TARE"]
  /\ HandlerGoto(c, "ack")
  /\ UNCHANGED <<global, reset, apc, up, owed, tcpVars, hmsg, hexp>>

\* atomic_store(handler->data.tare, msg.value)
HandlerTare(c) ==
  /\ HandlerAt(c, "tare")
  /\ tare' = hmsg[c].value
  /\ stale' = 0
  /\ applied' = [applied EXCEPT ![c] = "OP_TARE"]
  /\ HandlerGoto(c, "ack")
  /\ UNCHANGED <<global, reset, apc, up, owed, tcpVars, hmsg, hexp>>

\* The same structure goes back with its type overwritten; a client that
\* has left does not get it.
HandlerAck(c) ==
  /\ HandlerAt(c, "ack")
  /\ hmsg' = [hmsg EXCEPT ![c].type = "OP_ACK"]
  /\ IF cli[c] = "open" THEN rep' = [rep EXCEPT ![c] = "OP_ACK"]
                        ELSE UNCHANGED rep
  /\ HandlerGoto(c, "finish")
  /\ UNCHANGED <<sharedVars, cli, sock, req, asked, hexp, applied>>

\* close() and free()
HandlerFinish(c) ==
  /\ HandlerAt(c, "finish")
  /\ sock' = [sock EXCEPT ![c] = "closed"]
  /\ HandlerGoto(c, "done")
  /\ UNCHANGED <<sharedVars, cli, req, rep, asked, hmsg, hexp, applied>>

Handler(c) ==
  \/ HandlerRead(c) \/ HandlerLoad(c) \/ HandlerSwap(c)
  \/ HandlerTare(c) \/ HandlerAck(c) \/ HandlerFinish(c)

-----------------------------------------------------------------------------
(* The clients, and the kernel between them and the server.                 *)

Waiting == {c \in Conns : sock[c] = "queued"}

\* The handshake is the kernel's: it completes before accept() is called,
\* as long as the queue has room.
Connect(c) ==
  /\ up /\ apc = "listening"
  /\ cli[c] = "idle"
  /\ Cardinality(Waiting) < Backlog
  /\ cli' = [cli EXCEPT ![c] = "open"]
  /\ sock' = [sock EXCEPT ![c] = "queued"]
  /\ UNCHANGED <<sharedVars, req, rep, asked, handlerVars>>

\* One command per connection, sent before or after it is accepted.  Only
\* OP_TARE carries a value.
Send(c, m) ==
  /\ up
  /\ cli[c] = "open"
  /\ sock[c] \in {"queued", "accepted"}
  /\ asked[c] = "none"
  /\ m.type # "OP_TARE" => m.value = 0
  /\ req' = [req EXCEPT ![c] = m]
  /\ asked' = [asked EXCEPT ![c] = m.type]
  /\ UNCHANGED <<sharedVars, cli, sock, rep, handlerVars>>

Leave(c) ==
  /\ cli[c] = "open"
  /\ cli' = [cli EXCEPT ![c] = "gone"]
  /\ UNCHANGED <<sharedVars, sock, req, rep, asked, handlerVars>>

Client(c) == Connect(c) \/ Leave(c) \/ \E m \in Command : Send(c, m)

AuxNext == Setup \/ \E c \in Conns : Accept(c) \/ Handler(c) \/ Client(c)
=============================================================================
