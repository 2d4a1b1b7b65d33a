------------------------------- MODULE Actor -------------------------------
(***************************************************************************)
(* load_cell_actor.c: the program that pings the server, resets its ADC or *)
(* tares it.  Each actor is a process with two threads: one averages the   *)
(* broadcast values (the receive loop of load_cell_cli.c), main() learns   *)
(* the server's address from a datagram of its own and talks to the        *)
(* auxiliary server over TCP.  An actor is named by the connection it uses.*)
(***************************************************************************)
EXTENDS AuxServer

CONSTANTS
  MaxCount,     \* bound: values an actor adds to one average
  Mortal,       \* bound: the actors that may be interrupted
  Destinations  \* what kinds of address the server may have been given

ASSUME MaxCountAssumption == MaxCount \in Nat \ {0}
ASSUME MortalAssumption == Mortal \subseteq Conns
ASSUME DestinationsAssumption == Destinations \subseteq {"broadcast", "unicast"}

VARIABLES
  dest,   \* the server's argument: where its datagrams go
  op,     \* argv[1]: the command this actor was started for
  act,    \* program counter of its main()
  avg,    \* `struct average_data`: the running sum and count
  prior,  \* the average main() read, sent as the tare
  out     \* what it told its user: "nothing", "succeeded" or "failed"

actorVars == <<dest, op, act, avg, prior, out>>

NoAverage == [sum |-> 0, count |-> 0]

\* avg->value: zero until a first value arrives.
Value(a) == IF avg[a].count = 0 THEN 0 ELSE avg[a].sum \div avg[a].count

ActorPcs == {"start", "prior", "address", "connect", "write", "read", "post",
             "exit", "done"}

ActorTypeOK ==
  /\ dest \in Destinations
  /\ op \in [Conns -> Ops]
  /\ act \in [Conns -> ActorPcs]
  /\ avg \in [Conns -> [sum : Int, count : 0 .. MaxCount]]
  /\ prior \in [Conns -> Int]
  /\ out \in [Conns -> {"nothing", "succeeded", "failed"}]

ActorInit ==
  /\ dest \in Destinations
  /\ op \in [Conns -> Ops]
  /\ act = [a \in Conns |-> "start"]
  /\ avg = [a \in Conns |-> NoAverage]
  /\ prior = [a \in Conns |-> 0]
  /\ out = [a \in Conns |-> "nothing"]

ActorGoto(a, from, to) == act[a] = from /\ act' = [act EXCEPT ![a] = to]

-----------------------------------------------------------------------------
(* The receive thread and the network.                                      *)

\* The actors whose average is being collected, and those waiting in
\* get_server_address.  Values also come in at other times, but every
\* average is cleared before it is collected.
Averaging == {a \in Conns : act[a] = "prior"}
Seeking == {a \in Conns : act[a] = "address"}

\* write_callback(), a no-op in the FAST_AS_POSSIBLE build.
Averaged(average, value) ==
  IF FastAsPossible \/ average.count = MaxCount
    THEN average
    ELSE [sum |-> average.sum + value, count |-> average.count + 1]

\* A datagram arrives, or is lost, at each socket bound to the port: each
\* actor has one in its receive thread and, in get_server_address, another,
\* whose recvfrom() yields the address of the sender.  The sockets share the
\* port by SO_REUSEPORT: a unicast datagram goes to one of them at most, and
\* if that belongs to a receive thread whose average does not count, no
\* actor takes notice.
Deliver(value) ==
  \E heard \in SUBSET Averaging, found \in SUBSET Seeking :
    /\ dest = "unicast" => Cardinality(heard) + Cardinality(found) <= 1
    /\ avg' = [a \in Conns |-> IF a \in heard THEN Averaged(avg[a], value)
                                              ELSE avg[a]]
    /\ act' = [a \in Conns |-> IF a \in found THEN "connect" ELSE act[a]]
    /\ UNCHANGED <<dest, op, prior, out>>

-----------------------------------------------------------------------------
(* main() and send_server_message.                                          *)

\* Start the receive thread and clear the average; a tare sleeps while
\* values come in, the other commands go straight to the server.
Start(a) ==
  /\ ActorGoto(a, "start", IF op[a] = "OP_TARE" THEN "prior" ELSE "address")
  /\ avg' = [avg EXCEPT ![a] = NoAverage]
  /\ UNCHANGED <<dest, op, prior, out, auxVars>>

\* sleep(5) is over: however many values that was, their average counts.
ReadPrior(a) ==
  /\ ActorGoto(a, "prior", "address")
  /\ prior' = [prior EXCEPT ![a] = Value(a)]
  /\ UNCHANGED <<dest, op, avg, out, auxVars>>

\* socket(), setsockopt() or bind() failed and get_server_address returned
\* early: the address main() goes on to use was never written.
AddressUnset(a) ==
  /\ ActorGoto(a, "address", "connect")
  /\ UNCHANGED <<dest, op, avg, prior, out, auxVars>>

Fail(a) ==
  /\ act' = [act EXCEPT ![a] = "exit"]
  /\ out' = [out EXCEPT ![a] = "failed"]
  /\ UNCHANGED <<dest, op, avg, prior>>

ConnectTo(a) ==
  /\ ActorGoto(a, "connect", "write")
  /\ Connect(a)
  /\ UNCHANGED <<dest, op, avg, prior, out>>

\* socket() or bind() fails, or connect() does: nobody listens there, or
\* the handshake times out.
ConnectFails(a) ==
  /\ act[a] = "connect"
  /\ Fail(a)
  /\ UNCHANGED auxVars

WriteCommand(a) ==
  /\ ActorGoto(a, "write", "read")
  /\ Send(a, [type |-> op[a], value |-> prior[a]])
  /\ UNCHANGED <<dest, op, avg, prior, out>>

\* The server's end of the connection is closed.
ServerClosed(a) == sock[a] = "closed" \/ ~up

\* write() fails, or the kernel takes the command for a connection that has
\* no other end any more.
WriteUnheard(a) ==
  /\ act[a] = "write"
  /\ ServerClosed(a)
  /\ \/ Fail(a)
     \/ ActorGoto(a, "write", "read") /\ UNCHANGED <<dest, op, avg, prior, out>>
  /\ UNCHANGED auxVars

\* The message structure has a type of OP_ACK: main() reports success, and
\* after a tare it collects values once more.
Succeed(a) ==
  /\ act' = [act EXCEPT ![a] = IF op[a] = "OP_TARE" THEN "post" ELSE "exit"]
  /\ out' = [out EXCEPT ![a] = "succeeded"]
  /\ avg' = IF op[a] = "OP_TARE" THEN [avg EXCEPT ![a] = NoAverage] ELSE avg
  /\ UNCHANGED <<dest, op, prior>>

ReadReply(a) ==
  /\ act[a] = "read"
  /\ rep[a] = "OP_ACK"
  /\ Succeed(a)
  /\ UNCHANGED auxVars

\* MUTANT: the type of a reply that did not come is not looked at.
ReadEofSucceeds(a) ==
  /\ act[a] = "read"
  /\ ServerClosed(a) /\ rep[a] = "nothing" /\ req[a] = Silence
  /\ sock[a] # "queued"
  /\ Succeed(a)
  /\ UNCHANGED auxVars

\* MUTANT: a read of no bytes is retried like an interrupted one.
ReadEofRetries(a) ==
  /\ act[a] = "read"
  /\ ServerClosed(a) /\ rep[a] = "nothing" /\ req[a] = Silence
  /\ sock[a] # "queued"
  /\ UNCHANGED <<actorVars, auxVars>>

\* MUTANT: the command is sent again over the connection that was closed.
ReadEofResends(a) ==
  /\ act[a] = "read"
  /\ ServerClosed(a) /\ rep[a] = "nothing" /\ req[a] = Silence
  /\ sock[a] # "queued"
  /\ req' = [req EXCEPT ![a] = [type |-> op[a], value |-> prior[a]]]
  /\ UNCHANGED <<actorVars, cli, sock, rep, asked, handlerVars>>

\* A connection that was accepted has been closed with nothing left to read
\* on either side: read() returns 0 and `msg` still holds what was sent.
ReadEof(a) ==
  /\ act[a] = "read"
  /\ ServerClosed(a) /\ rep[a] = "nothing" /\ req[a] = Silence
  /\ sock[a] # "queued"
  /\ IF op[a] = "OP_ACK" THEN Succeed(a) ELSE Fail(a)
  /\ UNCHANGED auxVars

\* The connection was reset: closed with the command unread, before it came,
\* or before it was accepted.
ReadFails(a) ==
  /\ act[a] = "read"
  /\ ServerClosed(a) /\ rep[a] = "nothing"
  /\ req[a] # Silence \/ asked[a] = "none"
  /\ Fail(a)
  /\ UNCHANGED auxVars

\* sleep(5) after a tare
Post(a) ==
  /\ ActorGoto(a, "post", "exit")
  /\ UNCHANGED <<dest, op, avg, prior, out, auxVars>>

\* The process ends, and with it its end of the connection.
ActorExit(a) ==
  /\ ActorGoto(a, "exit", "done")
  /\ IF cli[a] = "open" THEN Leave(a) ELSE UNCHANGED auxVars
  /\ UNCHANGED <<dest, op, avg, prior, out>>

\* The user interrupts the program, which has no handler for the signal: it
\* ends on the spot, and the kernel closes its end of the connection.
ActorKilled(a) ==
  /\ a \in Mortal
  /\ act[a] # "done"
  /\ act' = [act EXCEPT ![a] = "done"]
  /\ IF cli[a] = "open" THEN Leave(a) ELSE UNCHANGED auxVars
  /\ UNCHANGED <<dest, op, avg, prior, out>>

ActorMain(a) ==
  \/ Start(a) \/ ReadPrior(a) \/ AddressUnset(a) \/ ConnectTo(a)
  \/ ConnectFails(a) \/ WriteCommand(a) \/ WriteUnheard(a) \/ ReadReply(a)
  \/ ReadEof(a) \/ ReadFails(a) \/ Post(a) \/ ActorExit(a)
=============================================================================
