--------------------------- MODULE ClientInterface ---------------------------
(***************************************************************************)
(* load_cell_cli.c: how programs receive the datagrams of the server.      *)
(* Every receiver, a program or a thread of one, binds a socket of its own *)
(* to the same port.  The kernel hands a broadcast datagram to all of the  *)
(* sockets and a unicast one to one of them; a socket whose queue is full  *)
(* drops it.  On the way it may be lost, but it is not overtaken.          *)
(***************************************************************************)
EXTENDS Naturals, Sequences

CONSTANTS
  Receiver,   \* the callers of run_load_cell_cli()
  Detached,   \* those that pass LC_CLI_DETACH
  Unicast,    \* the server was given the address of this host alone
  QueueLen,   \* datagrams that the queue of a socket holds
  MaxSent     \* bound: datagrams sent

ASSUME ReceiverAssumption ==
  /\ Detached \subseteq Receiver
  /\ Unicast \in BOOLEAN
  /\ QueueLen \in Nat \ {0}
  /\ MaxSent \in Nat

VARIABLES
  rpc,      \* where the worker of each receiver is
  result,   \* what run_load_cell_cli() returned: "none" is not yet
  waiting,  \* the datagrams in the queue of each socket, as numbers
  called,   \* history: the datagrams that each callback was called with
  due,      \* history: the datagrams that came to this host while the
            \* socket was bound and had room
  sent      \* datagrams sent so far

clientVars == <<rpc, result, waiting, called, due, sent>>

Batch == 1 .. MaxSent

ClientTypeOK ==
  /\ rpc \in [Receiver -> {"none", "socket", "reuseport", "bind", "recvfrom",
                           "callback", "returned"}]
  /\ result \in [Receiver -> {"none", "thread_id", "RUN_FAILURE"}]
  /\ waiting \in [Receiver -> Seq(Batch)]
  /\ called \in [Receiver -> Seq(Batch)]
  /\ due \in [Receiver -> SUBSET Batch]
  /\ sent \in 0 .. MaxSent

ClientInit ==
  /\ rpc = [r \in Receiver |-> "none"]
  /\ result = [r \in Receiver |-> "none"]
  /\ waiting = [r \in Receiver |-> <<>>]
  /\ called = [r \in Receiver |-> <<>>]
  /\ due = [r \in Receiver |-> {}]
  /\ sent = 0

\* run_load_cell_cli() is called.  When it detaches it returns before the
\* worker has done anything.  pthread_create() fails, or a receiver that does
\* not detach has passed a behaviour that is neither of the two.
Run(r) ==
  /\ rpc[r] = "none"
  /\ \/ /\ rpc' = [rpc EXCEPT ![r] = "socket"]
        /\ result' = IF r \in Detached THEN [result EXCEPT ![r] = "thread_id"] ELSE result
     \/ /\ rpc' = [rpc EXCEPT ![r] = "returned"]
        /\ result' = [result EXCEPT ![r] = "RUN_FAILURE"]
  /\ UNCHANGED <<waiting, called, due, sent>>

\* The step of the worker after one of its first three system calls.
After == [socket |-> "reuseport", reuseport |-> "bind", bind |-> "recvfrom"]

\* The worker returns; nobody looks at what a detached one returns.
WorkerReturns(r) ==
  /\ rpc' = [rpc EXCEPT ![r] = "returned"]
  /\ result' = IF r \in Detached THEN result ELSE [result EXCEPT ![r] = "RUN_FAILURE"]

\* MUTANT: a failure is reported, and the worker goes on.
SetupGoesOn(r) ==
  /\ rpc[r] \in DOMAIN After
  /\ rpc' = [rpc EXCEPT ![r] = After[@]]
  /\ result' \in {result, [result EXCEPT ![r] = "RUN_FAILURE"]}
  /\ UNCHANGED <<waiting, called, due, sent>>

\* socket(), setsockopt() with SO_REUSEPORT and bind(); each may fail.
Setup(r) ==
  /\ rpc[r] \in DOMAIN After
  /\ \/ rpc' = [rpc EXCEPT ![r] = After[@]] /\ UNCHANGED result
     \/ WorkerReturns(r)
  /\ UNCHANGED <<waiting, called, due, sent>>

\* MUTANT: the datagram stays in the queue.
ReceivePeeks(r) ==
  /\ rpc[r] = "recvfrom" /\ waiting[r] # <<>>
  /\ rpc' = [rpc EXCEPT ![r] = "callback"]
  /\ called' = [called EXCEPT ![r] = Append(@, Head(waiting[r]))]
  /\ UNCHANGED <<result, waiting, due, sent>>

\* MUTANT: everything that waits is taken, and the callback gets the first.
ReceiveDrains(r) ==
  /\ rpc[r] = "recvfrom" /\ waiting[r] # <<>>
  /\ rpc' = [rpc EXCEPT ![r] = "callback"]
  /\ waiting' = [waiting EXCEPT ![r] = <<>>]
  /\ called' = [called EXCEPT ![r] = Append(@, Head(waiting[r]))]
  /\ UNCHANGED <<result, due, sent>>

\* recvfrom() returns and the callback is called with the datagram.
Receive(r) ==
  /\ rpc[r] = "recvfrom" /\ waiting[r] # <<>>
  /\ rpc' = [rpc EXCEPT ![r] = "callback"]
  /\ waiting' = [waiting EXCEPT ![r] = Tail(@)]
  /\ called' = [called EXCEPT ![r] = Append(@, Head(waiting[r]))]
  /\ UNCHANGED <<result, due, sent>>

CallbackReturns(r) ==
  /\ rpc[r] = "callback"
  /\ rpc' = [rpc EXCEPT ![r] = "recvfrom"]
  /\ UNCHANGED <<result, waiting, called, due, sent>>

\* The process of r is gone, and its socket with it.
ReceiverEnds(r) ==
  /\ rpc' = [rpc EXCEPT ![r] = "none"]
  /\ result' = [result EXCEPT ![r] = "none"]
  /\ waiting' = [waiting EXCEPT ![r] = <<>>]
  /\ called' = [called EXCEPT ![r] = <<>>]
  /\ due' = [due EXCEPT ![r] = {}]
  /\ UNCHANGED sent

Bound == {r \in Receiver : rpc[r] \in {"recvfrom", "callback"}}
Ready == {r \in Bound : Len(waiting[r]) < QueueLen}

\* The sockets that a datagram may be handed to when it comes to this host.
Handed == IF Unicast THEN {{r} : r \in Bound} ELSE {Bound}

\* The next datagram is sent.  It is lost on the way, or handed to the
\* sockets in `to`, of which those that have room take it.
Arrive ==
  /\ sent < MaxSent
  /\ sent' = sent + 1
  /\ \/ UNCHANGED <<waiting, due>>
     \/ \E to \in Handed :
          /\ waiting' = [r \in Receiver |-> IF r \in to \cap Ready
                                              THEN Append(waiting[r], sent + 1) ELSE waiting[r]]
          /\ due' = [r \in Receiver |-> IF r \in Ready
                                          THEN due[r] \cup {sent + 1} ELSE due[r]]
  /\ UNCHANGED <<rpc, result, called>>

ClientNext ==
  \/ Arrive
  \/ \E r \in Receiver :
       \/ Run(r) \/ Setup(r) \/ Receive(r) \/ CallbackReturns(r)
       \/ rpc[r] # "none" /\ ReceiverEnds(r)

\* Workers are scheduled, and the callbacks return.
ClientFairness(r) == WF_clientVars(Setup(r) \/ Receive(r) \/ CallbackReturns(r))

ClientSpec ==
  /\ ClientInit /\ [][ClientNext]_clientVars
  /\ \A r \in Receiver : ClientFairness(r)

-----------------------------------------------------------------------------
\* The callback is called with each datagram at most once and in the order
\* in which they were sent, with what waits still to come (54-64).
CallbacksInOrder ==
  \A r \in Receiver :
    LET all == called[r] \o waiting[r]
    IN \A i, j \in 1 .. Len(all) : i < j => all[i] < all[j]

\* Once run_load_cell_cli() has returned RUN_FAILURE the callback is not
\* called and will not be: the caller may drop what uarg points to.
FailureMeansNoCallbacks ==
  \A r \in Receiver :
    result[r] = "RUN_FAILURE" => rpc[r] = "returned"

\* "This function will run a given callback every time a packet is
\* received" (README.md 99): each datagram that came to this host while the
\* socket of a receiver had room for it reaches its callback, unless the
\* receiver ends before.
EveryPacketCalledBack ==
  \A r \in Receiver : \A k \in Batch :
    k \in due[r] ~> (rpc[r] = "none" \/ \E i \in DOMAIN called[r] : called[r][i] = k)
=============================================================================
