# Motor stand: TLA+ models, checks and proofs

This directory specifies the motor stand of this repository: the load cell
server, the programs that talk to it, its calibration and its graphical client.
Paths below are relative to the repository; *serv* is `src/load_cell_serv.c`,
*actor* `src/load_cell_actor.c`, *cli* `src/load_cell_cli.c`, *gui*
`src/teststandui.c`, *adc* `src/ads1115.c`, *logger* `src/load_cell_logger.c`.
Numbers after them are lines.

## 1. The system

| part | state | operations |
|---|---|---|
| server, main thread (*serv* 325-397) | `global`, `reset`, `tare`, the batch, the writethrough file | one iteration per sample: read the ADC, stamp, convert, publish by UDP (one by one, or in batches when `FAST_AS_POSSIBLE` is set), write to disk, serve a reset |
| server, auxiliary thread (*serv* 36-128) | listening socket, one detached handler thread per TCP connection | accept; read one command, change `reset` or `tare`, acknowledge, close |
| server, signal handler (*serv* 26-32) | `global` | SIGINT clears the flag the main loop tests |
| actor (*actor*) | running average of the broadcast values, TCP connection | ping, reset, tare: collect values, learn the server's address from a datagram, send a command, wait for the acknowledgement |
| client interface (*cli*) | UDP socket on port 8777, shared by SO_REUSEPORT, with the kernel's queue | set up, in the caller's thread or in one of its own; receive loop that calls back with every datagram |
| logger (*logger*) | an appended log, the buffer of stdio | header, callback per datagram, SIGINT flushes and closes the log |
| GUI (*gui*) | modes, test timer, plot, table, packets queued for the main loop | start/stop, reset, test mode, packet, timer tick |
| calibration tool (`src/load_cell_calibration.c`) | two growing buffers | measure a weight, undo, finish and fit a line |
| least squares, matrices (`src/method_of_least_squares.c`, `src/numerical_basics.c`) | none | fits of order n, products, determinants, inverses |
| ADC driver (*adc*) | `config`, registers of the chip | initialise, reset, read the next conversion |
| writethrough file (*serv* 255-289, 366-372, 388) | the file of `-w` over all sessions | mark a session, append a record per sample |
| output rewriter (`src/output_rewrite.c`) | a list of records | skips headers, shifts time stamps to start at zero |

How they interact. The main thread of the server hands the addresses of two
atomics, `reset` and `tare`, to the auxiliary thread, which hands them on to its
handlers; nothing else is shared but the plain `int global`. Handlers set `reset`
with a compare-and-swap loop, the main thread clears it with another and then
resets the ADC. Handlers store `tare`; the main thread loads it for every sample.
Clients get samples by UDP (lossy, maybe broadcast) and send commands by TCP.
The actor takes the address for its TCP connection from a datagram. In the GUI a
receive thread passes copies of packets to the main loop as idle sources. The
calibration tool runs before the server; its user copies two numbers into the
server's command line, unless the server calibrates itself (`-c`).

What is hard. Two compare-and-swap loops on one flag with a side effect (the ADC
reset) outside of it; a tare that arrives between the conversion of a sample and
its sending; a batch buffer that is reused without being cleared; threads and
sockets that are not created and calls whose results are not looked at; SIGINT at
any moment; an actor that talks to a server that has just exited, or is killed
itself; lost datagrams; two actors taring at once; clicks, timer ticks and late
packets in the GUI in any order; singular normal equations, and undo in a buffer
that grows; transfers to the ADC that fail unseen and a chip that loses its
settings; power failures and short writes in a file of several sessions; a signal
handler that flushes the stream the interrupted callback is writing to; several
sockets on one port; pivoting.
`PROJECT.json` lists each of these hazards with its line and the property that
would catch it going wrong, or the reason why none does yet.

What correctness means, part by part:

* main thread: every sample goes out once and in order and into the file once and
  in order; the batch never overflows; a reset that was asked for happens; SIGINT
  ends the program.
* auxiliary server: an acknowledgement is true; a handler ends if its client lets
  it; nothing is done that was not asked for.
* actor: it says "succeeded" only when the server has done what was asked; tares
  do not add up; it ends.
* GUI: the plot is the newest part of the table on axes that fit; one test timer
  at most; nothing is recorded after a stop; a reset leaves nothing running.
* calibration: the line maps the readings of weights to those weights; it fails
  only when there is no line.
* numerics: an inverse is an inverse, a fit minimises the squared error.
* driver: after a reset the chip has the settings the code means, a value is what
  the chip converted to, and reading one ends.
* writethrough file: behind the mark of a session its records can be read back
  whatever happened to earlier ones; what the disk has stays.
* client interface: the callback gets each datagram once, in order, and none after
  a failure was reported; and every one that reaches the host.
* logger and rewriter: a log holds a prefix of what was received, all of it after
  an interrupt while waiting; every complete line is found again.

## 2. Modules

```
ServerState   what the server's threads share, SIGINT
  Sampler       the main thread
  AuxServer     accept thread, handlers, the kernel's TCP, arbitrary clients
    Actor         load_cell_actor.c as the clients of AuxServer
LoadCellServ  = Sampler + AuxServer + SIGINT            LoadCellServProofs
  implements Stream (what receivers are promised)
MotorStand    = LoadCellServ + Actor + UDP network      MotorStandProofs
  implements LoadCellServ
Ads1115       the driver and the chip
Writethrough  the file of -w
Acquisition   = Ads1115 + Writethrough + main()         AcquisitionProofs
  implements Writethrough
ClientInterface   sockets, receive loops, callbacks
Logger            load_cell_logger.c
OutputRewrite     output_rewrite.c
Recording     = ClientInterface + Logger + OutputRewrite  RecordingProofs
Gui           teststandui.c                             GuiProofs
NumericalBasics   matrices up to 3 x 3
  LeastSquares      fits of order 0 to 2
    LUDecomposition   larger matrices and fits of any order; over Fractions
                                                        DecompositionProofs
      Routines          calls of these, with any input    NumericsProofs
    Calibration       load_cell_calibration.c, then -k; or -c
                                                        CalibrationProofs
MCLoadCellServ, MCMotorStand, MCAcquisition, MCRecording, MCThreads,
MCCalibration, MCNumerics    values for TLC
```

**ServerState.** `global`, `reset`, `tare` are the variables of the code; `apc` is
the life of the accept thread, `up` that of the process. `owed` (connections
whose reset the ADC has not seen) and `stale` (packets sent with an older tare
than the last one stored) are history variables.

**Sampler.** `mpc` is the program counter of `main()`, from the installation of the
SIGINT handler on. An action ends where another thread may be noticed: `Launch`
(`pthread_create`, which may fail unseen), `FirstReset`, `LoopTest`, `Sample`
(`next_value`, stamp, conversion, load of `tare`), `Publish` (`push_batch` or
`sendto`), `WriteThrough`, `Poll`, `LoadReset`, `SwapReset`, `ResetAdc`, `Exit`. The
batch is the C structure: a count and an array that keeps its old contents.

**AuxServer.** One handler thread per connection, with its locals `msg` and
`expected`, and one action per access to something shared. `cli`, `sock`, `req`,
`rep` are the two ends of a connection and the two buffers in the kernel. The
kernel finishes the handshake before `accept()` is called, for `Backlog`
connections at a time. Clients of this module may connect, send any command or
none, and leave at any time. `asked` and `applied` are history variables.

**LoadCellServ** interleaves these with SIGINT and states the server's properties.

**Stream** is the abstract specification of the server's output: samples are taken,
held until there are `Limit` of them, sent together, and kept in a file one by one.
`Promised` in LoadCellServ is the refinement mapping: `taken` is the stamp in hand,
`held` the batch (and the sample on its way into it), `sent` the last stamp on the
wire, `kept` that in the file.

**Actor.** `act` is the program counter of `main()` in *actor*. `Deliver` is the
network and the receive loop of *cli*: each datagram reaches any subset of the
sockets that wait for it. `dest` is the kind of address the server was started with:
a broadcast, or the address of one host, whose kernel then gives a datagram to one
of the sockets on the port at most (two per actor, by SO_REUSEPORT: that of
its receive thread and that of `get_server_address`). `WriteUnheard` is a command to
a server that has closed: `write()` may fail or succeed. `ReadReply`, `ReadEof` and
`ReadFails` are the three ways `read()` ends; on `ReadEof` (a connection that was
accepted and closed with nothing left to read) the message structure still holds
what was sent, as in the code (125-135). `ActorKilled` is the user's interrupt, for the actors in `Mortal`:
the program has no handler, and the kernel closes its connection.

**MotorStand** composes server, actors and network. A step of `main()` that calls
`sendto()` is also a step of `Deliver`.

**Ads1115.** One action per I2C transfer of `reset_adc()` and `next_value()`, and the
chip at the other end of the bus: four registers of 16 bits, high byte first on the
wire, conversions of its own accord. A word is swapped wherever the code swaps it and
where the wire does; a settings field is the signed bit-field of *ads1115.h* 83-92, so a
one-bit field that was set to 1 reads as -1 (`Field`), which is why `Ready` holds
always. Any transfer may fail: a write changes nothing, a read yields the error code of
pigpio, and the driver looks at neither. `BrownOut` puts the chip back to power-on.
`missed` is a history variable: since the last `reset_adc()` began, something of this
kind happened.

**Writethrough.** The file as cells of 16 bytes, and how much of it is on the disk
(`synced`). `WriteMark` checks the length of its write as the code does (278), and
`WriteRecord` does not (368, 370); both may be short. `FilePowerFailure` keeps what was
written back and any part, up to some place, of what was not. `torn` notes the
sessions in which a record was written short.

**Acquisition.** The loop of `main()` seen from its devices, from the opening of the
file on, with every transfer of the driver in between, SIGINT (before its handler is
installed it kills the process, `Killed`), failures of `init_adc()`, power failures and
the next start. The same loop seen from the network is LoadCellServ.

**ClientInterface.** `rpc` is the program counter of the worker of each receiver,
attached or detached; `result` what its caller was told. `Arrive` is the sender and the
kernel: a datagram is lost, or handed to all sockets on the port (broadcast) or to
one of them (unicast); a full queue drops it. `due` is a history variable: datagrams
that came to the host while the socket was bound and had room.

**Logger.** A line is two cells, so that it can be cut; the two header lines are one.
The C library's part is modelled as the handler needs it: `Fwrite` fills the buffer,
`FlushBuffer` hands it to the kernel, `EmptyBuffer` marks it empty; the handler, which
flushes and exits, may come between any two of these, also before the log is open.
`ended` keeps what each session left in the log and how it ended.

**OutputRewrite** is an operator on a log: the places where the lines that `fgets()`
cuts begin (`LineStarts`), less those of headers, in their order (`Nth`); what is no
whole line is parsed to a stray record, and times are shifted by the first.

**Recording.** A logger and other receivers on one host. `CallBack` is the call from the
receive loop into `write_callback_batch`. The rewriter reads the log in any state.

**Gui.** A click, a timer tick and a queued packet are one action each, as the main
loop runs them one at a time; `Packet` is the receive thread. `ClickReset` contains
the call of `on_start_stop_clicked` without a button, whose early return it keeps.

**NumericalBasics, LeastSquares** are operators over integer matrices stored row
after row like in the code. Nothing is divided: an inverse is its numerators over
one determinant, so results are exact. A loop that adds up is a fold (`Total`), and a
power a recursive function.

**Fractions, LUDecomposition** have the code for larger sizes, which divides. A double
is a fraction in lowest terms there, so that equal numbers are equal records and the
code's comparisons with 0 mean what they say. `Column` is one round of
`_lu_decomp_mat`: `PivotRow` finds the row, `Pivoted` exchanges it, its scale, the sign
and the entry of `indx`, `Eliminated` reduces the rows below. `Forward` and `Backward`
are the two halves of `_solve_mat`, with the position `ii` at which the first begins to
subtract. Matrices that the code changes in place are new matrices here.

**Routines** calls them: a state is an input (a matrix, or points and an order), and
then what the routine returned for it.

**Calibration** is a state machine over both programs. `room` is what was allocated,
`buf_len` what the tool believes: `realloc()` is given a number of entries as a
number of bytes (58-62), and what a write beyond `room` does is left open
(`intact`); the same holds for more weights of `-c` than `KnownRoom`, 80 in the
code. The heap may notice (`FitFails`), or the tool goes on and prints a line over
what the buffers hold (`PrintAnyLine`), which the user gives to `-k` like any other. The
same action is the fit that rounding lets through: with more than two equal readings
the determinant of doubles may not be 0 (of the readings k / 32767, measured three
times, 18828 of 32767 give another value; two or four times, none). `AnyLine` is what
may come out. `Printed` is `printf("%lf")`. `EndOfInput` leads to "spinning": the tool does not
notice that `fgets()` failed and never ends.

### Abstractions

* Time stamps count modulo `Horizon`: they tell neighbouring samples apart and let
  the server run forever in a finite state space.
* Values are integers in units of 1/`ADC_MAX` times the unit of the multiplier, so
  conversions are exact. Rounding of doubles is modelled where it decides
  something: the printed multipliers and the comparison of a determinant with 0,
  where a fit that should be refused may yield any line of `AnyLine`. A fit that has a
  line is exact.
* A 16-byte command is read and written whole; short reads are not modelled.
  `accept()` failing is left out: it starts a handler on descriptor -1, which reads
  nothing and ends. `accept()` may take any waiting connection, not only the first.
* LoadCellServ takes every write to the writethrough file to be complete; short and
  lost ones are in Acquisition. Writing an acknowledgement to a client that has left
  is a no-op: pigpio ignores SIGPIPE.
* A datagram is handled at the moment it is sent or lost. The receive thread of an
  actor averages only while `main()` sleeps for the average it will read; what
  arrives at other times is cleared before the next one. The average after a tare
  is printed only, and not modelled.
* The actors' averages are sums and counts, bounded by `MaxCount`; the quotient is
  exact in the runs since they use one load.
* The file of Acquisition: structures are multiples of 16 bytes, and both a short
  write and a power failure cut at such a border; a write lands after everything
  before it, and a power failure keeps a prefix. No 16 bytes of a record are all
  ones (the first holds the time). The mark and a record have the same number of
  cells in the build without batches.
* Registers the chip changes by itself other than that of the conversion, and the
  GPIO pin, which the code does not read, are left out. `next_value()` of Sampler is
  any reading; Acquisition says what a reading is.
* Datagrams are not reordered on the way (one network segment) nor duplicated;
  `recvfrom()` on a bound UDP socket without a handler for a signal that returns does
  not fail. A datagram is a number, and its samples are numbered from it.
* The log's disk does not fill up. `fsync()` after `fclose()` has no effect. `exit()` and
  the handler flush; a kill does not. The handler runs in the middle of `fwrite()` only
  at the borders named under Logger; that it might also meet locks held by the
  interrupted call, and hang, is not modelled.
* GUI: lines 122-129 of *gui* are the remains of a merge and the file does not
  compile. The model follows the code around them. Drawing and hovering change no
  state that other handlers read, and one window is modelled.
* The load cell of `Calibration` is linear and without noise, so that the right
  line is known. The user of the tool enters whole lines that are numbers.

## 3. Runs

| run | question | instance |
|---|---|---|
| `serv_batched` | server in the build with batches: types, lost resets, truth of acknowledgements, holes in the stream, file, refinement of `Stream` | 2 connections, batch of 2, 5 stamps |
| `stand` | two actors with any two commands, killed at any time, against the server in the other build: truth of "succeeded", repeated tares, stale tares, refinement of `LoadCellServ!Spec` | 2 actors, 1 load, averages of up to 2 values |
| `stand_live` | every actor ends; progress of resets, handlers and shutdown | 2 actors, one reading, a server that broadcasts or sends to one host |
| `gui` | plot, axes, test timer, recording | plot of 2 points, table of 4 rows, 3 values, 2 queued packets |
| `numerics` | calibration by the tool and -k: types, right line, reasons to fail; inverses, decompositions and fits against their definitions | 4 load cells, 3 weights, up to 5 measurements; all matrices up to 3 x 3 over {-1, 0, 2}, 4096 of size 4, all lists of up to 3 points over 3 x 3 coordinates, cubics through 4 or 5 points; a behaviour is a calibration or one call |
| `acquisition` | driver, chip and file with failures | 2 sessions of 2 samples, records and marks of 3 cells, 8 cells, 2 conversions |
| `recording` | callbacks, log and rewritten log of interrupted sessions | logger and one detached receiver, 3 datagrams of 2 samples, queues of 2, 2 sessions |
| `tail`, `pong`, `gui_reset`, `server_calibration`, `threads` | five disagreements of section 5, each with its counterexample | as small as shows them |

Why these bounds are enough. Two connections let two handlers race each other as
well as `main()`; handlers do not count each other, and a third only repeats what
the second does. A batch of 2 has a first, a last and a stale slot; 5 stamps are
more than two batches, so a repeated or skipped batch cannot look right. One
reading suffices where values are only copied. `Backlog` 1 makes the queue fill up.
The GUI's table outgrows its plot by two rows, so that points are dropped twice.
The fifth measurement of the tool is the first one that makes its buffers grow.
The matrices of size 4 are all arrangements, with repetition, of eight rows that have
zeros in different places and are multiples or sums of one another, so every pattern
of row exchanges and of singularity at each column comes up. The conversions are the
most negative one and one that uses all bits of the low byte. Eight cells let a mark
of three follow a torn record of any length, and a second session a torn mark. The
buffer of the logger holds three cells: a line may fill it, be split by it or find it
full, and the first batch already makes it flush. Two sessions on one log are what a
header between them needs; the three datagrams go to them in every division.
The theorems of section 6 do not depend on these bounds.

`stand_live` starts with the actors' commands in one order (`OrderedFairSpec`), as the
other order only exchanges their names; with a server that sends to one host the second
actor pings. Symmetry over connections is used in the
safety runs only. `stand` and `pong` have broadcasts only, as these can reach whatever
unicast datagrams can. Where deadlock is not
checked the system may really stop: the server exits, the calibration ends, a
result has been computed, the file is full, every datagram was sent. In the GUI it is
checked.

Fairness. `FairSpec` has weak fairness for each thread of the server separately
(main, accept thread's setup, accept per connection, each handler): POSIX threads
on a preemptive scheduler. Neither clients nor the user at the terminal owe a step.
`FairSystemSpec` adds weak fairness for each actor's `main()` except where it waits for
a datagram (that a call fails there is nobody's duty), and strong fairness for the
arrival of a broadcast at an actor that waits for one while the server keeps
sending: a network that loses every datagram is excluded, any other loss is not.
Nothing of the kind is assumed of a server that sends to one host, since the kernel
may give each of its datagrams to the same other socket. `ActorFinishes` states the
three exceptions that remain: the actor waits for a datagram and the server has stopped,
or sends to one host; or no handler thread was created for its connection while the
server lives on. Without the second the run finds a violation. Killing an
actor is nobody's duty, and `stand_live` leaves it out (`Mortal` is empty): it could
only end an actor sooner. `AcquisitionSpec` has weak fairness for the process as a
whole, not for chip, power or kernel. `RecordingSpec` has it for the logger's thread and
each other receiver's worker, whose callbacks return; neither network nor user owe
anything.

Mutants. Each property of a passing run is paired in `PROJECT.json` with a mutant
of the code, an operator marked MUTANT in the modules, under which it fails: a
count that is not reset, a flag that is cleared without the reset, a tare
loaded once, a compare-and-swap retried without a reload, a timer that is not
removed, a determinant without the number of points, and so on.

## 4. Properties

Server. `NoLostReset`: a reset that was asked for is still flagged or about to be
carried out. `ResetServed`: it gets to the ADC. An extra reset may happen when a
request comes between the swap and `reset_adc()`; it is harmless. `StreamHasNoHoles`,
`DatagramsFollow`: what was broadcast, what is in the batch and the sample in hand
are one unbroken run. `FileIsComplete`: the file gets each sample once, in order, in
step with the broadcast. `ImplementsStream`: all this as one refinement - whatever the
other threads do, a receiver and a reader of the file see a simple loop.
`AtMostOneStalePacket`: at most one packet goes out with
an older tare than the last stored. `AckAfterEffect`, `HandlerCompletes`,
`StopsOnInterrupt` are as their names say.

Stand. `SuccessIsReal`: "reset succeeded" and "tare succeeded" are only printed when
the server did it. `TareIsLoad`: actors average values before tare, so under a steady
load every tare is that load however often it is repeated; or 0 when no datagram was
heard (*actor* 17-24 starts the average at 0). `ServerSpec`: the stand implements
the specification of the server with arbitrary clients. `ActorFinishes`: see above.

Acquisition. `ChipIsSetUp`: any `reset_adc()` without a failure brings the chip to the
intended settings, from whatever state, through masks of signed fields and two byte
swaps. `ValueIsConversion`: a value is the conversion, with its sign, or the one number
(-20993) that a failed read becomes - which the server broadcasts like any other.
`ValueReturns`: the loop around `is_ready()` ends. It does so because of an accident: the
test compares a bit with a field that reads as -1. Were the field unsigned, as one
would write it at first sight, the wait would never end, as the mutant shows.
`SessionsReadBack`: "useful for resyncing if data is lost" (*serv* 271-275) - after a
complete mark the records of a session follow from the first on, without gaps, unless
a write of that session was itself short. `FlushedIsKept`.

Recording. `CallbacksInOrder`, `EveryPacketCalledBack`, `FailureMeansNoCallbacks` (a caller
that was told RUN_FAILURE may free what `uarg` points to). `LogIsPrefix`: a session's log is
a prefix of the lines of its batches, to the byte; the exception is a signal between
the `write()` of a flush and the emptying of the buffer, which doubles one block.
`InterruptSavesAll`: SIGINT while waiting loses nothing. `RewriteKeepsSamples`,
`OneStrayPerCut`: the rewriter finds every complete line of every session, and takes
at most one torn line per cut for a sample.

GUI. `PlotIsTailOfTable`, `PlotFitsAxes`, `OneTestTimer`, `NothingAfterStop`.

Calibration and numerics. `ToolCalibrates`: the server started with the numbers the
tool printed serves every weight up to the printed digits, whatever was measured and
undone, if two readings differed and there never were more than four measurements at a
time. Beyond these two conditions the code breaks the promise (section 5).
`FailsOnlyWithoutALine`:
an abort needs readings that are all equal, or more weights at once than the
tool's first buffers or the server's list hold; it says nothing of what is printed or
served then. `InverseIsExact`;
`DecompositionInverts` (from both sides, and refused where the closed forms refuse) and
`DeterminantIsLeibniz` (the sum over all permutations, so that a sign lost in an exchange
shows); `FitIsLeastSquares` (against all neighbouring polynomials in
the run, all others with its denominator in the proof), `CubicIsLeastSquares` (what
is left of the points is orthogonal to all powers).

## 5. Where the code disagrees with its own words

* `tail`: in the batch build SIGINT ends the loop with a partly filled batch that is
  never sent, while the README promises to broadcast all data.
* `pong`: the server exits before it answers a ping; `read()` returns
  0, the buffer still holds the OP_ACK that was sent, and the actor prints "pong".
* `gui_reset`: "Graph data cleared. Ready to record." while the recording goes on,
  when test mode was switched off before.
* `server_calibration`: `-c` stores the constant term in `multiplier_m` and the slope
  in `multiplier_b`, and fits raw readings where the main loop converts
  raw / `ADC_MAX`. The load cells of the run have different terms, so the
  counterexample shows both. With both mended, `ServerCalibrates` still fails for a list
  whose first digit is skipped (*serv* 216) or that outgrows its memory.
* `threads`: the callback of a client does not run "every time a packet is received"
  (README 98) when the server was given the address of one host and two clients run
  on it: the kernel gives each unicast datagram to one of their sockets.

Two more are seen in the run `numerics`, as the conditions without which
`ToolCalibrates` fails there:

* without `buf_len = 4`: the tool invites any number of measurements ("enter q to finish
  calibration and return result", `src/load_cell_calibration.c` 32), but the fifth makes
  `realloc()` shrink both buffers to one entry, since it is given a number of entries
  for a number of bytes (59-60). What is measured from then on is written beyond them.
  If the heap does not notice, the line that is printed (100), and served by `-k`, is
  fitted over whatever is there.
* without `TwoReadings`: "matrix cannot be singular" (`src/numerical_basics.c` 160), but
  what is compared with 0 is a determinant of doubles (195). One weight measured three
  times may give a line: the determinant is about -2e-22 for three readings of
  11 / 32767. Two measurements of a weight end in the assertion.

Seen on the way, without a run of their own: `-c` with one weight, as the README
describes it, always ends in the assertion of `matinv()` (an instance of
`FailsOnlyWithoutALine`); the first character of the list of weights is skipped
(*serv* 216, `ParsedWeight`); the GUI's button says "Stop Recording" at the start
(541) and after a reset; `stable_first_order_least_squares`, which no program
calls, inverts a matrix of rank 2 of the size of the number of points; `-k` of the
logger never accepts "m,b", since `strtod()` stores the end of the number in `argv[2]`
and the comma is then looked for at the start of `argv[3]` (*logger* 81-82); the logger's
message about a log that cannot be opened prints `argv[2]`, which is a null pointer
(97); SIGINT before the log is open hands a null pointer to `fclose()` (22); the
rewriter appends to its output, so that running it twice doubles it.

## 6. Theorems

| theorem | module | says |
|---|---|---|
| `TypeCorrect` | LoadCellServProofs | `Spec => []TypeOK`; among the rest, the batch has room |
| `ResetsAreNotLost` | | `Spec => []NoLostReset` |
| `StreamIsWhole`, `DatagramsAreConsecutive` | | no holes, for every `BatchSize` and both builds |
| `FileHasEverySample` | | the action property of the file |
| `StalePacketsBounded` | | `Spec => []AtMostOneStalePacket` |
| `AcknowledgementsAreTrue` | | for any number of connections |
| `ServerImplementsStream` | | `Spec => Promised!Spec`: every step of every thread is a step of `Stream` or a stutter |
| `StandIsServer` | MotorStandProofs | `SystemSpec => ServerSpec`: step simulation, each step of the stand is one of the server or leaves it alone |
| `SuccessIsNoLie` | | `SystemSpec => []SuccessIsReal` |
| `SystemTypeCorrect` | | types of the stand |
| `TaresDoNotAddUp` | | `SystemSpec => []TareIsLoad`, for any number of actors and any calibration |
| `PlotFollowsTable`, `AxesFit` | GuiProofs | the plot, and that no plotted point lies above or beyond the axes, for every size (negative values lie below) |
| `NoTimerLeaks`, `StoppedMeansStopped`, `GuiTypeCorrect` | | the test timer, the recording, types |
| `ResetSetsUp`, `ValuesAreConversions` | AcquisitionProofs | the driver, for all conversions |
| `AcquisitionImplementsFile` | | `AcquisitionSpec => FileIsWritethrough`: what holds of the file module holds of the server's file |
| `SessionsStayReadable`, `FlushedStays` | | the file, for records and marks of any length and any number of sessions and power failures |
| `AcquisitionTypeCorrect` | | types, the words of 16 bits among them |
| `InOrderAlways`, `FailureIsFinal` | RecordingProofs | the client interface, for any number of receivers |
| `LogStaysPrefix`, `InterruptIsSafe` | | the log, for any batch, buffer and number of sessions |
| `RecordingInvHolds`, `RecordingTypeCorrect` | | the invariant of receivers and logger, and their types |
| `TornInvHolds` | | where the lines of a log can be torn |
| `SamplesAreKept`, `StraysAreFew` | | the rewriter, for a log of any sessions |
| `CalibrationTypeCorrect` | CalibrationProofs | types of the tool and of `-c` |
| `TheToolCalibrates` | | for any linear load cell, size of the ADC, weights, printed digits and number of undos; at most four measurements at a time, two of which read differently |
| `FailureHasAReason` | | the programs abort only without a line or with more weights than there is room for |
| `InversesAreExact` | NumericsProofs | inverses of all integer matrices of size 1 to 3 |
| `FitsAreLeastSquares` | | fits of order 0 to 2 of any number of integer points, against polynomials with any other integer numerators |
| `DecompositionsInvert` | | what the LU decomposition solves for is an inverse from both sides, for integer matrices of any size |
| `RefusesOnlySingular`, `DeterminantTellsSingular` | | it gives up, and its determinant is 0, exactly for matrices without an inverse over the fractions |
| `GenericFitsAreLeastSquares` | | the fit of order 3 of any number of integer points: refused at three places or fewer only, orthogonal otherwise |
| `GenericFitsAreBest` | | no cubic with any fractions as coefficients has a smaller squared error |

The argument. `TypeOK` is inductive and comes first. `NoLostReset` is inductive as it
stands: the swap that clears the flag goes to "resetadc", and only `ResetAdc` leaves
it. The stream needs the stamps of the batch and of the last message related to the
sample in hand, which `StreamHasNoHoles` does; the file needs in addition that it
is in step with the broadcast at each program counter (`FileInStep`). For the bound
of one stale packet the invariant says what the sample in hand was converted with
and when `stale` can be 1 (`OnlyOneIsStale`). Acknowledgements need a handler's `msg`
tied to what was asked and to its program counter (`HandlersMatchCommands`). For the
actors the invariant ties their program counter to the state of their connection
and the command in it (`StageMatchesCommand`, `SystemInv`). In the GUI the type of the
sequences is added to `PlotIsTailOfTable` (`DataOK`).

The refinement of `Stream` uses that the stamp of the sample in hand, of the batch's
last slot and of the last message are tied to the program counter, which the
invariant of `StreamHasNoHoles` and `FileInStep` says; steps of other threads leave the
four mapped expressions alone. `TareIsLoad` is proved by `SteadyInv`: for one reading the
server's tare, every message and every handler's copy are the load or 0, and the sum
of an average is its count times the load, so that no tare can depend on another. The
axes are a maximum over the plot, which an induction over the sequence would give;
instead `AxesOK` says of every suffix that it has a peak (`Peaked`), which a step
preserves because it appends one point or drops the first ones. The readability of
sessions needs that cells of earlier sessions come before those of the current one,
that the last cell tells how far the current session got, and that `torn` covers the
sessions with a short write; a power failure shortens the file, and every prefix of a
readable file is readable. For the log, what is in it, in the buffer and still to be
put are together what the session owes, twice the buffer while `written` holds.

The rewriter needs to know where a log can be torn. `TornInv` says that what a session
leaves is a piece of its lines (`Piece`), which begins with the header, follows on at
every place but where a block was flushed twice, and lacks the end of its last line
only if the session was cut. A log without doubled blocks is then `Tidy`: what comes
after a torn end is a header, which ends the line. So no whole line begins anywhere but
at a start of `fgets()`, which is `RewriteKeepsSamples`. For `OneStrayPerCut` the strays
are counted session by session: appending one moves the places of the earlier ones by
nothing and its own by one length (`NthMoves`), and adds a stray only at its torn end or
its seam.

`CalibrationInv` is `TypeOK`, that the tool's buffers are intact until they grow and the
list of `-c` is unless it is too long (`BuffersInv`), that the points lie on the line of the load cell (`PointsInv`), that the
numbers printed over intact buffers with two different readings serve every weight
(`PrintedInv`), and `FailsOnlyWithoutALine`. The
determinant of the equations of a line is never negative, and 0 only if all readings
are equal (`LineExists`, by the number of points); where it is not, the line of points on
a line is that line (`LineIsExact`).

The inverses are multiplied out, size by size, over cofactors. A fit of order n is treated
as one of order 2 with zeros (`ThreeOf`). If it solves the equations, what it leaves of
the points is orthogonal to the powers of x up to n, so changing its coefficients
adds a square to the error (`NoBetter`). That it is refused exactly at too few places
needs both directions: a determinant of 0 gives a polynomial that vanishes at every
place, which therefore are few, and at few places the sums of powers depend on each other.

The decomposition is proved in DecompositionProofs, from the bottom up. Euclid's
algorithm ends with a divisor that is a combination of its two numbers (`gcd`), so
lowest terms are unique and the fractions are a field; sums over them are linear and may
be exchanged. The loop keeps `Good`: whatever x is, the product of the original
matrix with x, its places exchanged as the rows have been so far (`IsChain`), is that of
the factors done so far with what is still to be reduced; and no pivot is 0. An exchange
moves the factors already stored in the two rows as well, which is why one list of
exchanges, applied step by step as `_solve_mat` does, undoes them all.
`Forward` skips leading zeros by `ii`; the terms it leaves out are products with zero.
So each column that `matinv_safe` solves for is one of an inverse from the right, and
the solution is unique since no pivot is 0; then it is one from the left, too.

When the loop gives up, the row is zero or no row below has an entry in the column. In the
first case a row of the product with any matrix is 0; in the second there is a vector
other than 0 that the matrix maps to 0. Either way there is no inverse
(`RefusedIsSingular`). The product of the pivots is not 0, so the determinant is 0 only
for what was refused; and for sizes up to 3 the closed forms, whose minors are a
multiple of an inverse, refuse the same.

The generic fit solves its normal equations by that inverse. Written out, and the two
sums exchanged, they say that what is left of the points is orthogonal to each power. If
it is refused, the equations have a solution other than 0 without a right-hand side, which
is a cubic that vanishes at every place; one that is not 0 does so at no more than three
(`FourRoots`, by divided differences), and for three places or fewer there is one
(`ThreeRoots`, the product of the factors). The error of another cubic is that of the fit plus the squares
of the difference, since orthogonality takes the mixed term away (`GenericFitsAreBest`).

Induction over data is done without predicates as parameters: lemmas say of a *set* of
numbers that holds 0 and with each number the next that it has all, from the library's
fact that a set without a least element is empty (`WFMin`). What is proved about
a fold or a recursive function is the set of lengths for which it holds; that the
recursive function chosen by its definition is one follows from its existence up
to each length (`FoldExists`, `PowerExists`, `FlatExists`).

Assumptions: the named ASSUMEs of the modules (TLC evaluates them in every run) - for
the numerics, that matrices are square and not empty and that entries and coordinates
are integers, as ADC readings are, and weights in a unit small enough - and for the theorems about the stand that any value may be a tare (`TareValues = Int`),
since an average of values need not be one of them.

Only proved, as the proofs hold for every instance: `AcquisitionTypeOK`,
`RecordingTypeOK`, `DatagramsFollow` (which the refinement of `Stream` implies),
`FileIsWritethrough`, `RecordingInv`, `TornInv`, `CalibrationInv`, and of the numerics `RefusesOnlySingular`, `DeterminantTellsSingular` and `GenericFitsAreBest`, which
speak of all matrices and polynomials over the fractions.

Only model-checked: the leads-to properties (`ResetServed`, `HandlerCompletes`,
`StopsOnInterrupt`, `ActorFinishes`, `ValueReturns`, `EveryPacketCalledBack`), as fairness
and ENABLED are out of the prover's reach; and `DeterminantIsLeibniz`, whose other side
is a sum over the permutations of a set, folded in an order that is left open: its laws
need induction over sets of permutations, which nothing here has. What programs use a
determinant for, whether there is an inverse, is proved for every size.

## 7. Not modelled, and the plan

Not modelled for good: the HX711 driver (outdated by the repository's README and not
compiled), `gpio_compat.*` and the client stub (no state), `pi_test.c`, the Arduino
sketch under `pi/`, drawing in the GUI, logs and plots under `logs_oct4_2025/`.

Not modelled in the parts that are: the logger's output to stdout, the text of `-k`
and of the server's other arguments, `close_adc()` beyond the end of the process, lines
a calibration user enters that are no numbers, functions of `numerical_basics.c` that
no program calls (random matrices, printing, element-wise helpers), and a second
activation of the GUI, which replaces the table while the plot stays and starts a
second receive thread (*gui* 502-588): what should happen then is said nowhere.

What was planned and is done, in this order: shared state, main thread, auxiliary
server and their composition; actors and network with the refinement to the server;
GUI; calibration and numerics; the abstract stream; driver, writethrough file and
their composition; client interface, logger and rewriter; the theorems above, the last of them those about
the rewriter, the calibration and the numerics, down to the LU decomposition.

What is left, in order of worth:

1. `DeterminantIsLeibniz` as a theorem: the determinant of any size with its sign.
2. The generic fit of orders above 3: the argument about roots is written out for cubics,
   all else is for any order.
3. Which of several waiting connections `accept()` takes, for larger backlogs; more
   than two actors.
4. A GUI with several windows.
