# Verification of the Red Pitaya AFM instrument

TLA+ models of the programs in this repository, the TLC runs that check them on
small instances, and TLAPS proofs of the main results for every value of the
constants. Paths are relative to the repository root (`src/`). `PROJECT.json`
maps every definition to the lines it models and lists the hazards of the code
line by line, each with the properties about it.

    tlc -config HandlerFaulty.cfg CommandHandler      # a run
    tlapm CommandHandler_proofs.tla                   # a proof

## 1. The system

A user works with the desktop GUI or the command line client; both call one
Python library, `AFMClient`, which sends SCPI lines over TCP to a C++ server on a
Red Pitaya. The server serves one client at a time. It drives an FPGA that plays
an excitation on the DAC and records the ADC and, over a UART, an electronic
board (LPC1114 firmware) with four inputs of selectable gain (x1/8 .. x16) and
four outputs routed to them. The board can output 10.5 V; the ADC input takes
1 V. Keeping a measurement from overdriving it is the server's one safety
function, and it is decided from a *cache* of what the board was last heard to
hold.

    GUI + routing dialog --+                                        +--> BoardProtocol --UART--> firmware
    CLI: shell, scripts  --+--> AFMClient --TCP--> TCPServer --> CommandHandler
    hardware check       --+                                        +--> RedPitayaHardware --> FPGA
    deployment tool ------------SSH------------> files, bitstream and service of the Red Pitaya

| component | state | operations | what is hard |
|---|---|---|---|
| CommandHandler (`cpp/Server/CommandHandler.cpp`) | status flags, board cache, hardware objects, last amplitude | 20 commands, one at a time | the cache against the board; early returns; INIT and MEASURE of several steps |
| InputSafety (`cpp/Hardware/InputSafety.h`) | none | peak estimate, gain searches | clipping, searches that stop early |
| board link (`ElectronicBoardUART`, `BoardProtocol`) | line buffer, echo seen, deadline | one exchange per command | lost, late, merged replies; board restarts |
| firmware (`ElectronicBoard/src`) | command buffer, gains, routing | MUX, GAIN, STATUS, RESET | leftovers in the buffer, power loss |
| TCPServer (`cpp/Server/TCPServer.cpp`) | flags, one client slot, line buffer | start, accept, read, dispatch, cancel, stop | stop and cancellation races, clients that vanish |
| AFMClient (`python/afm_client.py`) | socket, receive buffer, lock | connect, transactions, block reads, disconnect | disconnect from another thread, late replies |
| GUI (`python/afm_gui.py`) | widgets, worker threads, command queue, measurement state | connect, queue, measure, cancel, close | results handled after the session changed |
| routing dialog (`python/afm_schematic.py`) | routes shown, selection, question asked | click, route, disconnect, refresh | a click on what is shown against what is there |
| CLI (`python/afm_cli.py`) | client, spectrum kept, errors | command, script, shell | what exit code and prompt say after failures, Ctrl+C |
| deployment (`python/rp_deploy.py`) | options, results of the steps | sync, convert, copy, flash, install | partial failures, what earlier runs left |
| hardware check (`python/afm_hil_check.py`) | client, gain, results | seven checks | verdicts over quotients of nothing, faults on the way |
| RedPitayaHardware, `fpga/rtl/measure_ctrl.sv` | registers, FSM, BRAM | load, start, poll, read, reset | hardware that runs on after a time-out |
| signal processing, OLED, schematics of the board | - | - | not concurrent; not modelled |

What makes them correct: the handler never runs a guarded measurement above full
scale, never refuses one the board could take (on a good link), keeps the
evidence of a clipped record, and ends every command; the advice in a refusal
works; the link returns success only when the board has obeyed; the server runs
commands for who sent them, stops when told and serves its next client; the
client never takes an old reply for a new one; the window, the dialog, the exit
codes say what happened.

## 2. Modules

| module | models | kind |
|---|---|---|
| `InputSafety` | `InputSafety.h`, the gain table of `IElectronicBoard.h`, `_loopPeak` | operators |
| `OverdriveAdvice` | `_describeOverdrive` and a user who follows it | state machine |
| `AdcGuard` | the promise of src/README.md section 5, without caches or links | abstract specification |
| `CommandHandler` | `CommandHandler.cpp` with the board it drives | implements `AdcGuard` |
| `BoardCalls` | what a caller of `IElectronicBoard` counts on | abstract specification |
| `BoardLink` | `ElectronicBoardUART`, `BoardProtocol`, the firmware's parser, the wire | implements `BoardCalls` on a prompt wire |
| `TcpServer` | `TCPServer.cpp`, the thread that starts and stops it, its clients | state machine |
| `ClientSession` | what `AFMClient` promises its callers | abstract specification |
| `AfmClient` | `afm_client.py`, its threads, sockets, the server's side of them | implements `ClientSession` |
| `GuiSession` | main window, worker threads, event queue | state machine |
| `Schematic` | routing dialog, command queue, crossbar | state machine |
| `AfmShell` | `afm_cli.py` and a server that owes nothing | state machine |
| `RpDeploy` | runs of `rp_deploy.py` against one board | state machine |
| `RemoteCommand` | `run_remote` and its two pipes in one SSH channel | state machine |
| `HilCheck` | `afm_hil_check.py` over a loop with a flaw | state machine |
| `MC...` | sets of wires, users, uses, trees below | for TLC |
| `..._proofs` | `CommandHandler` (with `InputSafety` and `OverdriveAdvice`), `BoardLink`, `TcpServer`, `AfmClient`, `GuiSession`, `Schematic`, `AfmShell`, `RpDeploy` (with `HilCheck`) | theorems |

A component is used by the next one through what it promises, not by an
`INSTANCE`: `CommandHandler` takes a call on the board as one step, as
`BoardCalls` allows; `TcpServer` takes a command as its kind; `AfmShell` and
`GuiSession` take a client call as request and end, as `ClientSession` allows.
`RpDeploy` and `RemoteCommand` meet in `MCRpDeploy`.

**Kinds of behaviour.** A component has to be asked several things under
different circumstances: over a link with and without faults, with a patient and
a hasty user. The circumstances of a behaviour are a variable chosen in `Init`
from a constant set, and kept: `link` from `Links` (`CommandHandler`), `wire` from
`Wires` (`BoardLink`), `user` from `Users` (`GuiSession`), `use` from `Uses`
(`Schematic`), `bench` from `Benches` (`HilCheck`). A property that needs certain
circumstances says so itself (`Patience => ...`), so a run asks it of several kinds
at once, and a theorem about it holds of all of them, without a hypothesis. Only
the cache of `CommandHandler` is asked about without a condition, on the links of
its run; there the theorems name the links (`ReliableLink`).
`MCBoardLink`, `MCGuiSession`, `MCSchematic` and `MCRpDeploy` define the sets that
a configuration cannot write down; `MCRpDeploy` also puts `RpDeploy` and
`RemoteCommand` side by side.

`OverdriveAdvice` and `HilCheck` name their initial states and steps `AdviceInit`,
`HilInit` and so on, because a module of proofs extends them together with
another component (`CommandHandler_proofs`, `RpDeploy_proofs`).

### CommandHandler, AdcGuard

Commands run one at a time to completion, so a handler that talks to the board
at most once is one action; the fault of its exchange is chosen inside it.
`SYSTEM:INIT` is four actions, since it talks to the board three times and the
board may restart in between; `MEASURE` is admission (`MeasureAdmitted`) and one
`MeasurePointDone` per acquisition, with failures, time-outs and cancellation
between them.

| variable | code |
|---|---|
| `status` | `m_status` (`SystemStatus`); `adcSaturationRatio` only follows `adcSaturated` and is left out |
| `objects` | `m_hardware`, `m_board`, `m_signalGen`, `m_fftProcessor`: null or not, and whether the board's port is open |
| `cache` | `m_channelGains`, `m_muxRouting`, `m_muxRoutingKnown` |
| `lastAmplitude` | `m_lastExcitationAmplitude` |
| `task`, `reply` | where a command of several steps is; the kind of the last response |
| `board` | `ampGains`, `muxRouting` of the firmware: what the signal really goes through |

The properties compare `cache` with `board`, which no code can do. The faults of
the link are those of the behaviour's `link`: `lost` (command or reply lost, board unchanged),
`ackLost` (the board obeys, the server times out), `partial` (lines of a STATUS
missing), `restart` (the board loses power). A server that dies, at any point,
is an action of its own. `measurementInProgress` is set when a measurement is
admitted; a sinc sets it after its signal is loaded, and nothing observes the
difference. Argument errors are one action, allowed at any time. A failing Red
Pitaya is a free choice of each step that uses it.

### InputSafety, OverdriveAdvice

Amplitude, gain factor and sample gain are counted in eighths, so a peak is an
exact integer. The gain factors are powers of two, so the code's products are
exact as well for the amplitudes and sample gains used; rounding of other floats
is not modelled. The break-at-first-failure loops become `SafePrefix`, the
settings all of whose predecessors are safe.

### BoardLink, BoardCalls

A command is one message; its echo and the reply lines that survive are another.
Losing the newline leaves the command in the firmware's buffer (`buffer`) and
its echo in the server's line buffer (`host.line`). The host skips lines up to
an exact echo, as `sendCommand` does. `obeyed` and `answer` record which
exchange the board took last and which command the last OK answered; the code
has no such numbers, which is why late replies are a problem. `wire` says what may be
lost, whether the board may restart and whether a reply may be late. What the firmware
does with merged text is in `Understood`: MUX and GAIN look at their prefix and
first arguments and ignore the rest. The start message of a restarted board is
left out: it holds no echo and no OK.

### TcpServer

`flags` are `m_running`, `m_shouldStop`, the listening socket and a thread to
join; `thread` is where the server thread is in `_serverLoop` and in a sweep;
`slot` and `lines` are `m_clientFd` and `m_lineBuffer`; `control` is the thread
that starts, watches and stops. Actions follow the loop: clear the slot, accept,
read (data, end, idle time-out, failed keepalive), dispatch, the cancellation
check between sweep points, reply or send time-out. Clients are external: they
connect, pipeline, leave, half-close and vanish without a word, in any order.
Commands are kinds (query, sinc, sweep, shutdown), with the client that sent
each: what the code cannot see and the properties are about.

### AfmClient, ClientSession

One client object, several threads. A call is `Begin` (the non-blocking lock),
`Flush`, `Send`, and for each line or block `Check`, `Bind`, `Recv`, `Split`: the
steps of `_read_line` and `_read_exact` at which `disconnect()` of another
thread, itself two steps, can come between. Each line carries connection and
request it belongs to, as a device of the model. Replies come in parts, late, or
not at all, in the framed and the older formats. `ClientSession` is the same
without sockets and buffers: a call returns the reply to its own request on the
connection it began on, or fails, and after a time-out the link is gone.

### GuiSession, Schematic

GUI handlers run to completion in one thread: each is an action (`Handle...`,
clicks), written as functions of the window and its threads, with every call the
handler makes. A worker thread starts, calls, posts its result and *winds down*
for a while: the code asks `isRunning()`, which is true in that time. `events` is
the queue of posted results; a click may overtake it. Every connection has a
client of its own. `user` says whether the routing dialog is open beside the window
(`Dialog`), and what the user is quick enough for (`UserMay`): to leave a call by the
connect button, or to act before a posted result is handled.

The dialog sees the crossbar only through `BOARD:STATUS?` replies; its commands
wait in the window's queue (`queue`, `worker`). `use` says whether the main window
switches outputs too, and how a command may fail: refused, its answer lost, or the
connection.

### AfmShell

One action per way a line can go: `Skip`, `Usage`, `Request`, `RequestFails`,
`DoConnect`, `BadPort`, `DataSave`, `Quit`, `Cancel`, `Interrupt`, `ReadFails`,
and what the program does when a reply, a time-out or a loss comes (`Welcomed`,
`NotWelcomed`, `Answered`, `Lost`, `Store`). `executed` records what the server
did with each line, `outcome` what the user was shown; the properties compare
them.

### RpDeploy, RemoteCommand

The steps of `main()` in order, with the loops of the sync (delete, mkdir, copy)
file by file; every remote command and copy may fail, a copy may be cut off, the
link may go at any time. Between runs the user edits the tree, builds, and
power-cycles the board; the board keeps what earlier runs left. A file's content
is the version of its source. `RemoteCommand` is the order of the blocking reads
of `run_remote` against a command that writes to both pipes of one window.

### HilCheck

Seven checks, each a plan of measurements and a verdict. The loop has a flaw
(`rig.flaw`) or none; where its `bench` allows it, it is unplugged, loses the
connection or answers with an error at any step. Levels are exact integers; a
comparison with a NaN is false, as in Python. The fits of phase and flatness are
verdicts.

## 3. Runs

| run | question (all hold but the marked one) |
|---|---|
| `AdviceSettles` | Does following a refusal's advice work? It never gets louder, one BOARD:GAIN is enough when the routing is known (`AdviceHelps`), and the user is not sent from input to input for ever when it is not (`AdviceSettles`) |
| `HandlerFaulty` | With every fault: objects match status, no overdrive goes unmentioned, the cache is overtaken only by changes the server is not told of, every command ends |
| `HandlerReliable` | On a link that hides no change: the cache covers the board, no guarded measurement above full scale, `AdcGuard` is implemented; without faults, nothing is refused that the board would take; the evidence of saturation is kept |
| `HandlerLostAck` | src/README.md:196, "above 1 V the measurement is not run", when one acknowledgement is lost: **violated** |
| `LinkExchanges` | On every wire: where newlines arrive and nothing is late, does the protocol implement `BoardCalls`? Whose OK is it, where replies are late? Where commands merge, is a STATUS still true? |
| `ServerServes` | Two clients against the one slot: are commands run for who sent them, does a stop end the thread, is who waits served or told? |
| `ClientCalls` | Two threads, `disconnect()` at any step: own replies only, every call returns, `ClientSession` is implemented |
| `GuiUsers` | A patient and a hasty user: is what the window has begun ended, is a spectrum shown with its parameters; to the patient one, is the window truthful, do calls never meet? |
| `SchematicDialog` | Does a click never re-route a connected output unasked, does what the dialog did come to be shown, does it mirror the board where it is alone? |
| `CliSession` | Do exit code 0, the stop after an error, the hint of a lost connection and the saved file say what happened? Does every command return? |
| `DeployRuns` | Does success mean that the board mirrors the sources and has what was asked for; is nothing deleted or flashed that was not asked for; does `run_remote` return with all output? |
| `HilLoops` | Does each flaw fail the checks it should; is nothing a check met missing from the exit code? |

**Bounds, and why they are enough.**

- Advice: three inputs, so that advice can wander; every gain of the code.
- Handler: two inputs and one output: the estimate distinguishes the excited
  input, another one and none, and only the ADC output matters to it. Gains x1
  and x16 are the two the code names (default and worst case); with amplitudes
  and sample gains of a few eighths they fall on both sides of the limit. Sweeps
  of two points have "a later point of the same sweep".
- Link: all 32 wires, three exchanges, one input, one output, one lost line: a
  mistaken or merged answer takes two exchanges, the third is margin; the parsers
  treat lines independently and the headers are lines.
- Server: two clients (one in the slot, one waiting), two commands each, so that
  one can be pipelined behind the other, sweeps of two points, so that there is
  a check between points.
- Client: two threads, connections and requests: an old reply needs one of each
  before. Replies have a header and two lines.
- GUI: four clicks and four client objects reach connect, measure, cancel and
  one more action on what they left; `MaxClients` counts reconnections.
- Dialog: two outputs, two inputs, six clicks alone, four beside a window: select,
  choose, confirm, and another action against what the first one left.
- CLI: four lines, two connections: measure, a loss, reconnect, save.
- Deployment: two runs, of any two of seven sets of options, with a file that
  changes, a directory that comes or goes and an artifact; a window of four with
  twice as much on stdout.
- Hardware check: all seven checks, every flaw, on a bench where nothing happens and
  on one where everything may; its states are few.

Every instance is finite by guards (`Max...`), without state constraints.
Deadlock is checked where the system goes on for ever; the programs that end
(advice, link, CLI, deployment, check, bounded clicks and requests) say so in
their configuration.

**Fairness.** It is that of threads that are scheduled and of time-outs:

- `CommandHandler!FairSpec`: weak fairness of `Continue`. Each exchange has a
  deadline (`sendCommand`) and each acquisition is polled up to
  `m_measurementTimeoutMs`. Nothing obliges a client to send a command.
- `TcpServer!Spec`: the server thread, whose `select()` and `poll()` have
  time-outs, whose sends time out, whose keepalive probes of a dead peer fail
  and whose silent client is dropped; the controlling thread once it has begun
  to stop; `main()`, which watches `isRunning()`. No client owes anything.
- `AfmClient!Spec`: each thread in a call; every `recv` has a time-out. `AfmShell`:
  the program after a request, for the same reason. The server owes nothing.
- `GuiSession`: some worker thread goes on, and the event loop handles what is
  posted. `Schematic`: the same of its queue. The user owes nothing.
- `RemoteCommand`: the command on the board and the tool's reads.
- `OverdriveAdvice`: the user follows the advice; the property is about the
  advice, for a user who does.

The others have none and claim no liveness.

## 4. Disagreements

**Finding** (run `HandlerLostAck`): a BOARD command that times out after the board
has obeyed it leaves the old value in the cache; the next MEASURE runs above full
scale with the protection on (`CommandHandler.cpp:449`, and 387, 414, 618).

Where else the code and what is said of it differ, a configuration beside the
runs reproduces it: `tlc -config <configuration>.cfg <module>` ends with a
counterexample.

| configuration, module | what is said | what the code does |
|---|---|---|
| `AdviceAmplitude`, OverdriveAdvice | src/README.md:196: a refusal comes "with a suggested gain or amplitude" | `CommandHandler.cpp:1199` rounds down to 4 decimals: with x16, sample gain 1000, x16 the suggestion is 0.0000, which is refused |
| `LinkLateTwin`, MCBoardLink | `ElectronicBoardUART.cpp:265`: "Lines left from an earlier command never answer this one" | the flush drops only what has arrived; a late reply answers the next command if that has the same text |
| `LinkMerged`, MCBoardLink | `test_board_protocol.cpp:136`: leftovers merge with the command, which is rejected | when the newline of MUX or GAIN is lost its echo is flushed, the merged text is obeyed as the first command, and its OK is taken for the second |
| `ServerHalfClose`, TcpServer | `Protocol.h:105`: ERR_ABORTED means "client gone or server stopping" | a peer that only shut down its sending side has its sweep aborted |
| `ServerLostStop`, TcpServer | `TCPServer.cpp:174`: the thread will see the stop within its timeout | `start()` resets `m_shouldStop` after it set `m_running`; a stop between the two is lost |
| `ServerRestart`, TcpServer | `TCPServer.h:52`: "@return true if server started successfully" | a second `startAsync()` assigns to a thread that is still joinable: the process is aborted |
| `ClientAbort`, AfmClient | `afm_client.py:338`: an aborted read "surfaces there as AFMConnectionError" | `_read_line` tests the socket and reads it again; an AttributeError or a ValueError comes out |
| `ClientLeftover`, AfmClient | `afm_client.py:380`: leftovers are not "interpreted as the response to the next command" | a status line that is not ASCII leaves the rest of its block to come; what has not arrived at the flush is read as the next reply |
| `GuiDialog`, MCGuiSession | `afm_gui.py:912`: "every command entry point in one place" is disabled; `afm_client.py:229` | an open routing dialog is not, and its commands meet a measurement |
| `GuiLostThread`, MCGuiSession | `afm_gui.py:996`: "Keep a reference until the thread has finished" | an error of the old connection enables the connect button while a connect worker runs; a click replaces the only reference to it |
| `GuiCancel`, MCGuiSession | src/README.md:153: Cancel "closes the connection and reconnects" | `isRunning()` is still true after the result was handled: the click closes the connection and waits for a second result |
| `SchematicWindow`, `SchematicLost`, MCSchematic | `afm_schematic.py:14`: "it always mirrors the real board state" | it does not read after the main window switched, nor after an action whose answer was lost |
| `CliShutdown`, AfmShell | `afm_cli.py:461`: "Shutdown server" | `AFMClient.shutdown()` swallows "Not connected"; the shell says that the shutdown was initiated |
| `DeployFind`, MCRpDeploy | `rp_deploy.py:55`: True "when ... every obsolete file was removed" | a `find` that fails lists nothing, and nothing counts as obsolete |
| `DeployRenamed`, MCRpDeploy | `rp_deploy.py:55`: True "when every file was copied" | where a directory of the old sources has the name of a new file, the copy goes into it |
| `RemoteErrors`, MCRpDeploy | `rp_deploy.py:32`: output beyond the window "cannot deadlock" | a window full of stderr blocks the command while the tool reads stdout |
| `HilUnplugged`, HilCheck | src/README.md:222: the script checks "amplitude linearity ... and repeatability" | with no signal the ratios are NaN, every comparison is false, and both checks pass |

## 5. Proofs

`tlapm` checks all of them; nothing is assumed but the named assumptions on the
constants and the hypotheses stated in the theorems. Every invariant and every
action property of the passing runs, and the three refinements, are theorems;
`PROJECT.json` pairs them.

**CommandHandler** (`ReliableLink`: acknowledgements are not lost and the board
does not restart).

- `TypeCorrect`.
- `CacheAlwaysCovers`: `ReliableLink /\ Spec => []CacheCoversBoard`. Not
  inductive: between the two halves of `SYSTEM:INIT` the gains already count and
  the routing does not, and the second half leaves the known flags alone when its
  exchange fails, so the invariant must say (`RoutingUnread`) that then no output
  is known.
- `UncoverOnlyUnheard`: the same step lemma read without `ReliableLink`.
- `LoopPeakMonotone`, about `InputSafety`: the peak grows with each gain,
  clipping included. This is what makes x16 the worst case of an unknown gain.
- `MeasurementsStayInFullScale`: a running measurement was admitted against the
  cache (`Admitted`), the cache covers the board, and the peak is monotone.
- `HandlerImplementsGuard`: the refinement of `AdcGuard`; initial states map to
  initial states, each action to `Configure`, `Start`, `Stop` or a stutter.
- `ObjectsAlwaysMatch`, strengthened by `BoardOnlyWithHardware`.
- `NeverSilentOverdrive`, with every fault: a plain OK to a BOARD command was
  given in a state whose cache puts the last excitation within the limit.
- `RefusalsAreJustified`, whose property is about a link without faults: the
  converse of the safety above. There the cache is not a cover of the board but
  the board itself, as far as it was read (`CacheIsBoard`: gains and routing each
  from the moment they count as read, through the steps of `SYSTEM:INIT`), and what
  is refused on it the board overdrives (`RefusalIsJustified`): the worst cases of
  the estimate, for gains and routes that are not known, never decide.
- `EvidenceAlwaysKept`, with every fault: that the reading of a sinc replaces the
  saturation flag, where that of a sweep adds to it, loses nothing, because a sinc
  has one point and starts with the flag cleared (`SincStartsClean`).

**OverdriveAdvice** (in `CommandHandler_proofs`): `AdviceAlwaysHelps`, for any number
of inputs, table of gains in force, routing, amplitude and sample gain. No
induction: the search of `InputSafety` returns a gain of the table that does not
overdrive and is below all that do (`SafeSetting`); the one in force does; and
following the advice changes the one input the peak was computed for
(`SuggestedGain`).

**BoardLink**, for every wire; each property names the wires it is about.
`TypeCorrect`, with the messages on the wire typed (`Sent`, `Reply`, `Echo`).
`SameCommandAlwaysAnswers`: a success answers a command of the same text, wherever
newlines arrive and either every line does or nothing is late (`AnswersKeep`). One
invariant for the two cases: nothing is ever run together (`Separate`); where
nothing is late one message is in flight, of this exchange (`OneInFlight`); where
every line arrives the echo is never seen without its OK (`EchoBringsAnswer`). Two
more for wires where nothing is late, from an invariant of their own (`Once`: one
message is on its way or none, and it is of this exchange): `StatusAlwaysTruthful`,
for a board that does not restart, merged commands and lost lines included, because
what is read of one reply (`ParseOne`) is what its board had or nothing; and
`LinkKeepsCalls`, the refinement of `BoardCalls`, for wires that deliver newlines,
restarts included.

**TcpServer**: `TypeCorrect`; `ServesOnlyItsClient`, whose invariant says that
lines, command and slot belong to one client (`OneClient`, `FromItsClient`) and
that a sweep is late by what it has not yet looked at (`LateIsSeen`);
`StoppedIsEnded`, for a server started with `startAsync()` (`~Blocking`), from
which thread can be joined at each place of the controlling thread (`Joinable`).

**AfmClient** (`NotGarbled`: what the server sends is ASCII).
`TypeCorrect`; `ValuesAreOwnReplies`; `ClientKeepsSession`, the refinement of
`ClientSession`. One invariant: at most one thread is in a call, and it holds the
lock unless it connects (`Alone`); only the client's socket is open and nothing
travels on a closed one (`Sockets`); a connection nobody reads from has nothing to
read (`AtRest`); and what the call has read, what the buffer holds and what the
socket holds are, in this order, the answer (`Progress`). The last is why bytes of
an answer cut short never begin the next one: after a time-out the client lets go
of the socket before it lets go of the lock.

**GuiSession**, for any number of clicks and connections.

- `WindowSound`, for every user, the hasty ones and those with the dialog open
  included: types, and a spectrum is shown with the parameters it was measured with
  unless its result was overtaken. The invariant `Sound` relates windows, threads
  and posted results (`AnyWindow`, `AnyThreads`, `AnyResults`): a worker's number
  is used once, one measures at most, and the result of a command is the only one
  and of the command under way; and (`NotOvertaken`) the result of a measurement
  that may still come is of the parameters the window holds.
- `CallsNeverOverlap` and `WindowTruthful`, whose properties are about `Patience`: a
  user who waits for what is under way, except to cancel, and does not open the
  dialog. Neither is inductive: `Inv` says that one worker is active or one
  result waits (`OneAtATime`), that `_command_worker`, "Connecting", the cancel flag
  and the disabled controls go with what it is (`Matching`), and that it is on the
  connection there is, open until the call fails or is cancelled
  (`OnItsConnection`). A handler goes through states in which nothing is under way
  and the next command is not started (`Paused`); the invariant is stated of a
  window, its threads, results and sockets, so that lemmas about the operators a
  handler is made of (`PausedStarts`, `OpenRuns`, `ConnectStarts`) can be about
  those states. Without `Patience` these properties fail, as `GuiDialog`,
  `GuiLostThread` and their like show.

**Schematic**: `DialogAlwaysTruthful`, for any crossbar, every use, any number of
clicks. That the dialog mirrors the board at rest is not inductive: in between it
shows what is no longer so. `IInv` says that then a read is on its way, or a
command has come back whose handler will ask for one (`ShownOrComing`); that, alone,
only a command that lost the connection has failed (`BackOK`), after which the dialog
is about to be told (`LinkOK`); that the queue is empty when nobody works on it
(`WorkOK`); and that an output selected for a new route is free (`DialogOK`).

**AfmShell**: `TypeCorrect`, `ConnectionAlwaysSound`, `AlwaysStopsOnError`,
`ExitZeroAlwaysMeansAllDone`, from one invariant `Inv`: one end is open at
most and it is the client's (`OneOpen`), no request or reply on any connection is
ahead of the current line (`Ahead`), a reply is to the line that waits for it
(`OwnReply`, `NotAgain`), and what the user was shown accounts for what the
server did (`EndsOnError`, `Accounted`). `SavedAlwaysMeasured` adds `Kept`: the
spectrum kept is whole, of the last measurement shown as done or a later one, and
no request still on its way would have the server execute its line again.

**RpDeploy**: `TypeCorrect`; `AlwaysOnlyAsAsked` (`ArtifactsNest`: what is in a
directory of artifacts is one, as `_is_build_artifact` has it for `out/`);
`SyncAlwaysMirrors` and `ExitZeroAlwaysMeansDone` under `SyncAssumption`: `find`
tells what there is, and no path is a directory in one tree and a file in
another, the two conditions `DeployFind` and `DeployRenamed` show to be needed.
The invariant `SyncSoFar` says what the sync has done up to the file its loop has
come to, as long as nothing has failed.

**HilCheck** (in `RpDeploy_proofs`), for any gain within the limits, any number of
repetitions and every bench.

- `FaultsAlwaysSeen`: exit code 0 means that no call failed and no level check met
  silence, and a loop that answers stale data never gets it, whenever the cable is
  pulled or the link lost. The invariant says where what was missed is to be found
  before there is a verdict (`MissedShows`: in a failed check, or as a reading of
  zero in the check at work, which every verdict of the level checks rejects), when
  the first sinc of a size is measured (`FirstSinc`), and that a stale loop repeats
  its level, so that what passes the level check fails the linearity
  (`StaleShows`).
- `SteadyFlawsAlwaysCaught`: a loop left alone fails exactly the checks it should.
  The invariant `Steady` gives the reading each flaw makes of each measurement
  (`SteadyReadings`, by `LevelOf`), the gain the sweep leaves (`SteadyGain`), and the
  verdicts so far (`SteadyResults`, by `FailsAt`). Its main lemma, `SteadyVerdict`,
  goes through flaws and checks with the gain free: it is where the limits of 20 and
  300 percent, 5, 20 and 3 percent have to fit together.

**Only model-checked.** All liveness (`CommandsEnd`, `AdviceSettles`,
`StopsAreSeen`, `QueuedIsAccepted`, `CallsReturn`, `CommandReturns`, `WorkEnds`,
`ActionsAreShown`, `RemoteReturnsAll`): temporal reasoning under fairness is out
of the prover's reach. `RemoteCommand` has no other property, so it has no
theorem.

## 6. Not modelled

- `measure_ctrl.sv`, the platform around it and its driver: clock-level logic
  with a test bench of its own. In `CommandHandler` each use of the hardware may
  fail or time out, and its readings are free; that a measurement runs on in the
  FPGA after a time-out is not seen.
- Signal generation, FFT, sine fit, phase correction, peak search: floating point.
- Parsing and formatting of SCPI, of options and of files; plots, drawing and
  settings of the GUI; the values of spectra.
- Characters: single corrupted characters on the UART, the 31-character limit of
  the firmware's buffer, `MAX_REPLY_LINES`, the line-length limit of
  `LineBuffer`, partial sends.
- GPIO, LED, OLED; KiCad; paramiko, Qt, sockets and the kernel, which are
  modelled only by how the code uses them.

## 7. What is left

1. `measure_ctrl.sv` with `RedPitayaHardware.cpp` over it, and an abstract
   `Measurement` (a whole record of the loaded signal, or an error), for the
   hazards at the register interface listed in `PROJECT.json`.
2. `CommandHandler` with `BoardLink` in place of the atomic call, on slow wires.
3. Proofs of the invariants a future module brings; weaker conditions than
   `Patience`, to say which of a hasty user's actions do no harm.
4. Pure algorithms: the DAC codec, the sweep grid, spectrum framing.
