--------------------------- MODULE CommandHandler ---------------------------
(***************************************************************************)
(* The command handler of the AFM server (cpp/Server/CommandHandler.cpp)   *)
(* and the electronic board it drives over a UART.                         *)
(*                                                                         *)
(* The handler decides whether a MEASURE may run from what it believes of  *)
(* the board: a cache of gains and routing, read at SYSTEM:INIT and        *)
(* updated by the BOARD commands the board acknowledges.  The board        *)
(* itself holds the gains and routing the signal really goes through.      *)
(* Commands run one at a time to completion, so a handler that talks to    *)
(* the board at most once is one action; SYSTEM:INIT, which talks to it    *)
(* three times, and MEASURE, which runs for a while, are several, and the  *)
(* board may lose power between any two of them.                           *)
(***************************************************************************)
EXTENDS InputSafety, FiniteSets

CONSTANTS
  Inputs,             \* board inputs (IN1..IN4), each with a gain
  Outputs,            \* board outputs (OUT1..OUT4), each routed to an input
  DacLinkInput,       \* the input the Red Pitaya DAC drives
  AdcLinkOutput,      \* the output the Red Pitaya ADC acquires
  Disconnected,       \* routing of an output without input
  Gains,              \* gain factors used, among GainTable
  Amplitudes,         \* excitation amplitudes used, among AmplitudeRange
  SampleGains,        \* declared sample gains used
  Decimations,        \* decimations used
  DefaultDecimation,
  Modes,              \* operating modes the server is started in
  MaxPoints,          \* bound on the points of a sweep
  Links               \* the links to the board, each by what may go wrong on it

FaultKinds ==
  {"lost",            \* a command or its reply is lost, the board unchanged
   "ackLost",         \* the board obeys, the server does not hear it
   "partial",         \* STATUS lines are lost, the reply is accepted
   "restart"}         \* the board loses power and comes back

CommandHandlerAssumption ==
  /\ DacLinkInput \in Inputs
  /\ AdcLinkOutput \in Outputs
  /\ Disconnected \notin Inputs
  /\ Gains \subseteq GainTable /\ {Gain1, Gain16} \subseteq Gains
  /\ Amplitudes \subseteq AmplitudeRange /\ Unit \in Amplitudes
  /\ SampleGains \subseteq 1 .. MaxSampleGain /\ Unit \in SampleGains
  /\ DefaultDecimation \in Decimations
  /\ Modes \subseteq {"FULL", "RP_ONLY"}
  /\ MaxPoints \in Nat \ {0}
  /\ Links \subseteq SUBSET FaultKinds

ASSUME CommandHandlerAssumption

VARIABLES
  link,           \* the link of this behaviour: chosen at the start, kept
  status,         \* m_status
  objects,        \* m_hardware, m_board, m_signalGen, m_fftProcessor
  cache,          \* m_channelGains, m_muxRouting, m_muxRoutingKnown
  lastAmplitude,  \* m_lastExcitationAmplitude
  task,           \* the command being executed, when it takes several steps
  reply,          \* the kind of the last response
  board           \* gains and routing in force on the electronic board

vars == <<status, objects, cache, lastAmplitude, task, reply, board>>
server == <<status, objects, cache, lastAmplitude, task, reply>>

\* What may go wrong between server and board.
Faults == link

Routes == Inputs \cup {Disconnected}

FreshStatus(mode) ==
  [hardwareInitialized   |-> FALSE,
   boardConnected        |-> FALSE,
   measurementInProgress |-> FALSE,
   currentDecimation     |-> DefaultDecimation,
   mode                  |-> mode,
   loopMode              |-> "AUTO",
   loopExciteChannel     |-> DacLinkInput,
   loopReturnChannel     |-> DacLinkInput,
   adcProtectEnabled     |-> TRUE,
   adcSampleGain         |-> Unit,
   adcOverdrive          |-> FALSE,
   adcSaturated          |-> FALSE]

NoObjects == [hardware |-> FALSE, board |-> "null",
              signalGen |-> FALSE, fftProcessor |-> FALSE]

Idle == [at |-> "idle", sweep |-> FALSE, left |-> 0]

\* Board defaults: gains x1, outputs disconnected.
DefaultBoard == [gain  |-> [i \in Inputs |-> Gain1],
                 route |-> [o \in Outputs |-> Disconnected]]

ResetCache == [gain  |-> DefaultBoard.gain,
               route |-> DefaultBoard.route,
               known |-> [o \in Outputs |-> TRUE]]

-----------------------------------------------------------------------------
(***************************************************************************)
(* The electronic board, as the handler meets it: the firmware's state is  *)
(* the gains and routing, and an exchange over the UART ends in an         *)
(* acknowledgement or in a failure that may or may not have changed it.    *)
(***************************************************************************)
RouteTo(o, r)    == [board EXCEPT !.route[o] = r]
GainTo(i, g)     == [board EXCEPT !.gain[i] = g]

\* The board obeys and the server hears it.
Acknowledged(new) == board' = new

\* The server gives up: the board may have obeyed all the same.
Unacknowledged(new) ==
  \/ "lost" \in Faults /\ UNCHANGED board
  \/ "ackLost" \in Faults /\ board' = new

StatusLost == "lost" \in Faults

\* The parts of a STATUS reply the server can read, valid gains and routes.
Readable(all) == IF "partial" \in Faults THEN SUBSET all ELSE {all}

-----------------------------------------------------------------------------
(***************************************************************************)
(* The ADC loop estimate (_estimateAdcLoop) from a status st and a cache c.*)
(***************************************************************************)
MonitorActive(st) == st.loopMode # "OFF" /\ st.boardConnected

ExciteChannel(st) ==
  IF st.loopMode = "MANUAL" THEN st.loopExciteChannel ELSE DacLinkInput

\* Mutant: an unknown routing is taken for an open output.
PossibleReturns_UnknownIsOpen(st, c) ==
  IF st.loopMode = "MANUAL" THEN {st.loopReturnChannel}
  ELSE IF ~c.known[AdcLinkOutput] THEN {}
  ELSE {c.route[AdcLinkOutput]} \ {Disconnected}

\* The inputs the excitation may come back through: the one named by hand, the
\* one the cache says is routed to the ADC, none if that output is open, and
\* any of them when the routing is not known.
PossibleReturns(st, c) ==
  IF st.loopMode = "MANUAL" THEN {st.loopReturnChannel}
  ELSE IF ~c.known[AdcLinkOutput] THEN Inputs
  ELSE {c.route[AdcLinkOutput]} \ {Disconnected}

PredictedOverdrive(st, c, amplitude) ==
  /\ MonitorActive(st)
  /\ \E r \in PossibleReturns(st, c) :
       LoopPeak(c.gain, amplitude, ExciteChannel(st), r, st.adcSampleGain)
         > AdcFullScale

\* _checkAdcProtection
Refuses(amplitude) ==
  status.adcProtectEnabled /\ PredictedOverdrive(status, cache, amplitude)

\* A BOARD command succeeds: the handler takes status st and cache c, updates
\* the estimate and warns when it overdrives (_buildOverdriveSuffix).
ReplyWithWarning(st, c) ==
  LET over == PredictedOverdrive(st, c, lastAmplitude)
  IN  /\ status' = [st EXCEPT !.adcOverdrive = over]
      /\ cache' = c
      /\ reply' = IF over THEN "warn" ELSE "ok"

\* A command ends without any effect on the server.
ReplyOnly(kind) ==
  /\ reply' = kind
  /\ UNCHANGED <<status, objects, cache, lastAmplitude, task>>

-----------------------------------------------------------------------------
Init ==
  /\ link \in Links
  /\ \E mode \in Modes : status = FreshStatus(mode)
  /\ objects = NoObjects
  /\ cache = ResetCache
  /\ lastAmplitude = Unit
  /\ task = Idle
  /\ reply = "none"
  /\ board \in [gain : [Inputs -> Gains], route : [Outputs -> Routes]]

Ready == task = Idle

BoardReady == Ready /\ status.hardwareInitialized /\ status.boardConnected

(***************************************************************************)
(* Early returns: unknown commands, arguments that do not parse or are out *)
(* of range, commands before SYSTEM:INIT or without a board; queries that  *)
(* only read.                                                              *)
(***************************************************************************)
RejectArguments == Ready /\ ReplyOnly("param") /\ UNCHANGED board

RejectNotInitialized ==
  Ready /\ ~status.hardwareInitialized /\ ReplyOnly("notInit") /\ UNCHANGED board

RejectNoBoard ==
  /\ Ready /\ status.hardwareInitialized /\ ~status.boardConnected
  /\ ReplyOnly("hardware")
  /\ UNCHANGED board

Query == Ready /\ ReplyOnly("text") /\ UNCHANGED board

\* SYSTEM:STATUS recomputes the estimate before it reports it.
SystStatus ==
  /\ Ready
  /\ status' = [status EXCEPT !.adcOverdrive =
                  PredictedOverdrive(status, cache, lastAmplitude)]
  /\ reply' = "text"
  /\ UNCHANGED <<objects, cache, lastAmplitude, task, board>>

-----------------------------------------------------------------------------
(***************************************************************************)
(* Lifecycle.                                                              *)
(***************************************************************************)

\* *RST: everything back to the power-on state, except the mode and the board.
Rst ==
  /\ Ready
  /\ status' = FreshStatus(status.mode)
  /\ objects' = NoObjects
  /\ cache' = ResetCache
  /\ lastAmplitude' = Unit
  /\ reply' = "text"
  /\ UNCHANGED <<task, board>>

\* SYSTEM:INIT when there is nothing to do, or the Red Pitaya does not answer.
SystInitAlreadyDone ==
  Ready /\ status.hardwareInitialized /\ ReplyOnly("text") /\ UNCHANGED board

SystInitHardwareFails ==
  /\ Ready
  /\ ~status.hardwareInitialized
  /\ objects' = [objects EXCEPT !.hardware = FALSE]
  /\ reply' = "hardware"
  /\ UNCHANGED <<status, cache, lastAmplitude, task, board>>

\* SYSTEM:INIT, first part: the Red Pitaya, then the board, whose initialize()
\* sends a STATUS and closes the port again when no answer comes back.
SystInitStart(connected) ==
  /\ Ready
  /\ ~status.hardwareInitialized
  /\ connected => status.mode # "RP_ONLY"
  /\ ~connected => status.mode = "RP_ONLY" \/ StatusLost
  /\ objects' = [objects EXCEPT
                   !.hardware = TRUE,
                   !.board = IF status.mode = "RP_ONLY" THEN @
                             ELSE IF connected THEN "open" ELSE "closed",
                   !.signalGen = TRUE]
  /\ status' = [status EXCEPT
                  !.boardConnected = connected,
                  !.currentDecimation = DefaultDecimation,
                  !.hardwareInitialized = ~connected]
  /\ task' = IF connected THEN [Idle EXCEPT !.at = "initGains"] ELSE Idle
  /\ reply' = "text"
  /\ UNCHANGED <<cache, lastAmplitude, board>>

\* Mutant: what cannot be read keeps its cached value.
SystInitGains_KeepCached ==
  /\ task.at = "initGains"
  /\ \E read \in Readable(Inputs) \cup (IF StatusLost THEN {{}} ELSE {}) :
       cache' = [cache EXCEPT
                   !.gain = [i \in Inputs |-> IF i \in read THEN board.gain[i] ELSE @[i]],
                   !.known = [o \in Outputs |-> FALSE]]
  /\ task' = [task EXCEPT !.at = "initRouting"]
  /\ UNCHANGED <<status, objects, lastAmplitude, reply, board>>

\* _refreshBoardCacheFromBoard, first half: assume the worst of everything,
\* then ask for the gains.  Those that cannot be read stay at x16.
SystInitGains ==
  /\ task.at = "initGains"
  /\ \E read \in Readable(Inputs) \cup (IF StatusLost THEN {{}} ELSE {}) :
       cache' = [cache EXCEPT
                   !.gain = [i \in Inputs |-> IF i \in read THEN board.gain[i]
                                              ELSE Gain16],
                   !.known = [o \in Outputs |-> FALSE]]
  /\ task' = [task EXCEPT !.at = "initRouting"]
  /\ UNCHANGED <<status, objects, lastAmplitude, reply, board>>

\* Mutant: once a reply has come, every output counts as known.
SystInitRouting_AllKnown ==
  /\ task.at = "initRouting"
  /\ \E read \in Readable(Outputs) :
       cache' = [cache EXCEPT
                   !.route = [o \in Outputs |-> IF o \in read THEN board.route[o]
                                                ELSE Disconnected],
                   !.known = [o \in Outputs |-> TRUE]]
  /\ status' = [status EXCEPT !.hardwareInitialized = TRUE]
  /\ task' = Idle
  /\ UNCHANGED <<objects, lastAmplitude, reply, board>>

\* Second half: ask for the routing.  The outputs that cannot be read stay
\* unknown, disconnected in the table when a reply came, as they were if none.
SystInitRouting ==
  /\ task.at = "initRouting"
  /\ \/ /\ StatusLost
        /\ UNCHANGED cache
     \/ \E read \in Readable(Outputs) :
          cache' = [cache EXCEPT
                      !.route = [o \in Outputs |-> IF o \in read THEN board.route[o]
                                                   ELSE Disconnected],
                      !.known = [o \in Outputs |-> o \in read]]
  /\ status' = [status EXCEPT !.hardwareInitialized = TRUE]
  /\ task' = Idle
  /\ UNCHANGED <<objects, lastAmplitude, reply, board>>

\* Mutant: the board still counts as connected.
SystDeinit_KeepsBoard ==
  /\ Ready
  /\ status.hardwareInitialized
  /\ objects' = [objects EXCEPT !.hardware = FALSE, !.board = "null",
                                !.signalGen = FALSE]
  /\ status' = [status EXCEPT !.hardwareInitialized = FALSE,
                              !.adcOverdrive = FALSE,
                              !.adcSaturated = FALSE]
  /\ reply' = "text"
  /\ UNCHANGED <<cache, lastAmplitude, task, board>>

\* SYSTEM:DEINIT.  Loop mode, protection, sample gain, cache and amplitude stay.
SystDeinit ==
  /\ Ready
  /\ status.hardwareInitialized
  /\ objects' = [objects EXCEPT !.hardware = FALSE, !.board = "null",
                                !.signalGen = FALSE]
  /\ status' = [status EXCEPT !.hardwareInitialized = FALSE,
                              !.boardConnected = FALSE,
                              !.adcOverdrive = FALSE,
                              !.adcSaturated = FALSE]
  /\ reply' = "text"
  /\ UNCHANGED <<cache, lastAmplitude, task, board>>

-----------------------------------------------------------------------------
(***************************************************************************)
(* BOARD commands that change the board.  The cache follows only what the  *)
(* board acknowledges.                                                     *)
(***************************************************************************)
\* Mutant: the cache is updated before the board has answered.
BoardMuxRoute_CacheFirst(o, i) ==
  /\ BoardReady
  /\ Acknowledged(RouteTo(o, i)) \/ Unacknowledged(RouteTo(o, i))
  /\ ReplyWithWarning(status, [cache EXCEPT !.route[o] = i, !.known[o] = TRUE])
  /\ UNCHANGED <<objects, lastAmplitude, task>>

BoardMuxRoute(o, i) ==
  /\ BoardReady
  /\ \/ /\ Acknowledged(RouteTo(o, i))
        /\ ReplyWithWarning(status, [cache EXCEPT !.route[o] = i, !.known[o] = TRUE])
        /\ UNCHANGED <<objects, lastAmplitude, task>>
     \/ /\ Unacknowledged(RouteTo(o, i))
        /\ ReplyOnly("hardware")

BoardMuxDisconnect(o) ==
  /\ BoardReady
  /\ \/ /\ Acknowledged(RouteTo(o, Disconnected))
        /\ ReplyWithWarning(status, [cache EXCEPT !.route[o] = Disconnected,
                                                  !.known[o] = TRUE])
        /\ UNCHANGED <<objects, lastAmplitude, task>>
     \/ /\ Unacknowledged(RouteTo(o, Disconnected))
        /\ ReplyOnly("hardware")

BoardGain(i, g) ==
  /\ BoardReady
  /\ \/ /\ Acknowledged(GainTo(i, g))
        /\ ReplyWithWarning(status, [cache EXCEPT !.gain[i] = g])
        /\ UNCHANGED <<objects, lastAmplitude, task>>
     \/ /\ Unacknowledged(GainTo(i, g))
        /\ ReplyOnly("hardware")

\* Mutant: the cache is forgotten.
BoardReset_KeepsCache ==
  /\ BoardReady
  /\ Acknowledged(DefaultBoard)
  /\ ReplyWithWarning(status, cache)
  /\ UNCHANGED <<objects, lastAmplitude, task>>

BoardReset ==
  /\ BoardReady
  /\ \/ /\ Acknowledged(DefaultBoard)
        /\ ReplyWithWarning(status, ResetCache)
        /\ UNCHANGED <<objects, lastAmplitude, task>>
     \/ /\ Unacknowledged(DefaultBoard)
        /\ ReplyOnly("hardware")

\* BOARD:STATUS? takes over what it can read; the rest keeps its cached value.
BoardStatus ==
  /\ BoardReady
  /\ \/ /\ \E gs \in Readable(Inputs), rs \in Readable(Outputs) :
             cache' = [gain  |-> [i \in Inputs |-> IF i \in gs THEN board.gain[i]
                                                   ELSE cache.gain[i]],
                       route |-> [o \in Outputs |-> IF o \in rs THEN board.route[o]
                                                    ELSE cache.route[o]],
                       known |-> [o \in Outputs |-> o \in rs \/ cache.known[o]]]
        /\ reply' = "text"
        /\ UNCHANGED <<status, objects, lastAmplitude, task, board>>
     \/ StatusLost /\ ReplyOnly("hardware") /\ UNCHANGED board

-----------------------------------------------------------------------------
(***************************************************************************)
(* BOARD:ADC commands: the server's own settings.                          *)
(***************************************************************************)
BoardAdcLoopOff ==
  /\ BoardReady
  /\ status' = [status EXCEPT !.loopMode = "OFF", !.adcOverdrive = FALSE]
  /\ reply' = "ok"
  /\ UNCHANGED <<objects, cache, lastAmplitude, task, board>>

BoardAdcLoopAuto ==
  /\ BoardReady
  /\ ReplyWithWarning([status EXCEPT !.loopMode = "AUTO"], cache)
  /\ UNCHANGED <<objects, lastAmplitude, task, board>>

\* Mutant: the estimate is not brought up to date.
BoardAdcLoopManual_NoEstimate(excite, ret) ==
  /\ BoardReady
  /\ status' = [status EXCEPT !.loopMode = "MANUAL",
                              !.loopExciteChannel = excite,
                              !.loopReturnChannel = ret]
  /\ reply' = "ok"
  /\ UNCHANGED <<objects, cache, lastAmplitude, task, board>>

BoardAdcLoopManual(excite, ret) ==
  /\ BoardReady
  /\ ReplyWithWarning([status EXCEPT !.loopMode = "MANUAL",
                                     !.loopExciteChannel = excite,
                                     !.loopReturnChannel = ret], cache)
  /\ UNCHANGED <<objects, lastAmplitude, task, board>>

BoardAdcProtect(on) ==
  /\ BoardReady
  /\ ReplyWithWarning([status EXCEPT !.adcProtectEnabled = on], cache)
  /\ UNCHANGED <<objects, lastAmplitude, task, board>>

BoardAdcSampleGain(factor) ==
  /\ BoardReady
  /\ ReplyWithWarning([status EXCEPT !.adcSampleGain = factor], cache)
  /\ UNCHANGED <<objects, lastAmplitude, task, board>>

-----------------------------------------------------------------------------
(***************************************************************************)
(* MEASURE:SINC and MEASURE:SWEEP.  A sinc is one acquisition, a sweep one *)
(* per point; between two points the client may cancel.                    *)
(***************************************************************************)
MeasureRefused(amplitude) ==
  /\ Ready /\ status.hardwareInitialized
  /\ Refuses(amplitude)
  /\ ReplyOnly("overdrive")
  /\ UNCHANGED board

\* setDecimation fails: nothing has been changed yet.
MeasureDecimationFails(amplitude) ==
  /\ Ready /\ status.hardwareInitialized
  /\ ~Refuses(amplitude)
  /\ ReplyOnly("hardware")
  /\ UNCHANGED board

\* The measurement is admitted: decimation applied with a new signal chain,
\* amplitude tracked, saturation evidence cleared.
MeasureAdmitted(sweep, points, amplitude, decimation) ==
  /\ Ready /\ status.hardwareInitialized
  /\ ~Refuses(amplitude)
  /\ ~sweep => points = 1
  /\ status' = [status EXCEPT !.currentDecimation = decimation,
                              !.adcSaturated = FALSE,
                              !.measurementInProgress = TRUE]
  /\ objects' = [objects EXCEPT !.signalGen = TRUE, !.fftProcessor = TRUE]
  /\ lastAmplitude' = amplitude
  /\ task' = [at |-> "points", sweep |-> sweep, left |-> points]
  /\ reply' = "none"
  /\ UNCHANGED <<cache, board>>

\* ScopedMeasurement leaves scope on every way out.
EndMeasure(st, kind) ==
  /\ status' = [st EXCEPT !.measurementInProgress = FALSE]
  /\ task' = Idle
  /\ reply' = kind

\* The signal cannot be loaded, started or read, or it does not end in time.
MeasurePointFails ==
  /\ task.at = "points"
  /\ \E kind \in {"hardware", "timeout"} : EndMeasure(status, kind)
  /\ UNCHANGED <<objects, cache, lastAmplitude, board>>

SweepCancelled ==
  /\ task.at = "points" /\ task.sweep
  /\ EndMeasure(status, "aborted")
  /\ UNCHANGED <<objects, cache, lastAmplitude, board>>

\* Mutant: a clean point erases the evidence of the points before it.
MeasurePointDone_LastPointOnly(saturated) ==
  LET st == [status EXCEPT !.adcSaturated = saturated]
  IN  /\ task.at = "points"
      /\ IF task.left = 1
         THEN EndMeasure(st, "data")
         ELSE /\ status' = st
              /\ task' = [task EXCEPT !.left = @ - 1]
              /\ UNCHANGED reply
      /\ UNCHANGED <<objects, cache, lastAmplitude, board>>

\* Mutant: the loop over the points does not advance.
MeasurePointDone_SamePoint(saturated) ==
  /\ task.at = "points"
  /\ status' = [status EXCEPT !.adcSaturated = saturated \/ (task.sweep /\ @)]
  /\ UNCHANGED <<objects, cache, lastAmplitude, task, reply, board>>

\* One acquisition is read and checked for clipping.  A sinc whose band holds
\* no frequency bin ends in an error after it has been acquired.
MeasurePointDone(saturated) ==
  LET st == [status EXCEPT !.adcSaturated = saturated \/ (task.sweep /\ @)]
  IN  /\ task.at = "points"
      /\ IF task.left = 1
         THEN \E kind \in {"data"} \cup (IF task.sweep THEN {} ELSE {"param"}) :
                EndMeasure(st, kind)
         ELSE /\ status' = st
              /\ task' = [task EXCEPT !.left = @ - 1]
              /\ UNCHANGED reply
      /\ UNCHANGED <<objects, cache, lastAmplitude, board>>

-----------------------------------------------------------------------------
(***************************************************************************)
(* What happens around the server.                                         *)
(***************************************************************************)

\* The board loses power: MUX_Init at its start brings back the defaults.
BoardRestart ==
  /\ "restart" \in Faults
  /\ board' = DefaultBoard
  /\ UNCHANGED server

\* The server dies, at any point of a command, and is started again.
ServerRestart ==
  /\ status' = FreshStatus(status.mode)
  /\ objects' = NoObjects
  /\ cache' = ResetCache
  /\ lastAmplitude' = Unit
  /\ task' = Idle
  /\ reply' = "none"
  /\ UNCHANGED board

-----------------------------------------------------------------------------
Reject == RejectArguments \/ RejectNotInitialized \/ RejectNoBoard

Lifecycle ==
  \/ Rst
  \/ SystInitAlreadyDone
  \/ SystInitHardwareFails
  \/ \E connected \in BOOLEAN : SystInitStart(connected)
  \/ SystDeinit

BoardCommand ==
  \/ \E o \in Outputs, i \in Inputs : BoardMuxRoute(o, i)
  \/ \E o \in Outputs : BoardMuxDisconnect(o)
  \/ \E i \in Inputs, g \in Gains : BoardGain(i, g)
  \/ BoardReset
  \/ BoardStatus

AdcCommand ==
  \/ BoardAdcLoopOff
  \/ BoardAdcLoopAuto
  \/ \E excite, ret \in Inputs : BoardAdcLoopManual(excite, ret)
  \/ \E on \in BOOLEAN : BoardAdcProtect(on)
  \/ \E factor \in SampleGains : BoardAdcSampleGain(factor)

Measure ==
  \E amplitude \in Amplitudes :
    \/ MeasureRefused(amplitude)
    \/ MeasureDecimationFails(amplitude)
    \/ \E sweep \in BOOLEAN, points \in 1 .. MaxPoints, decimation \in Decimations :
         MeasureAdmitted(sweep, points, amplitude, decimation)

\* What the server does by itself once a command has started.
Continue ==
  \/ SystInitGains
  \/ SystInitRouting
  \/ MeasurePointFails
  \/ SweepCancelled
  \/ \E saturated \in BOOLEAN : MeasurePointDone(saturated)

Environment == BoardRestart \/ ServerRestart

Next ==
  /\ \/ Reject \/ Query \/ SystStatus
     \/ Lifecycle \/ BoardCommand \/ AdcCommand \/ Measure
     \/ Continue \/ Environment
  /\ UNCHANGED link

Spec == Init /\ [][Next]_<<link, vars>>

\* Every exchange with the board and every acquisition has a deadline, so a
\* command that has started goes on.  Nothing obliges a client to send one.
FairSpec == Spec /\ WF_vars(Continue)

-----------------------------------------------------------------------------
(***************************************************************************)
(* Properties.                                                             *)
(***************************************************************************)
Statuses ==
  [hardwareInitialized : BOOLEAN, boardConnected : BOOLEAN,
   measurementInProgress : BOOLEAN, currentDecimation : Decimations,
   mode : Modes, loopMode : {"AUTO", "MANUAL", "OFF"},
   loopExciteChannel : Inputs, loopReturnChannel : Inputs,
   adcProtectEnabled : BOOLEAN, adcSampleGain : SampleGains,
   adcOverdrive : BOOLEAN, adcSaturated : BOOLEAN]

Replies == {"none", "ok", "warn", "text", "data", "param", "notInit",
            "hardware", "timeout", "aborted", "overdrive"}

Tasks ==
  [at : {"idle", "initGains", "initRouting"}, sweep : {FALSE}, left : {0}]
    \cup [at : {"points"}, sweep : BOOLEAN, left : 1 .. MaxPoints]

\* Every variable keeps to the values of its type in the source.
TypeOK ==
  /\ link \in Links
  /\ status \in Statuses
  /\ objects \in [hardware : BOOLEAN, board : {"null", "open", "closed"},
                  signalGen : BOOLEAN, fftProcessor : BOOLEAN]
  /\ cache \in [gain : [Inputs -> Gains], route : [Outputs -> Routes],
                known : [Outputs -> BOOLEAN]]
  /\ lastAmplitude \in Amplitudes
  /\ task \in Tasks
  /\ reply \in Replies
  /\ board \in [gain : [Inputs -> Gains], route : [Outputs -> Routes]]

(***************************************************************************)
(* The cache covers the board: each gain is the board's or the worst case  *)
(* x16, each routing taken as known is the board's.  Between the two       *)
(* readings of SYSTEM:INIT only the gains count, and after *RST, DEINIT or *)
(* a restart of the server nothing does until the next SYSTEM:INIT.        *)
(***************************************************************************)
GainsRead ==
  status.boardConnected /\ (status.hardwareInitialized \/ task.at = "initRouting")

RoutingRead == status.boardConnected /\ status.hardwareInitialized

CacheCoversBoard ==
  /\ GainsRead => \A i \in Inputs : cache.gain[i] \in {board.gain[i], Gain16}
  /\ RoutingRead =>
       \A o \in Outputs : cache.known[o] => cache.route[o] = board.route[o]

\* Whatever sequence of commands, failed exchanges, half-read STATUS replies,
\* *RST, DEINIT, INIT and server restarts: the cache stops covering the board
\* only when the board changes and the server is not told (the comment at
\* CommandHandler.cpp:190 argues the *RST part of it).
OnlyUnheardChangesUncover ==
  [][CacheCoversBoard /\ ~CacheCoversBoard'
       => board' # board /\ UNCHANGED cache]_vars

(***************************************************************************)
(* The promise to the user, read off the real state.                       *)
(***************************************************************************)
Guard == INSTANCE AdcGuard WITH
  settings <- [monitored |-> status.boardConnected, loopMode |-> status.loopMode,
               excite |-> status.loopExciteChannel,
               return |-> status.loopReturnChannel,
               protect |-> status.adcProtectEnabled,
               sampleGain |-> status.adcSampleGain],
  drive <- IF task.at = "points" THEN lastAmplitude ELSE 0

\* README section 5, "Refusal: above 1 V the measurement is not run": with the
\* protection on and the monitor active, a running measurement does not drive
\* the ADC above full scale through the gains the board really has.
NoMeasurementAboveFullScale == Guard!DrivenWithinFullScale

\* The handler implements the promise, step by step.
ImplementsGuard == Guard!Spec

\* The link does not hide a change of the board from the server: what the two
\* properties above, and CacheCoversBoard as an invariant, need.
ReliableLink == Faults \cap {"ackLost", "restart"} = {}

\* Every exchange with the board goes well.
Undisturbed == Faults = {}

\* While every exchange with the board goes well, the worst cases the cache
\* assumes never show: a measurement is refused only when the board, as it is,
\* would overdrive the ADC (_checkAdcProtection on the cache against the board).
RefusedOnlyIfOverdriven ==
  [][Undisturbed => \A amplitude \in Amplitudes :
       MeasureRefused(amplitude) => Guard!Overdrives(amplitude)]_vars

\* The pointers each handler dereferences after its checks are not null, the
\* board is open whenever it counts as connected, and measurementInProgress is
\* true exactly while points are acquired, on every path out of every handler.
ObjectsMatchStatus ==
  /\ status.hardwareInitialized \/ task.at # "idle" =>
       objects.hardware /\ objects.signalGen
  /\ status.boardConnected => objects.board = "open" /\ objects.hardware
  /\ task.at = "points" => status.hardwareInitialized /\ objects.fftProcessor
  /\ status.measurementInProgress <=> task.at = "points"

\* A BOARD command answered without a warning leaves a state where the last
\* excitation, sent again, is not refused: no handler that changes what the
\* estimate depends on forgets to look at it.
NoSilentOverdrive ==
  reply = "ok" /\ Ready => ~PredictedOverdrive(status, cache, lastAmplitude)

\* Once set, the saturation flag is only cleared by a measurement that passed
\* every check, by SYSTEM:DEINIT, by *RST or by a restart of the server; not by
\* a later clean point of the same sweep, nor by anything a BOARD command does.
SaturationEvidenceKept ==
  [][status.adcSaturated /\ ~status'.adcSaturated
       => \/ Ready /\ task'.at = "points"
          \/ ~status'.hardwareInitialized]_vars

\* A command that has started ends, whatever the board and the hardware do.
CommandsEnd == task.at # "idle" ~> task.at = "idle"
=============================================================================
