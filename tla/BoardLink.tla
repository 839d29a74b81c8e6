----------------------------- MODULE BoardLink -----------------------------
(***************************************************************************)
(* One exchange after another between the server and the electronic board  *)
(* over the UART: ElectronicBoardUART::_sendCommand and                    *)
(* BoardProtocol::sendCommand on one side, the firmware's command_parser   *)
(* and mux_control on the other, a noisy wire between.                     *)
(*                                                                         *)
(* A command travels as one message.  The board echoes its characters, and *)
(* its newline is answered by the lines of a reply, in one message holding *)
(* those that survive.  The number an exchange carries is a device of the  *)
(* model: the real messages have none, which is the difficulty.            *)
(***************************************************************************)
EXTENDS Integers, FiniteSets, SequencesExt

CONSTANTS
  Inputs, Outputs, Disconnected,
  Gains,          \* gain factors used, in eighths
  Gain1,          \* the factor after power-on
  Unread,         \* a value a STATUS reply does not give
  MaxExchanges,   \* bound on the exchanges of a behaviour
  MaxLostLines,   \* bound on the lines lost of one reply
  Wires           \* the kinds of wire there are

NoiseKinds ==
  {"command",     \* a command is lost whole
   "terminator",  \* its newline is lost
   "line",        \* lines of a reply are lost
   "restart"}     \* the board restarts and forgets what it was doing

BoardLinkAssumption ==
  /\ Disconnected \notin Inputs
  /\ Gain1 \in Gains
  /\ Unread \notin Gains \cup Inputs \cup {Disconnected}
  /\ IsFiniteSet(Inputs) /\ IsFiniteSet(Outputs)
  /\ MaxExchanges \in Nat /\ MaxLostLines \in Nat
  /\ Wires \subseteq [noise : SUBSET NoiseKinds, late : BOOLEAN]

ASSUME BoardLinkAssumption

VARIABLES
  wire,      \* the kind of wire of this behaviour
  board,     \* muxRouting and ampGains of the firmware
  buffer,    \* cmdBuffer: the commands whose characters it holds
  toBoard,   \* commands on the wire
  toHost,    \* echoes and replies on the wire
  host,      \* the last sendCommand, in progress or over
  result,    \* what the last sendCommand to end returned
  obeyed,    \* exchange and state of the board at the last command it took
  answer     \* the command the last OK was the firmware's answer to

vars == <<wire, board, buffer, toBoard, toHost, host, result, obeyed, answer>>

\* What the wire may do, and whether a reply may come after the server has
\* given up on it.
Noise == wire.noise
Late == wire.late

Routes == Inputs \cup {Disconnected}

Commands ==
  [op : {"GAIN"}, at : Inputs, to : Gains]
    \cup [op : {"MUX"}, at : Outputs, to : Routes]
    \cup {[op |-> "STATUS"], [op |-> "RESET"]}

\* Mutant: MUX_Init leaves the gains zeroed, which is the setting x1/8.
DefaultBoard_GainsZeroed == [gain  |-> [i \in Inputs |-> 1],
                             route |-> [o \in Outputs |-> Disconnected]]

DefaultBoard == [gain  |-> [i \in Inputs |-> Gain1],
                 route |-> [o \in Outputs |-> Disconnected]]

\* The lines of a reply: the end of the echo and the final OK or ERR, and for a
\* STATUS the two section headers and a line per output and per input.
Lines(isStatus) ==
  {<<"echo">>, <<"final">>} \cup
    (IF isStatus
     THEN {<<"Routing:">>, <<"Gains:">>} \cup ({"OUT"} \X Outputs) \cup ({"IN"} \X Inputs)
     ELSE {})

\* What is left of them after the wire.
Survivors(lines) ==
  {kept \in SUBSET lines :
     Cardinality(lines \ kept) <= IF "line" \in Noise THEN MaxLostLines ELSE 0}

-----------------------------------------------------------------------------
(***************************************************************************)
(* The firmware.                                                           *)
(***************************************************************************)
Execute(c, b) ==
  CASE c.op = "GAIN"   -> [b EXCEPT !.gain[c.at] = c.to]
    [] c.op = "MUX"    -> [b EXCEPT !.route[c.at] = c.to]
    [] c.op = "RESET"  -> DefaultBoard
    [] c.op = "STATUS" -> b

\* MUX and GAIN are recognised by their first letters and read their first
\* arguments only, so a buffer that runs several commands together is obeyed as
\* its first when that is one of them, and is unknown otherwise.
Understood(received) == Len(received) = 1 \/ received[1].op \in {"GAIN", "MUX"}

\* CMD_ProcessChar over the characters of a command, echoing them; its newline
\* makes CMD_Execute run on what the buffer holds.
BoardReceives ==
  /\ toBoard # <<>>
  /\ LET message  == Head(toBoard)
         received == Append(buffer, message.cmd)
         first    == received[1]
         after    == IF Understood(received) THEN Execute(first, board) ELSE board
         isStatus == Understood(received) /\ first.op = "STATUS"
     IN  IF message.terminated
         THEN /\ board' = after
              /\ buffer' = <<>>
              /\ obeyed' = IF Len(received) = 1
                           THEN [id |-> message.id, board |-> after] ELSE obeyed
              /\ \E kept \in Survivors(Lines(isStatus)) :
                   toHost' = Append(toHost,
                     [newline |-> TRUE, echo |-> message.cmd, lines |-> kept,
                      board |-> after, ok |-> Understood(received), of |-> first])
         ELSE /\ buffer' = received
              /\ toHost' = Append(toHost, [newline |-> FALSE, echo |-> message.cmd])
              /\ UNCHANGED <<board, obeyed>>
  /\ toBoard' = Tail(toBoard)
  /\ UNCHANGED <<host, result, answer>>

-----------------------------------------------------------------------------
(***************************************************************************)
(* The server.                                                             *)
(***************************************************************************)
Exchange(at, id, c) ==
  [at |-> at, id |-> id, cmd |-> c,
   line     |-> <<>>,      \* m_lineBuffer: echoes received without a newline
   echoSeen |-> FALSE,
   payload  |-> <<>>]

Failure == [ok |-> FALSE]

Init ==
  /\ wire \in Wires
  /\ board = DefaultBoard
  /\ buffer = <<>>
  /\ toBoard = <<>>
  /\ toHost = <<>>
  /\ host = Exchange("idle", 0, [op |-> "STATUS"])
  /\ result = Failure
  /\ obeyed = [id |-> 0, board |-> DefaultBoard]
  /\ answer = [op |-> "STATUS"]

\* Flush what has arrived, then write the command.  What is still on the wire
\* arrives after the flush.
SendCommand(c) ==
  /\ host.at = "idle"
  /\ host.id < MaxExchanges
  /\ host' = Exchange("waiting", host.id + 1, c)
  /\ \E terminated \in {TRUE} \cup (IF "terminator" \in Noise THEN {FALSE} ELSE {}) :
       toBoard' = Append(toBoard, [id |-> host.id + 1, cmd |-> c,
                                   terminated |-> terminated])
  /\ \E arrived \in 0 .. Len(toHost) :
       toHost' = SubSeq(toHost, arrived + 1, Len(toHost))
  /\ UNCHANGED <<board, buffer, result, obeyed, answer>>

(***************************************************************************)
(* parseGainStatus and parseRoutingStatus over a payload, the replies      *)
(* received between the echo and the OK.  Gains are looked for from the    *)
(* first "Gains:" to the end, routes from the first "Routing:" to the next *)
(* "Gains:"; of several lines for a channel the last one counts.           *)
(***************************************************************************)
LastValue(replies, line, Value(_)) ==
  LET k == SelectLastInSeq(replies, LAMBDA r : line \in r.lines)
  IN  IF k = 0 THEN Unread ELSE Value(replies[k].board)

From(payload, header) ==
  LET k == SelectInSeq(payload, LAMBDA r : header \in r.lines)
  IN  IF k = 0 THEN <<>> ELSE SubSeq(payload, k, Len(payload))

UpTo(payload, header) ==
  LET k == SelectInSeq(payload, LAMBDA r : header \in r.lines)
  IN  IF k = 0 THEN payload ELSE SubSeq(payload, 1, k)

\* Mutant: a channel without a line counts as read, at its power-on value.
ParseStatus_AllValid(payload) ==
  [gain  |-> [i \in Inputs |->
     LET v == LastValue(From(payload, <<"Gains:">>), <<"IN", i>>, LAMBDA b : b.gain[i])
     IN  IF v = Unread THEN DefaultBoard.gain[i] ELSE v],
   route |-> [o \in Outputs |-> Unread]]

ParseStatus(payload) ==
  [gain  |-> [i \in Inputs |->
     LastValue(From(payload, <<"Gains:">>), <<"IN", i>>, LAMBDA b : b.gain[i])],
   route |-> [o \in Outputs |->
     LastValue(UpTo(From(payload, <<"Routing:">>), <<"Gains:">>),
               <<"OUT", o>>, LAMBDA b : b.route[o])]]

\* Mutant: the echo of any command will do.
IsEcho_OfAny(line, command) == TRUE

\* _isEcho: the whole line, after the prompt, is the command.
IsEcho(line, command) == line = <<command>>

\* The lines of one message, as the loop of sendCommand takes them: nothing
\* counts before a line that is the echo of this command; then everything does,
\* up to OK or ERR.  An echo without its newline waits in the line buffer.
ReadReply ==
  /\ host.at = "waiting"
  /\ toHost # <<>>
  /\ toHost' = Tail(toHost)
  /\ LET reply   == Head(toHost)
         line    == Append(host.line, reply.echo)
         echoed  == host.echoSeen
                      \/ (<<"echo">> \in reply.lines /\ IsEcho(line, host.cmd))
         payload == IF echoed THEN Append(host.payload, reply) ELSE host.payload
         ended   == echoed /\ <<"final">> \in reply.lines
     IN  \/ /\ ~reply.newline
            /\ host' = [host EXCEPT !.line = line]
            /\ UNCHANGED <<result, answer>>
         \/ /\ reply.newline /\ ~ended
            /\ host' = [host EXCEPT !.line = <<>>, !.echoSeen = echoed,
                                    !.payload = payload]
            /\ UNCHANGED <<result, answer>>
         \/ /\ reply.newline /\ ended
            /\ host' = [host EXCEPT !.at = "idle", !.payload = <<>>]
            /\ result' = IF ~reply.ok THEN Failure
                         ELSE IF host.cmd.op # "STATUS" THEN [ok |-> TRUE]
                         ELSE [ok |-> TRUE, read |-> ParseStatus(payload)]
            /\ answer' = IF reply.ok THEN reply.of ELSE answer
  /\ UNCHANGED <<board, buffer, toBoard, obeyed>>

\* Mutant: a board that says nothing is taken to have obeyed.
Timeout_TakenAsSuccess ==
  /\ host.at = "waiting"
  /\ Late \/ (toBoard = <<>> /\ toHost = <<>>)
  /\ host' = [host EXCEPT !.at = "idle"]
  /\ result' = IF host.cmd.op = "STATUS" THEN Failure ELSE [ok |-> TRUE]
  /\ UNCHANGED <<board, buffer, toBoard, toHost, obeyed, answer>>

\* The deadline of the whole exchange passes.  Unless replies may be late, it
\* does so only when nothing is on its way any more.
Timeout ==
  /\ host.at = "waiting"
  /\ Late \/ (toBoard = <<>> /\ toHost = <<>>)
  /\ host' = [host EXCEPT !.at = "idle"]
  /\ result' = Failure
  /\ UNCHANGED <<board, buffer, toBoard, toHost, obeyed, answer>>

-----------------------------------------------------------------------------
LoseCommand ==
  /\ "command" \in Noise
  /\ toBoard # <<>>
  /\ toBoard' = Tail(toBoard)
  /\ UNCHANGED <<board, buffer, toHost, host, result, obeyed, answer>>

\* MUX_Init and CMD_Init.  What was being received is lost, and what was being
\* sent is cut; what had arrived is still there for the server to read.
BoardRestart ==
  /\ "restart" \in Noise
  /\ board' = DefaultBoard
  /\ buffer' = <<>>
  /\ toBoard' = <<>>
  /\ \E sent \in 0 .. Len(toHost) : toHost' = SubSeq(toHost, 1, sent)
  /\ UNCHANGED <<host, result, obeyed, answer>>

Next ==
  /\ \/ \E c \in Commands : SendCommand(c)
     \/ BoardReceives
     \/ ReadReply
     \/ Timeout
     \/ LoseCommand
     \/ BoardRestart
  /\ UNCHANGED wire

Spec == Init /\ [][Next]_vars

-----------------------------------------------------------------------------
\* Every variable keeps to the values of its type in the source.
TypeOK ==
  /\ board \in [gain : [Inputs -> Gains], route : [Outputs -> Routes]]
  /\ buffer \in Seq(Commands)
  /\ \A k \in DOMAIN toBoard : toBoard[k].cmd \in Commands
  /\ \A k \in DOMAIN toHost : toHost[k].echo \in Commands
  /\ host.at \in {"idle", "waiting"}
  /\ host.id \in 0 .. MaxExchanges
  /\ host.cmd \in Commands /\ answer \in Commands
  /\ result.ok \in BOOLEAN
  /\ obeyed.id \in 0 .. MaxExchanges

Calls == INSTANCE BoardCalls WITH
  call <- IF host.at = "idle" THEN [at |-> "idle"]
          ELSE IF obeyed.id = host.id
          THEN [at |-> "obeyed", cmd |-> host.cmd, board |-> obeyed.board]
          ELSE [at |-> "asked", cmd |-> host.cmd]

\* On a wire that delivers newlines and nothing late, whatever else it loses,
\* the link keeps the promise of IElectronicBoard, step by step: a reply answers
\* the command it follows, a success means the board has obeyed during the call,
\* a STATUS returns what the board held, and nothing happens to the board after
\* a call that was given up (_sendCommand, BoardProtocol::sendCommand).
Prompt == ~Late /\ "terminator" \notin Noise

PromptLinkImplementsCalls ==
  /\ Prompt => Calls!Init
  /\ [][Prompt => [Calls!Next]_Calls!vars]_vars

AnsweredBySameCommand == host.at = "idle" /\ result.ok => answer = host.cmd

\* On a wire that delivers newlines, and either every line or nothing late, a
\* call only succeeds on the board's OK to a command that reads the same, even
\* when the reply is that of an earlier exchange ("lines before the echo are
\* left over from earlier commands and are skipped", BoardProtocol.h:17).
SameCommandAnswers ==
  "terminator" \notin Noise /\ ("line" \notin Noise \/ ~Late) => AnsweredBySameCommand

StatusIsTruthful ==
  host.at = "idle" /\ result.ok /\ host.cmd.op = "STATUS" =>
    /\ \A i \in Inputs : result.read.gain[i] \in {board.gain[i], Unread}
    /\ \A o \in Outputs : result.read.route[o] \in {board.route[o], Unread}

\* While nothing is late and the board does not restart, a STATUS never gives a
\* gain or a route the board does not have, whatever commands the wire has run
\* together before it and whatever lines of it are missing (parseGainStatus,
\* parseRoutingStatus).
MergedStatusIsTruthful == ~Late /\ "restart" \notin Noise => StatusIsTruthful

\* "Lines left from an earlier command never answer this one" (_sendCommand,
\* ElectronicBoardUART.cpp:265): on a success, the board has taken this command.
EarlierLinesNeverAnswer == host.at = "idle" /\ result.ok => obeyed.id = host.id

\* "Leftover characters in the board buffer merge with the command", and the
\* command is then rejected (test_board_protocol.cpp:134): the board's OK to a
\* merged command, obeyed as its first part, is not a success of its last.
MergedCommandIsRejected == host.at = "idle" /\ result.ok => answer = host.cmd
=============================================================================
