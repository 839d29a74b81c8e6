-------------------------- MODULE BoardLink_proofs --------------------------
(***************************************************************************)
(* Proofs about the UART link, for any inputs, outputs and gains, any       *)
(* number of exchanges, and every kind of wire.                             *)
(***************************************************************************)
EXTENDS BoardLink, FiniteSetTheorems, TLAPS

Boards == [gain : [Inputs -> Gains], route : [Outputs -> Routes]]

\* Commands on the wire, and what the board sends: the lines of a reply, or an
\* echo whose newline was lost on the way there.
Sent == [id : 0 .. MaxExchanges, cmd : Commands, terminated : BOOLEAN]
Reply == [newline : {TRUE}, echo : Commands, lines : SUBSET Lines(TRUE), board : Boards,
          ok : BOOLEAN, of : Commands]
Echo == [newline : {FALSE}, echo : Commands]

-----------------------------------------------------------------------------
(* The type invariant *)

Hosts == [at : {"idle", "waiting"}, id : 0 .. MaxExchanges, cmd : Commands,
          line : Seq(Commands), echoSeen : BOOLEAN, payload : Seq(Reply)]

HostOK ==
  /\ host \in Hosts
  /\ result.ok \in BOOLEAN /\ answer \in Commands

BoardOK ==
  /\ board \in Boards /\ buffer \in Seq(Commands) /\ obeyed.id \in 0 .. MaxExchanges

WireOK == toBoard \in Seq(Sent) /\ toHost \in Seq(Reply \cup Echo)

Typed == HostOK /\ BoardOK /\ WireOK

LEMMA CommandKinds ==
  /\ [op |-> "STATUS"] \in Commands
  /\ \A c \in Commands : c.op \in {"GAIN", "MUX", "STATUS", "RESET"}
  /\ \A c \in Commands : c.op = "GAIN" => c.at \in Inputs /\ c.to \in Gains
  /\ \A c \in Commands : c.op = "MUX" => c.at \in Outputs /\ c.to \in Routes
BY DEF Commands

LEMMA DefaultTyped == DefaultBoard \in Boards
BY BoardLinkAssumption DEF DefaultBoard, Boards, Routes, BoardLinkAssumption

LEMMA ExecuteTyped ==
  ASSUME NEW c \in Commands, NEW b \in Boards
  PROVE  Execute(c, b) \in Boards
<1>1. CASE c.op = "GAIN"
  BY <1>1, CommandKinds DEF Execute, Boards
<1>2. CASE c.op = "MUX"
  BY <1>2, CommandKinds DEF Execute, Boards
<1>3. CASE c.op \in {"STATUS", "RESET"}
  BY <1>3, DefaultTyped DEF Execute
<1>. QED  BY <1>1, <1>2, <1>3, CommandKinds

LEMMA SurvivorsTyped ==
  ASSUME NEW isStatus \in BOOLEAN, NEW kept \in Survivors(Lines(isStatus))
  PROVE  kept \in SUBSET Lines(TRUE)
BY DEF Survivors, Lines

LEMMA HostChanges ==
  ASSUME NEW h \in Hosts
  PROVE  /\ \A l \in Seq(Commands) : [h EXCEPT !.line = l] \in Hosts
         /\ \A e \in BOOLEAN, p \in Seq(Reply) :
              [h EXCEPT !.line = <<>>, !.echoSeen = e, !.payload = p] \in Hosts
         /\ [h EXCEPT !.at = "idle", !.payload = <<>>] \in Hosts
         /\ [h EXCEPT !.at = "idle"] \in Hosts
<1>1. <<>> \in Seq(Commands) /\ <<>> \in Seq(Reply)
  OBVIOUS
<1>. QED  BY <1>1 DEF Hosts

LEMMA InitTyped == Init => Typed
<1>. SUFFICES ASSUME Init PROVE Typed
  OBVIOUS
<1>1. HostOK
  BY CommandKinds, BoardLinkAssumption
  DEF Init, HostOK, Hosts, Exchange, Failure, BoardLinkAssumption
<1>2. BoardOK /\ WireOK
  BY DefaultTyped, BoardLinkAssumption DEF Init, BoardOK, WireOK, BoardLinkAssumption
<1>. QED  BY <1>1, <1>2 DEF Typed

LEMMA SendTyped ==
  ASSUME Typed, NEW c \in Commands, SendCommand(c)
  PROVE  Typed'
<1>1. host.id + 1 \in 0 .. MaxExchanges
  BY BoardLinkAssumption DEF Typed, HostOK, Hosts, SendCommand, BoardLinkAssumption
<1>2. HostOK'
  BY <1>1 DEF Typed, HostOK, Hosts, SendCommand, Exchange
<1>3. PICK terminated \in BOOLEAN :
        toBoard' = Append(toBoard, [id |-> host.id + 1, cmd |-> c, terminated |-> terminated])
  BY DEF SendCommand
<1>4. toBoard' \in Seq(Sent)
  <2>1. [id |-> host.id + 1, cmd |-> c, terminated |-> terminated] \in Sent
    BY <1>1 DEF Sent
  <2>. QED  BY <1>3, <2>1 DEF Typed, WireOK
<1>5. toHost' \in Seq(Reply \cup Echo)
  <2>1. PICK arrived \in 0 .. Len(toHost) : toHost' = SubSeq(toHost, arrived + 1, Len(toHost))
    BY DEF SendCommand
  <2>. QED  BY <2>1 DEF Typed, WireOK
<1>. QED  BY <1>2, <1>4, <1>5 DEF Typed, BoardOK, WireOK, SendCommand

LEMMA ReceiveTyped ==
  ASSUME Typed, BoardReceives
  PROVE  Typed'
<1>. DEFINE message == Head(toBoard)
            received == Append(buffer, message.cmd)
            first == received[1]
            after == IF Understood(received) THEN Execute(first, board) ELSE board
            isStatus == Understood(received) /\ first.op = "STATUS"
<1>1. message \in Sent /\ toBoard' \in Seq(Sent)
  BY DEF Typed, WireOK, BoardReceives
<1>2. received \in Seq(Commands) /\ first \in Commands
  BY <1>1 DEF Sent, Typed, BoardOK
<1>3. after \in Boards
  BY <1>2, ExecuteTyped DEF Typed, BoardOK
<1>4. HostOK'
  BY DEF Typed, HostOK, BoardReceives
<1>5. CASE message.terminated
  <2>1. PICK kept \in Survivors(Lines(isStatus)) :
          /\ board' = after /\ buffer' = <<>>
          /\ obeyed' = IF Len(received) = 1 THEN [id |-> message.id, board |-> after] ELSE obeyed
          /\ toHost' = Append(toHost, [newline |-> TRUE, echo |-> message.cmd, lines |-> kept,
                                       board |-> after, ok |-> Understood(received), of |-> first])
    BY <1>5 DEF BoardReceives
  <2>2. kept \in SUBSET Lines(TRUE) /\ Understood(received) \in BOOLEAN
    BY SurvivorsTyped DEF Understood
  <2>3. [newline |-> TRUE, echo |-> message.cmd, lines |-> kept, board |-> after,
         ok |-> Understood(received), of |-> first] \in Reply
    BY <1>1, <1>2, <1>3, <2>2 DEF Reply, Sent
  <2>4. toHost' \in Seq(Reply \cup Echo)
    <3>. HIDE DEF message, received, first, after, isStatus
    <3>. QED  BY <2>1, <2>3 DEF Typed, WireOK
  <2>5. obeyed'.id \in 0 .. MaxExchanges
    <3>1. message.id \in 0 .. MaxExchanges
      BY <1>1 DEF Sent
    <3>2. obeyed.id \in 0 .. MaxExchanges
      BY DEF Typed, BoardOK
    <3>. HIDE DEF message, received, after
    <3>3. CASE Len(received) = 1
      BY <2>1, <3>1, <3>3
    <3>4. CASE Len(received) # 1
      BY <2>1, <3>2, <3>4
    <3>. QED  BY <3>3, <3>4
  <2>6. board' \in Boards /\ buffer' \in Seq(Commands)
    <3>. HIDE DEF after
    <3>. QED  BY <1>3, <2>1
  <2>. QED  BY <1>1, <1>4, <2>4, <2>5, <2>6 DEF Typed, BoardOK, WireOK
<1>6. CASE ~message.terminated
  <2>1. /\ buffer' = received /\ UNCHANGED <<board, obeyed>>
        /\ toHost' = Append(toHost, [newline |-> FALSE, echo |-> message.cmd])
    BY <1>6 DEF BoardReceives
  <2>2. [newline |-> FALSE, echo |-> message.cmd] \in Echo
    BY <1>1 DEF Echo, Sent
  <2>3. toHost' \in Seq(Reply \cup Echo)
    <3>. HIDE DEF message
    <3>. QED  BY <2>1, <2>2 DEF Typed, WireOK
  <2>. QED  BY <1>1, <1>2, <1>4, <2>1, <2>3 DEF Typed, BoardOK, WireOK
<1>. QED  BY <1>5, <1>6

LEMMA ReadTyped ==
  ASSUME Typed, ReadReply
  PROVE  Typed'
<1>. DEFINE reply == Head(toHost)
            line == Append(host.line, reply.echo)
            echoed == host.echoSeen \/ (<<"echo">> \in reply.lines /\ IsEcho(line, host.cmd))
            payload == IF echoed THEN Append(host.payload, reply) ELSE host.payload
            ended == echoed /\ <<"final">> \in reply.lines
<1>0. host \in Hosts
  BY DEF Typed, HostOK
<1>1. reply \in Reply \cup Echo /\ toHost' \in Seq(Reply \cup Echo)
  BY DEF Typed, WireOK, ReadReply
<1>2. line \in Seq(Commands)
  <2>1. reply.echo \in Commands
    <3>. HIDE DEF reply
    <3>. QED  BY <1>1 DEF Reply, Echo
  <2>2. host.line \in Seq(Commands)
    BY <1>0 DEF Hosts
  <2>. HIDE DEF reply
  <2>. QED  BY <2>1, <2>2
<1>3. ASSUME reply.newline
      PROVE  reply \in Reply /\ payload \in Seq(Reply)
  <2>1. reply \in Reply
    <3>. HIDE DEF reply
    <3>. QED  BY <1>1, <1>3 DEF Echo
  <2>2. host.payload \in Seq(Reply)
    BY <1>0 DEF Hosts
  <2>. HIDE DEF reply, echoed
  <2>3. payload \in Seq(Reply)
    BY <2>1, <2>2
  <2>. QED  BY <2>1, <2>3
<1>4. echoed \in BOOLEAN
  <2>1. host.echoSeen \in BOOLEAN
    BY <1>0 DEF Hosts
  <2>. QED  BY <2>1
<1>5. HostOK'
  <2>1. CASE ~reply.newline
    <3>1. host' = [host EXCEPT !.line = line] /\ UNCHANGED <<result, answer>>
      BY <2>1 DEF ReadReply
    <3>. HIDE DEF line
    <3>2. host' \in Hosts
      BY <1>0, <1>2, <3>1, HostChanges
    <3>. QED  BY <3>1, <3>2 DEF Typed, HostOK
  <2>2. CASE reply.newline /\ ~ended
    <3>1. host' = [host EXCEPT !.line = <<>>, !.echoSeen = echoed, !.payload = payload]
          /\ UNCHANGED <<result, answer>>
      BY <2>2 DEF ReadReply
    <3>2. payload \in Seq(Reply)
      BY <1>3, <2>2
    <3>. HIDE DEF echoed, payload
    <3>3. host' \in Hosts
      BY <1>0, <1>4, <3>1, <3>2, HostChanges
    <3>. QED  BY <3>1, <3>3 DEF Typed, HostOK
  <2>3. CASE reply.newline /\ ended
    <3>1. /\ host' = [host EXCEPT !.at = "idle", !.payload = <<>>]
          /\ result' = IF ~reply.ok THEN Failure
                       ELSE IF host.cmd.op # "STATUS" THEN [ok |-> TRUE]
                       ELSE [ok |-> TRUE, read |-> ParseStatus(payload)]
          /\ answer' = IF reply.ok THEN reply.of ELSE answer
      BY <2>3 DEF ReadReply
    <3>2. reply \in Reply
      BY <1>3, <2>3
    <3>. HIDE DEF reply, payload
    <3>3. reply.of \in Commands
      BY <3>2 DEF Reply
    <3>4. answer' \in Commands
      BY <3>1, <3>3 DEF Typed, HostOK
    <3>5. result'.ok \in BOOLEAN
      BY <3>1 DEF Failure
    <3>6. host' \in Hosts
      BY <1>0, <3>1, HostChanges
    <3>. QED  BY <3>4, <3>5, <3>6 DEF HostOK
  <2>4. ended \in BOOLEAN
    BY <1>4
  <2>5. reply.newline \in BOOLEAN
    <3>. HIDE DEF reply
    <3>. QED  BY <1>1 DEF Reply, Echo
  <2>. QED  BY <2>1, <2>2, <2>3, <2>4, <2>5
<1>. QED  BY <1>1, <1>5 DEF Typed, BoardOK, WireOK, ReadReply

LEMMA OtherTyped ==
  ASSUME Typed, Timeout \/ LoseCommand \/ BoardRestart
  PROVE  Typed'
<1>1. CASE Timeout
  BY <1>1, HostChanges DEF Timeout, Failure, Typed, HostOK, BoardOK, WireOK
<1>2. CASE LoseCommand
  BY <1>2 DEF LoseCommand, Typed, HostOK, BoardOK, WireOK
<1>3. CASE BoardRestart
  <2>1. PICK sent \in 0 .. Len(toHost) : toHost' = SubSeq(toHost, 1, sent)
    BY <1>3 DEF BoardRestart
  <2>2. toHost' \in Seq(Reply \cup Echo)
    BY <2>1 DEF Typed, WireOK
  <2>. QED  BY <1>3, <2>2, DefaultTyped DEF BoardRestart, Typed, HostOK, BoardOK, WireOK
<1>. QED  BY <1>1, <1>2, <1>3

LEMMA StepTyped == Typed /\ [Next]_vars => Typed'
<1>1. CASE UNCHANGED vars
  BY <1>1 DEF vars, Typed, HostOK, BoardOK, WireOK
<1>. QED  BY <1>1, SendTyped, ReceiveTyped, ReadTyped, OtherTyped DEF Next

LEMMA TypedMeansTypeOK == Typed => TypeOK
<1>. SUFFICES ASSUME Typed PROVE TypeOK
  OBVIOUS
<1>1. ASSUME NEW k \in DOMAIN toBoard PROVE toBoard[k].cmd \in Commands
  <2>1. toBoard[k] \in Sent
    BY DEF Typed, WireOK
  <2>. QED  BY <2>1 DEF Sent
<1>2. ASSUME NEW k \in DOMAIN toHost PROVE toHost[k].echo \in Commands
  <2>1. toHost[k] \in Reply \cup Echo
    BY DEF Typed, WireOK
  <2>. QED  BY <2>1 DEF Reply, Echo
<1>3. host.at \in {"idle", "waiting"} /\ host.id \in 0 .. MaxExchanges /\ host.cmd \in Commands
  BY DEF Typed, HostOK, Hosts
<1>. QED  BY <1>1, <1>2, <1>3 DEF Typed, HostOK, BoardOK, TypeOK, Boards

(* Every variable of the link keeps to its type, whatever the wire does:     *)
(* buffers hold whole commands, and no exchange has a number above the       *)
(* bound (BoardProtocol.h, command_parser.cpp).                              *)
THEOREM TypeCorrect == Spec => []TypeOK
<1>1. Spec => []Typed
  BY InitTyped, StepTyped, PTL DEF Spec
<1>. QED  BY <1>1, TypedMeansTypeOK, PTL

-----------------------------------------------------------------------------
(* Whose answer a success is *)

\* The wires on which a success is an answer to the same command: newlines
\* arrive, and either every line does or nothing comes late.
AnswersKeep == "terminator" \notin Noise /\ ("line" \notin Noise \/ ~Late)

\* Nothing is run together with anything.
Separate ==
  /\ buffer = <<>> /\ host.line = <<>>
  /\ \A k \in 1 .. Len(toBoard) : toBoard[k].terminated
  /\ \A k \in 1 .. Len(toHost) : toHost[k].newline /\ toHost[k].of = toHost[k].echo

\* Where nothing comes late: one message at most, and that of this exchange.
OneInFlight ==
  ~Late =>
    /\ host.at = "idle" => toBoard = <<>> /\ toHost = <<>>
    /\ Len(toBoard) + Len(toHost) <= 1
    /\ \A k \in 1 .. Len(toBoard) : toBoard[k].cmd = host.cmd
    /\ \A k \in 1 .. Len(toHost) : toHost[k].echo = host.cmd

\* Where every line arrives: the echo is never seen without the OK.
EchoBringsAnswer ==
  "line" \notin Noise =>
    /\ \A k \in 1 .. Len(toHost) : {<<"echo">>, <<"final">>} \subseteq toHost[k].lines
    /\ host.at = "waiting" => ~host.echoSeen

Inv == Typed /\ Separate /\ OneInFlight /\ EchoBringsAnswer /\ AnsweredBySameCommand

LEMMA InitInv == Init => Inv
<1>. SUFFICES ASSUME Init PROVE Inv
  OBVIOUS
<1>. QED
  BY InitTyped
  DEF Init, Inv, Separate, OneInFlight, EchoBringsAnswer, AnsweredBySameCommand, Exchange, Failure

LEMMA SendInv ==
  ASSUME AnswersKeep, Inv, NEW c \in Commands, SendCommand(c), UNCHANGED wire
  PROVE  Inv'
<1>. Noise' = Noise /\ Late' = Late
  BY DEF Noise, Late
<1>1. /\ host' = Exchange("waiting", host.id + 1, c)
      /\ toBoard' = Append(toBoard, [id |-> host.id + 1, cmd |-> c, terminated |-> TRUE])
      /\ buffer' = buffer /\ host.at = "idle"
  BY DEF SendCommand, AnswersKeep
<1>2. toBoard \in Seq(Sent) /\ toHost \in Seq(Reply \cup Echo)
  BY DEF Inv, Typed, WireOK
<1>3. PICK arrived \in 0 .. Len(toHost) : toHost' = SubSeq(toHost, arrived + 1, Len(toHost))
  BY DEF SendCommand
<1>4. /\ Len(toHost') = Len(toHost) - arrived
      /\ \A k \in 1 .. Len(toHost') : toHost'[k] = toHost[arrived + k] /\ arrived + k \in 1 .. Len(toHost)
  BY <1>2, <1>3
<1>5. /\ Len(toBoard') = Len(toBoard) + 1
      /\ \A k \in 1 .. Len(toBoard) : toBoard'[k] = toBoard[k]
      /\ toBoard'[Len(toBoard) + 1] = [id |-> host.id + 1, cmd |-> c, terminated |-> TRUE]
  BY <1>1, <1>2
<1>6. Separate'
  <2>1. buffer' = <<>> /\ host'.line = <<>>
    BY <1>1 DEF Inv, Separate, Exchange
  <2>2. \A k \in 1 .. Len(toBoard') : toBoard'[k].terminated
    BY <1>2, <1>5 DEF Inv, Separate
  <2>3. \A k \in 1 .. Len(toHost') : toHost'[k].newline /\ toHost'[k].of = toHost'[k].echo
    BY <1>4 DEF Inv, Separate
  <2>. QED  BY <2>1, <2>2, <2>3 DEF Separate
<1>7. OneInFlight'
  <2>. SUFFICES ASSUME ~Late PROVE OneInFlight'
    BY DEF OneInFlight
  <2>1. toBoard = <<>> /\ toHost = <<>>
    BY <1>1 DEF Inv, OneInFlight
  <2>2. Len(toBoard) = 0 /\ Len(toHost) = 0
    BY <2>1
  <2>. QED  BY <1>1, <1>4, <1>5, <2>2 DEF OneInFlight, Exchange
<1>8. EchoBringsAnswer'
  BY <1>1, <1>4 DEF Inv, EchoBringsAnswer, Exchange
<1>9. AnsweredBySameCommand'
  BY <1>1 DEF AnsweredBySameCommand, Exchange
<1>. QED  BY <1>6, <1>7, <1>8, <1>9, SendTyped DEF Inv

LEMMA WholeReplies ==
  ASSUME "line" \notin Noise, NEW isStatus \in BOOLEAN,
         NEW kept \in Survivors(Lines(isStatus))
  PROVE  {<<"echo">>, <<"final">>} \subseteq kept
<1>1. IsFiniteSet({"OUT"} \X Outputs) /\ IsFiniteSet({"IN"} \X Inputs)
  BY FS_Product, FS_Singleton, BoardLinkAssumption DEF BoardLinkAssumption
<1>2. IsFiniteSet({<<"Routing:">>, <<"Gains:">>}) /\ IsFiniteSet({<<"echo">>, <<"final">>})
  <2>1. \A x, y : IsFiniteSet({x, y})
    <3>. TAKE x, y
    <3>1. IsFiniteSet({x} \cup {y})
      BY FS_Singleton, FS_Union
    <3>. QED  BY <3>1
  <2>. QED  BY <2>1
<1>3. IsFiniteSet(Lines(isStatus))
  <2>1. IsFiniteSet({<<"Routing:">>, <<"Gains:">>} \cup ({"OUT"} \X Outputs) \cup ({"IN"} \X Inputs))
    BY <1>1, <1>2, FS_Union
  <2>2. IsFiniteSet({})
    BY FS_EmptySet
  <2>3. {<<"echo">>, <<"final">>} = {<<"echo">>} \cup {<<"final">>}
    OBVIOUS
  <2>. QED  BY <1>2, <2>1, <2>2, <2>3, FS_Union DEF Lines
<1>4. IsFiniteSet(Lines(isStatus) \ kept)
  BY <1>3, FS_Difference
<1>5. Cardinality(Lines(isStatus) \ kept) = 0
  BY <1>4, FS_CardinalityType DEF Survivors
<1>6. Lines(isStatus) \subseteq kept
  BY <1>4, <1>5, FS_EmptySet
<1>. QED  BY <1>6 DEF Lines

LEMMA ReceiveInv ==
  ASSUME AnswersKeep, Inv, BoardReceives, UNCHANGED wire
  PROVE  Inv'
<1>. Noise' = Noise /\ Late' = Late
  BY DEF Noise, Late
<1>. DEFINE message == Head(toBoard)
            received == Append(buffer, message.cmd)
            first == received[1]
            after == IF Understood(received) THEN Execute(first, board) ELSE board
            isStatus == Understood(received) /\ first.op = "STATUS"
<1>1. /\ toBoard \in Seq(Sent) /\ toHost \in Seq(Reply \cup Echo)
      /\ toBoard # <<>> /\ toBoard' = Tail(toBoard)
  BY DEF Inv, Typed, WireOK, BoardReceives
<1>2. message = toBoard[1] /\ 1 \in 1 .. Len(toBoard)
  BY <1>1
<1>3. message.terminated /\ received = <<message.cmd>> /\ first = message.cmd
  BY <1>2 DEF Inv, Separate
<1>4. PICK kept \in Survivors(Lines(isStatus)) :
        /\ buffer' = <<>> /\ host' = host /\ UNCHANGED <<result, answer>>
        /\ toHost' = Append(toHost, [newline |-> TRUE, echo |-> message.cmd, lines |-> kept,
                                     board |-> after, ok |-> Understood(received), of |-> first])
  BY <1>3 DEF BoardReceives
<1>5. "line" \notin Noise => {<<"echo">>, <<"final">>} \subseteq kept
  <2>1. isStatus \in BOOLEAN
    BY DEF Understood
  <2>. QED  BY <1>4, <2>1, WholeReplies
<1>6. /\ Len(toHost') = Len(toHost) + 1
      /\ \A k \in 1 .. Len(toHost) : toHost'[k] = toHost[k]
      /\ toHost'[Len(toHost) + 1] =
           [newline |-> TRUE, echo |-> message.cmd, lines |-> kept,
            board |-> after, ok |-> Understood(received), of |-> first]
  <2>. HIDE DEF message, received, first, after
  <2>. QED  BY <1>1, <1>4
<1>7. /\ Len(toBoard') = Len(toBoard) - 1
      /\ \A k \in 1 .. Len(toBoard') : toBoard'[k] = toBoard[k + 1] /\ k + 1 \in 1 .. Len(toBoard)
  BY <1>1
<1>. HIDE DEF message, received, first, after, isStatus
<1>8. Len(toBoard) \in Nat /\ Len(toHost) \in Nat
  BY <1>1
<1>9. Separate'
  BY <1>3, <1>4, <1>6, <1>7, <1>8 DEF Inv, Separate
<1>10. OneInFlight'
  <2>. SUFFICES ASSUME ~Late PROVE OneInFlight'
    BY DEF OneInFlight
  <2>1. host.at # "idle" /\ message.cmd = host.cmd
    BY <1>1, <1>2 DEF Inv, OneInFlight
  <2>. QED  BY <1>4, <1>6, <1>7, <1>8, <2>1 DEF Inv, OneInFlight
<1>11. EchoBringsAnswer'
  BY <1>4, <1>5, <1>6, <1>8 DEF Inv, EchoBringsAnswer
<1>12. AnsweredBySameCommand'
  BY <1>4 DEF Inv, AnsweredBySameCommand
<1>. QED  BY <1>9, <1>10, <1>11, <1>12, ReceiveTyped DEF Inv

LEMMA ReadInv ==
  ASSUME AnswersKeep, Inv, ReadReply, UNCHANGED wire
  PROVE  Inv'
<1>. Noise' = Noise /\ Late' = Late
  BY DEF Noise, Late
<1>. DEFINE reply == Head(toHost)
            line == Append(host.line, reply.echo)
            echoed == host.echoSeen \/ (<<"echo">> \in reply.lines /\ IsEcho(line, host.cmd))
            payload == IF echoed THEN Append(host.payload, reply) ELSE host.payload
            ended == echoed /\ <<"final">> \in reply.lines
<1>1. /\ toHost \in Seq(Reply \cup Echo) /\ toBoard \in Seq(Sent)
      /\ toHost # <<>> /\ toHost' = Tail(toHost) /\ host.at = "waiting"
      /\ UNCHANGED <<buffer, toBoard>>
  BY DEF Inv, Typed, WireOK, ReadReply
<1>2. reply = toHost[1] /\ 1 \in 1 .. Len(toHost)
  BY <1>1
<1>3. reply.newline /\ reply.of = reply.echo /\ line = <<reply.echo>>
  BY <1>2 DEF Inv, Separate
<1>4. /\ Len(toHost') = Len(toHost) - 1
      /\ \A k \in 1 .. Len(toHost') : toHost'[k] = toHost[k + 1] /\ k + 1 \in 1 .. Len(toHost)
  BY <1>1
<1>5. Len(toBoard) \in Nat /\ Len(toHost) \in Nat
  BY <1>1
<1>6. host \in Hosts
  BY DEF Inv, Typed, HostOK
<1>7. host.cmd = host'.cmd /\ host'.line = <<>>
  <2>1. \/ host' = [host EXCEPT !.line = <<>>, !.echoSeen = echoed, !.payload = payload]
        \/ host' = [host EXCEPT !.at = "idle", !.payload = <<>>]
    BY <1>3 DEF ReadReply
  <2>. HIDE DEF echoed, payload
  <2>. QED  BY <1>6, <2>1 DEF Hosts, Inv, Separate
<1>8. CASE ~ended
  <2>1. /\ host' = [host EXCEPT !.line = <<>>, !.echoSeen = echoed, !.payload = payload]
        /\ UNCHANGED <<result, answer>>
    BY <1>3, <1>8 DEF ReadReply
  <2>2. host'.at = "waiting" /\ host'.echoSeen = echoed
    <3>. HIDE DEF echoed, payload
    <3>. QED  BY <1>1, <1>6, <2>1 DEF Hosts
  <2>3. "line" \notin Noise => ~echoed
    BY <1>1, <1>2, <1>8 DEF Inv, EchoBringsAnswer
  <2>. HIDE DEF echoed, payload, reply, line
  <2>4. Separate'
    BY <1>1, <1>4, <1>7 DEF Inv, Separate
  <2>5. OneInFlight'
    BY <1>1, <1>4, <1>5, <1>7, <2>2 DEF Inv, OneInFlight
  <2>6. EchoBringsAnswer'
    BY <1>4, <2>2, <2>3 DEF Inv, EchoBringsAnswer
  <2>7. AnsweredBySameCommand'
    BY <2>2 DEF AnsweredBySameCommand
  <2>. QED  BY <2>4, <2>5, <2>6, <2>7, ReadTyped DEF Inv
<1>9. CASE ended
  <2>1. /\ host' = [host EXCEPT !.at = "idle", !.payload = <<>>]
        /\ ~reply.ok => result' = Failure
        /\ reply.ok => answer' = reply.of
    BY <1>3, <1>9 DEF ReadReply
  <2>2. host'.at = "idle"
    BY <1>6, <2>1 DEF Hosts
  <2>3. reply.echo = host.cmd
    <3>1. CASE ~Late
      BY <1>2, <3>1 DEF Inv, OneInFlight
    <3>2. CASE "line" \notin Noise
      <4>1. IsEcho(line, host.cmd)
        BY <1>1, <1>9, <3>2 DEF Inv, EchoBringsAnswer
      <4>. QED  BY <1>3, <4>1 DEF IsEcho
    <3>. QED  BY <3>1, <3>2 DEF AnswersKeep
  <2>. HIDE DEF reply, line, echoed
  <2>4. Separate'
    BY <1>1, <1>4, <1>7 DEF Inv, Separate
  <2>5. OneInFlight'
    <3>. SUFFICES ASSUME ~Late PROVE OneInFlight'
      BY DEF OneInFlight
    <3>0. Len(toBoard) + Len(toHost) <= 1
      BY DEF Inv, OneInFlight
    <3>1. Len(toHost) = 1 /\ Len(toBoard) = 0
      <4>1. \A m, n \in Nat : m + n <= 1 /\ 1 \in 1 .. n => n = 1 /\ m = 0
        OBVIOUS
      <4>. QED  BY <1>2, <1>5, <3>0, <4>1
    <3>2. toBoard' = <<>> /\ toHost' = <<>>
      BY <1>1, <3>1
    <3>. QED  BY <3>2 DEF OneInFlight
  <2>6. EchoBringsAnswer'
    BY <1>4, <2>2 DEF Inv, EchoBringsAnswer
  <2>7. AnsweredBySameCommand'
    <3>1. CASE reply.ok
      BY <1>3, <1>7, <2>1, <2>3, <3>1 DEF AnsweredBySameCommand
    <3>2. CASE ~reply.ok
      BY <2>1, <3>2 DEF AnsweredBySameCommand, Failure
    <3>. QED  BY <3>1, <3>2
  <2>. QED  BY <2>4, <2>5, <2>6, <2>7, ReadTyped DEF Inv
<1>. QED  BY <1>8, <1>9

LEMMA OtherInv ==
  ASSUME AnswersKeep, Inv, Timeout \/ LoseCommand \/ BoardRestart, UNCHANGED wire
  PROVE  Inv'
<1>. Noise' = Noise /\ Late' = Late
  BY DEF Noise, Late
<1>1. /\ toBoard \in Seq(Sent) /\ toHost \in Seq(Reply \cup Echo)
      /\ host \in Hosts /\ Typed'
  BY OtherTyped DEF Inv, Typed, HostOK, WireOK
<1>2. Len(toBoard) \in Nat /\ Len(toHost) \in Nat
  BY <1>1
<1>3. CASE Timeout
  <2>1. /\ host' = [host EXCEPT !.at = "idle"] /\ result' = Failure
        /\ UNCHANGED <<buffer, toBoard, toHost>>
        /\ ~Late => toBoard = <<>> /\ toHost = <<>>
    BY <1>3 DEF Timeout
  <2>2. host'.at = "idle" /\ host'.line = host.line /\ host'.cmd = host.cmd
    BY <1>1, <2>1 DEF Hosts
  <2>. QED
    BY <1>1, <2>1, <2>2
    DEF Inv, Separate, OneInFlight, EchoBringsAnswer, AnsweredBySameCommand, Failure
<1>4. CASE LoseCommand
  <2>1. /\ toBoard # <<>> /\ toBoard' = Tail(toBoard)
        /\ UNCHANGED <<buffer, toHost, host, result, answer>>
    BY <1>4 DEF LoseCommand
  <2>2. /\ Len(toBoard') = Len(toBoard) - 1
        /\ \A k \in 1 .. Len(toBoard') : toBoard'[k] = toBoard[k + 1] /\ k + 1 \in 1 .. Len(toBoard)
    BY <1>1, <2>1
  <2>3. Separate' /\ EchoBringsAnswer' /\ AnsweredBySameCommand'
    BY <2>1, <2>2 DEF Inv, Separate, EchoBringsAnswer, AnsweredBySameCommand
  <2>4. OneInFlight'
    BY <1>2, <2>1, <2>2 DEF Inv, OneInFlight
  <2>. QED  BY <1>1, <2>3, <2>4 DEF Inv
<1>5. CASE BoardRestart
  <2>1. PICK sent \in 0 .. Len(toHost) :
          /\ toHost' = SubSeq(toHost, 1, sent) /\ toBoard' = <<>> /\ buffer' = <<>>
          /\ UNCHANGED <<host, result, answer>>
    BY <1>5 DEF BoardRestart
  <2>2. /\ Len(toHost') = sent /\ Len(toBoard') = 0
        /\ \A k \in 1 .. Len(toHost') : toHost'[k] = toHost[k] /\ k \in 1 .. Len(toHost)
    BY <1>1, <2>1
  <2>3. Separate' /\ EchoBringsAnswer' /\ AnsweredBySameCommand'
    BY <2>1, <2>2 DEF Inv, Separate, EchoBringsAnswer, AnsweredBySameCommand
  <2>4. OneInFlight'
    <3>1. toHost = <<>> => toHost' = <<>>
      BY <1>1, <2>1
    <3>. QED  BY <1>2, <2>1, <2>2, <3>1 DEF Inv, OneInFlight
  <2>. QED  BY <1>1, <2>3, <2>4 DEF Inv
<1>. QED  BY <1>3, <1>4, <1>5

AnswersInv == AnswersKeep => Inv

LEMMA StepInv == AnswersInv /\ [Next]_vars => AnswersInv'
<1>. SUFFICES ASSUME AnswersInv, [Next]_vars, AnswersKeep' PROVE Inv'
  BY DEF AnswersInv
<1>1. UNCHANGED wire
  BY DEF Next, vars
<1>2. Noise' = Noise /\ Late' = Late
  BY <1>1 DEF Noise, Late
<1>3. AnswersKeep /\ Inv
  BY <1>2 DEF AnswersKeep, AnswersInv
<1>4. CASE UNCHANGED vars
  BY <1>2, <1>3, <1>4, StepTyped
  DEF vars, Inv, Separate, OneInFlight, EchoBringsAnswer, AnsweredBySameCommand
<1>. QED  BY <1>1, <1>3, <1>4, SendInv, ReceiveInv, ReadInv, OtherInv DEF Next

(* A call succeeds only on the OK the board gave to a command that reads the *)
(* same, on any wire that delivers newlines and does not lose lines of       *)
(* replies that also come late ("lines before the echo are left over from    *)
(* earlier commands and are skipped", BoardProtocol.h:17).                   *)
THEOREM SameCommandAlwaysAnswers == Spec => []SameCommandAnswers
<1>1. Init => AnswersInv
  BY InitInv DEF AnswersInv
<1>2. AnswersInv => SameCommandAnswers
  BY DEF AnswersInv, AnswersKeep, Inv, SameCommandAnswers
<1>. QED  BY <1>1, <1>2, StepInv, PTL DEF Spec

-----------------------------------------------------------------------------
(* What a STATUS reads of one reply *)

\* The first and the last of at most one.
LEMMA OnlyOne ==
  ASSUME NEW I \in SUBSET {1}, I # {}
  PROVE  Min(I) = 1 /\ Max(I) = 1
<1>1. I = {1}
  OBVIOUS
<1>. QED  BY <1>1 DEF Min, Max

LEMMA SectionOfOne ==
  ASSUME NEW r, NEW s \in {<<>>, <<r>>}, NEW h
  PROVE  From(s, h) \in {<<>>, <<r>>} /\ UpTo(s, h) \in {<<>>, <<r>>}
<1>. DEFINE I == {i \in 1 .. Len(s) : h \in s[i].lines}
            k == IF I # {} THEN Min(I) ELSE 0
<1>1. Len(s) \in {0, 1} /\ 1 .. Len(s) \in SUBSET {1} /\ (Len(s) = 1 => s = <<r>>)
  OBVIOUS
<1>2. k \in {0, 1} /\ (k = 1 => s = <<r>>)
  <2>1. I \in SUBSET {1} /\ (I # {} => s = <<r>>)
    BY <1>1
  <2>. HIDE DEF I
  <2>. QED  BY <2>1, OnlyOne
<1>3. /\ From(s, h) = IF k = 0 THEN <<>> ELSE SubSeq(s, k, Len(s))
      /\ UpTo(s, h) = IF k = 0 THEN s ELSE SubSeq(s, 1, k)
  BY DEF From, UpTo, SelectInSeq
<1>. HIDE DEF k
<1>4. CASE k = 0
  BY <1>3, <1>4
<1>5. CASE k = 1
  <2>1. SubSeq(<<r>>, 1, 1) = <<r>>
    <3>. DEFINE one == <<r>>
    <3>1. one \in Seq({r}) /\ Len(one) = 1 /\ one[1] = r
      OBVIOUS
    <3>. HIDE DEF one
    <3>2. /\ SubSeq(one, 1, 1) \in Seq({r}) /\ Len(SubSeq(one, 1, 1)) = 1
          /\ SubSeq(one, 1, 1)[1] = one[1]
      BY <3>1
    <3>3. \A a, b \in Seq({r}) : Len(a) = 1 /\ Len(b) = 1 /\ a[1] = b[1] => a = b
      OBVIOUS
    <3>4. SubSeq(one, 1, 1) = one
      BY <3>1, <3>2, <3>3
    <3>. QED  BY <3>4 DEF one
  <2>. QED  BY <1>2, <1>3, <1>5, <2>1
<1>. QED  BY <1>2, <1>4, <1>5

\* It reads what the board of that reply had, or nothing.
LEMMA ParseOne ==
  ASSUME NEW r \in Reply
  PROVE  ParseStatus(<<r>>) \in Calls!Readings(r.board)
<1>. DEFINE gains == From(<<r>>, <<"Gains:">>)
            routes == UpTo(From(<<r>>, <<"Routing:">>), <<"Gains:">>)
            InAt(i) == {k \in 1 .. Len(gains) : <<"IN", i>> \in gains[k].lines}
            OutAt(o) == {k \in 1 .. Len(routes) : <<"OUT", o>> \in routes[k].lines}
            gain(i) == LET k == IF InAt(i) # {} THEN Max(InAt(i)) ELSE 0
                       IN  IF k = 0 THEN Unread ELSE gains[k].board.gain[i]
            route(o) == LET k == IF OutAt(o) # {} THEN Max(OutAt(o)) ELSE 0
                        IN  IF k = 0 THEN Unread ELSE routes[k].board.route[o]
<1>1. ParseStatus(<<r>>) = [gain |-> [i \in Inputs |-> gain(i)], route |-> [o \in Outputs |-> route(o)]]
  BY DEF ParseStatus, LastValue, SelectLastInSeq
<1>2. gains \in {<<>>, <<r>>} /\ routes \in {<<>>, <<r>>}
  BY SectionOfOne
<1>. HIDE DEF gains, routes
<1>3. \A s \in {<<>>, <<r>>} : 1 .. Len(s) \in SUBSET {1} /\ (1 .. Len(s) # {} => s = <<r>>)
  <2>1. Len(<<>>) = 0 /\ Len(<<r>>) = 1
    OBVIOUS
  <2>2. 1 .. 0 = {} /\ 1 .. 1 = {1}
    OBVIOUS
  <2>. QED  BY <2>1, <2>2
<1>4. \A i \in Inputs : gain(i) \in {r.board.gain[i], Unread}
  <2>. TAKE i \in Inputs
  <2>1. InAt(i) \in SUBSET {1} /\ (InAt(i) # {} => gains = <<r>>)
    BY <1>2, <1>3
  <2>. HIDE DEF InAt
  <2>2. InAt(i) # {} => Max(InAt(i)) = 1
    BY <2>1, OnlyOne
  <2>. QED  BY <2>1, <2>2
<1>5. \A o \in Outputs : route(o) \in {r.board.route[o], Unread}
  <2>. TAKE o \in Outputs
  <2>1. OutAt(o) \in SUBSET {1} /\ (OutAt(o) # {} => routes = <<r>>)
    BY <1>2, <1>3
  <2>. HIDE DEF OutAt
  <2>2. OutAt(o) # {} => Max(OutAt(o)) = 1
    BY <2>1, OnlyOne
  <2>. QED  BY <2>1, <2>2
<1>. HIDE DEF gain, route
<1>6. r.board \in Boards
  BY DEF Reply
<1>7. /\ \A i \in Inputs : gain(i) \in Gains \cup {Unread}
      /\ \A o \in Outputs : route(o) \in Routes \cup {Unread}
  BY <1>4, <1>5, <1>6 DEF Boards
<1>. QED  BY <1>1, <1>4, <1>5, <1>7 DEF Calls!Readings

-----------------------------------------------------------------------------
(* One message at a time *)

\* Where nothing comes late, one message is on its way or none, and it is of
\* this exchange: the board has not obeyed before it gets there, and what it
\* then sends tells its state and is all that will come.
Once ==
  /\ Len(toBoard) + Len(toHost) <= 1
  /\ host.at = "idle" => toBoard = <<>> /\ toHost = <<>>
  /\ toBoard # <<>> \/ toHost # <<>> => ~host.echoSeen /\ host.payload = <<>>
  /\ obeyed.id <= host.id
  /\ \A k \in 1 .. Len(toBoard) :
       toBoard[k].id = host.id /\ toBoard[k].cmd = host.cmd /\ obeyed.id < host.id
  /\ "terminator" \notin Noise =>
       /\ buffer = <<>>
       /\ \A k \in 1 .. Len(toBoard) : toBoard[k].terminated
       /\ \A k \in 1 .. Len(toHost) :
            /\ toHost[k].newline /\ toHost[k].ok
            /\ toHost[k].board = obeyed.board /\ obeyed.id = host.id
  /\ "restart" \notin Noise =>
       /\ \A k \in 1 .. Len(toHost) : toHost[k].newline => toHost[k].board = board
       /\ StatusIsTruthful

LEMMA OneOfTwo == \A m, n \in Nat : m + n <= 1 /\ m # 0 => m = 1 /\ n = 0
OBVIOUS

LEMMA InitOnce == Init => Once
BY DEF Init, Once, Exchange, Failure, StatusIsTruthful

LEMMA SendOnce ==
  ASSUME ~Late, Typed, Once, NEW c \in Commands, SendCommand(c), UNCHANGED wire
  PROVE  Once'
<1>. Noise' = Noise /\ Late' = Late
  BY DEF Noise, Late
<1>1. /\ host.at = "idle" /\ host' = Exchange("waiting", host.id + 1, c)
      /\ UNCHANGED <<board, buffer, result, obeyed>>
  BY DEF SendCommand
<1>2. toBoard = <<>> /\ toHost = <<>>
  BY <1>1 DEF Once
<1>3. PICK terminated \in BOOLEAN :
        /\ toBoard' = Append(toBoard, [id |-> host.id + 1, cmd |-> c, terminated |-> terminated])
        /\ "terminator" \notin Noise => terminated
  BY DEF SendCommand
<1>4. /\ Len(toBoard') = 1
      /\ toBoard'[1] = [id |-> host.id + 1, cmd |-> c, terminated |-> terminated]
  BY <1>2, <1>3
<1>5. toHost' = <<>>
  BY <1>2 DEF SendCommand
<1>6. /\ host'.at = "waiting" /\ host'.id = host.id + 1
      /\ host'.cmd = c /\ ~host'.echoSeen /\ host'.payload = <<>>
  BY <1>1 DEF Exchange
<1>7. host.id \in Nat /\ obeyed.id \in Nat /\ obeyed.id <= host.id
  BY BoardLinkAssumption DEF Typed, HostOK, BoardOK, Hosts, Once, BoardLinkAssumption
<1>8. StatusIsTruthful'
  BY <1>6 DEF StatusIsTruthful
<1>. QED  BY <1>1, <1>3, <1>4, <1>5, <1>6, <1>7, <1>8 DEF Once

LEMMA ReceiveOnce ==
  ASSUME ~Late, Typed, Once, BoardReceives, UNCHANGED wire
  PROVE  /\ Once' /\ host' = host /\ result' = result /\ host.at = "waiting"
         /\ obeyed.id < host.id
         /\ "terminator" \notin Noise =>
              /\ board' = Execute(host.cmd, board)
              /\ obeyed' = [id |-> host.id, board |-> board']
<1>. Noise' = Noise /\ Late' = Late
  BY DEF Noise, Late
<1>. DEFINE message == Head(toBoard)
            received == Append(buffer, message.cmd)
            first == received[1]
            after == IF Understood(received) THEN Execute(first, board) ELSE board
            isStatus == Understood(received) /\ first.op = "STATUS"
<1>1. /\ toBoard \in Seq(Sent) /\ toHost \in Seq(Reply \cup Echo) /\ buffer \in Seq(Commands)
      /\ toBoard # <<>> /\ toBoard' = Tail(toBoard) /\ host \in Hosts
      /\ UNCHANGED <<host, result>>
  BY DEF Typed, WireOK, BoardOK, HostOK, BoardReceives
<1>2. Len(toBoard) = 1 /\ toHost = <<>> /\ message = toBoard[1] /\ toBoard' = <<>>
  <2>1. Len(toBoard) \in Nat /\ Len(toHost) \in Nat /\ Len(toBoard) # 0
    BY <1>1
  <2>2. Len(toBoard) = 1 /\ Len(toHost) = 0
    <3>1. Len(toBoard) + Len(toHost) <= 1
      BY DEF Once
    <3>. QED  BY <2>1, <3>1, OneOfTwo
  <2>. QED  BY <1>1, <2>2
<1>3. /\ host.at = "waiting" /\ ~host.echoSeen /\ host.payload = <<>>
      /\ message.id = host.id /\ message.cmd = host.cmd /\ obeyed.id < host.id
  <2>1. host.at # "idle" /\ 1 \in 1 .. Len(toBoard)
    BY <1>1, <1>2 DEF Once
  <2>. QED  BY <1>1, <1>2, <2>1 DEF Once, Hosts
<1>4. host.id \in Nat /\ obeyed.id \in Nat
  BY BoardLinkAssumption DEF Typed, HostOK, BoardOK, Hosts, BoardLinkAssumption
<1>5. "terminator" \notin Noise => message.terminated /\ received = <<message.cmd>> /\ first = message.cmd
  BY <1>2 DEF Once
<1>6. CASE message.terminated
  <2>1. PICK kept \in Survivors(Lines(isStatus)) :
          /\ board' = after /\ buffer' = <<>>
          /\ obeyed' = IF Len(received) = 1 THEN [id |-> message.id, board |-> after] ELSE obeyed
          /\ toHost' = Append(toHost, [newline |-> TRUE, echo |-> message.cmd, lines |-> kept,
                                       board |-> after, ok |-> Understood(received), of |-> first])
    BY <1>6 DEF BoardReceives
  <2>2. "terminator" \notin Noise =>
          /\ Understood(received) /\ board' = Execute(message.cmd, board)
          /\ obeyed' = [id |-> host.id, board |-> board']
    BY <1>3, <1>5, <2>1 DEF Understood
  <2>3. obeyed'.id <= host.id
    <3>. HIDE DEF received, message, after
    <3>. QED  BY <1>3, <1>4, <2>1
  <2>4. /\ Len(toHost') = 1 /\ toHost'[1].newline /\ toHost'[1].board = board'
        /\ toHost'[1].ok = Understood(received)
    <3>. HIDE DEF received, message, after, first
    <3>. QED  BY <1>2, <2>1
  <2>5. StatusIsTruthful'
    BY <1>1, <1>3 DEF StatusIsTruthful
  <2>. HIDE DEF received, message, after, first
  <2>6. Once'
    <3>1. /\ Len(toBoard') + Len(toHost') <= 1 /\ toBoard' = <<>> /\ Len(toBoard') = 0
          /\ buffer' = <<>> /\ host' = host
      <4>1. Len(<<>>) = 0 /\ 0 + 1 <= 1
        OBVIOUS
      <4>. QED  BY <1>1, <1>2, <2>1, <2>4, <4>1
    <3>2. "terminator" \notin Noise =>
            /\ toHost'[1].newline /\ toHost'[1].ok
            /\ toHost'[1].board = obeyed'.board /\ obeyed'.id = host'.id
      BY <2>2, <2>4, <3>1
    <3>. QED  BY <1>3, <2>3, <2>4, <2>5, <3>1, <3>2 DEF Once
  <2>. QED  BY <1>1, <1>3, <2>2, <2>6
<1>7. CASE ~message.terminated
  <2>1. /\ UNCHANGED <<board, obeyed>> /\ "terminator" \in Noise
        /\ toHost' = Append(toHost, [newline |-> FALSE, echo |-> message.cmd])
    BY <1>5, <1>7 DEF BoardReceives
  <2>2. Len(toHost') = 1 /\ ~toHost'[1].newline
    <3>. HIDE DEF message
    <3>. QED  BY <1>2, <2>1
  <2>3. StatusIsTruthful'
    BY <1>1, <1>3 DEF StatusIsTruthful
  <2>. HIDE DEF message
  <2>4. Once'
    <3>1. Len(toBoard') + Len(toHost') <= 1 /\ obeyed'.id <= host'.id /\ toBoard' = <<>>
      <4>1. Len(<<>>) = 0 /\ 0 + 1 <= 1
        OBVIOUS
      <4>2. host' = host /\ obeyed' = obeyed
        BY <1>1, <2>1
      <4>3. obeyed.id <= host.id
        BY <1>3, <1>4
      <4>. QED  BY <1>2, <2>2, <4>1, <4>2, <4>3
    <3>2. \A k \in 1 .. Len(toHost') : ~toHost'[k].newline
      BY <2>2
    <3>. QED  BY <1>1, <1>3, <2>1, <2>3, <3>1, <3>2 DEF Once
  <2>. QED  BY <1>1, <1>3, <2>1, <2>4
<1>. QED  BY <1>6, <1>7

\* What the server reads is the only message there is.
LEMMA ReadOnce ==
  ASSUME ~Late, Typed, Once, ReadReply, UNCHANGED wire
  PROVE  /\ Once' /\ UNCHANGED <<board, obeyed>> /\ host.at = "waiting"
         /\ host'.id = host.id /\ host'.cmd = host.cmd
         /\ \/ host'.at = "waiting" /\ result' = result
            \/ /\ host'.at = "idle"
               /\ "terminator" \notin Noise =>
                    /\ obeyed.id = host.id
                    /\ \E read \in Calls!Readings(obeyed.board) :
                         result' = IF host.cmd.op = "STATUS" THEN [ok |-> TRUE, read |-> read]
                                   ELSE [ok |-> TRUE]
<1>. Noise' = Noise /\ Late' = Late
  BY DEF Noise, Late
<1>. DEFINE reply == Head(toHost)
            line == Append(host.line, reply.echo)
            echoed == host.echoSeen \/ (<<"echo">> \in reply.lines /\ IsEcho(line, host.cmd))
            payload == IF echoed THEN Append(host.payload, reply) ELSE host.payload
            ended == echoed /\ <<"final">> \in reply.lines
<1>1. /\ toBoard \in Seq(Sent) /\ toHost \in Seq(Reply \cup Echo) /\ host \in Hosts
      /\ toHost # <<>> /\ toHost' = Tail(toHost) /\ host.at = "waiting"
      /\ UNCHANGED <<board, buffer, toBoard, obeyed>>
  BY DEF Typed, WireOK, HostOK, ReadReply
<1>2. Len(toHost) = 1 /\ toBoard = <<>> /\ reply = toHost[1] /\ toHost' = <<>>
  <2>1. Len(toBoard) \in Nat /\ Len(toHost) \in Nat /\ Len(toHost) # 0
    BY <1>1
  <2>2. Len(toHost) = 1 /\ Len(toBoard) = 0
    <3>1. Len(toHost) + Len(toBoard) <= 1
      BY <2>1 DEF Once
    <3>. QED  BY <2>1, <3>1, OneOfTwo
  <2>. QED  BY <1>1, <2>2
<1>3. /\ ~host.echoSeen /\ host.payload = <<>> /\ reply \in Reply \cup Echo
      /\ "terminator" \notin Noise =>
           reply.newline /\ reply.ok /\ reply.board = obeyed.board /\ obeyed.id = host.id
      /\ "restart" \notin Noise => (reply.newline => reply.board = board)
  BY <1>1, <1>2 DEF Once
<1>4. host'.id = host.id /\ host'.cmd = host.cmd
  <2>1. \/ host' = [host EXCEPT !.line = line]
        \/ host' = [host EXCEPT !.line = <<>>, !.echoSeen = echoed, !.payload = payload]
        \/ host' = [host EXCEPT !.at = "idle", !.payload = <<>>]
    BY DEF ReadReply
  <2>. HIDE DEF line, echoed, payload
  <2>. QED  BY <1>1, <2>1 DEF Hosts
<1>5. ASSUME StatusIsTruthful'
      PROVE  Once'
  <2>1. obeyed.id <= host.id
    BY DEF Once
  <2>2. toBoard' = <<>> /\ buffer' = buffer /\ obeyed' = obeyed /\ Len(<<>>) = 0
    BY <1>1, <1>2
  <2>. HIDE DEF reply
  <2>. QED  BY <1>2, <1>4, <1>5, <2>1, <2>2 DEF Once
<1>6. CASE ~(reply.newline /\ ended)
  <2>1. /\ \/ host' = [host EXCEPT !.line = line]
           \/ host' = [host EXCEPT !.line = <<>>, !.echoSeen = echoed, !.payload = payload]
        /\ result' = result
    BY <1>6 DEF ReadReply
  <2>2. host'.at = "waiting"
    <3>. HIDE DEF line, echoed, payload
    <3>. QED  BY <1>1, <2>1 DEF Hosts
  <2>3. StatusIsTruthful'
    BY <2>2 DEF StatusIsTruthful
  <2>. QED  BY <1>1, <1>4, <1>5, <2>1, <2>2, <2>3
<1>7. CASE reply.newline /\ ended
  <2>1. /\ host' = [host EXCEPT !.at = "idle", !.payload = <<>>]
        /\ result' = IF ~reply.ok THEN Failure
                     ELSE IF host.cmd.op # "STATUS" THEN [ok |-> TRUE]
                     ELSE [ok |-> TRUE, read |-> ParseStatus(payload)]
    BY <1>7 DEF ReadReply
  <2>2. host'.at = "idle"
    BY <1>1, <2>1 DEF Hosts
  <2>3. reply \in Reply
    <3>. HIDE DEF reply
    <3>. QED  BY <1>3, <1>7 DEF Echo
  <2>4. payload = <<reply>>
    BY <1>3, <1>7
  <2>5. ParseStatus(payload) \in Calls!Readings(reply.board)
    BY <2>3, <2>4, ParseOne
  <2>. HIDE DEF reply, payload, echoed
  <2>6. "restart" \notin Noise => StatusIsTruthful'
    <3>. SUFFICES ASSUME "restart" \notin Noise, result'.ok, host'.cmd.op = "STATUS"
                  PROVE  /\ \A i \in Inputs : result'.read.gain[i] \in {board'.gain[i], Unread}
                         /\ \A o \in Outputs : result'.read.route[o] \in {board'.route[o], Unread}
      BY DEF StatusIsTruthful
    <3>1. reply.ok /\ host.cmd.op = "STATUS"
      BY <1>4, <2>1 DEF Failure
    <3>2. result'.read = ParseStatus(payload) /\ reply.board = board'
      BY <1>1, <1>3, <1>7, <2>1, <3>1
    <3>. QED  BY <2>5, <3>2 DEF Calls!Readings
  <2>7. Once'
    <3>1. obeyed.id <= host.id
      BY DEF Once
    <3>2. toBoard' = <<>> /\ buffer' = buffer /\ obeyed' = obeyed /\ Len(<<>>) = 0
      BY <1>1, <1>2
    <3>. QED  BY <1>2, <1>4, <2>6, <3>1, <3>2 DEF Once
  <2>8. ASSUME "terminator" \notin Noise
        PROVE  /\ obeyed.id = host.id
               /\ \E read \in Calls!Readings(obeyed.board) :
                    result' = IF host.cmd.op = "STATUS" THEN [ok |-> TRUE, read |-> read]
                              ELSE [ok |-> TRUE]
    <3>1. reply.ok /\ reply.board = obeyed.board /\ obeyed.id = host.id
      BY <1>3, <2>8
    <3>2. result' = IF host.cmd.op = "STATUS" THEN [ok |-> TRUE, read |-> ParseStatus(payload)]
                    ELSE [ok |-> TRUE]
      BY <2>1, <3>1
    <3>. QED  BY <2>5, <3>1, <3>2
  <2>. QED  BY <1>1, <1>4, <2>2, <2>7, <2>8
<1>. QED  BY <1>6, <1>7

LEMMA OtherOnce ==
  ASSUME ~Late, Typed, Once, Timeout \/ LoseCommand \/ BoardRestart, UNCHANGED wire
  PROVE  Once'
<1>. Noise' = Noise /\ Late' = Late
  BY DEF Noise, Late
<1>1. /\ toBoard \in Seq(Sent) /\ toHost \in Seq(Reply \cup Echo) /\ host \in Hosts
  BY DEF Typed, WireOK, HostOK
<1>2. Len(toBoard) \in Nat /\ Len(toHost) \in Nat
  BY <1>1
<1>3. CASE Timeout
  <2>1. /\ host' = [host EXCEPT !.at = "idle"] /\ result' = Failure
        /\ UNCHANGED <<board, buffer, toBoard, toHost, obeyed>>
        /\ toBoard = <<>> /\ toHost = <<>>
    BY <1>3 DEF Timeout
  <2>2. host'.id = host.id
    BY <1>1, <2>1 DEF Hosts
  <2>3. StatusIsTruthful'
    BY <2>1 DEF StatusIsTruthful, Failure
  <2>. QED  BY <2>1, <2>2, <2>3 DEF Once
<1>4. CASE LoseCommand
  <2>1. /\ toBoard # <<>> /\ toBoard' = Tail(toBoard)
        /\ UNCHANGED <<board, buffer, toHost, host, result, obeyed>>
    BY <1>4 DEF LoseCommand
  <2>2. Len(toBoard) = 1 /\ toBoard' = <<>>
    <3>1. Len(toBoard) = 1
      <4>1. Len(toBoard) # 0 /\ Len(toBoard) + Len(toHost) <= 1
        BY <1>1, <2>1 DEF Once
      <4>. QED  BY <1>2, <4>1, OneOfTwo
    <3>. QED  BY <1>1, <2>1, <3>1
  <2>3. StatusIsTruthful' = StatusIsTruthful
    BY <2>1 DEF StatusIsTruthful
  <2>. QED  BY <1>2, <2>1, <2>2, <2>3 DEF Once
<1>5. CASE BoardRestart
  <2>1. PICK sent \in 0 .. Len(toHost) :
          /\ toHost' = SubSeq(toHost, 1, sent) /\ toBoard' = <<>> /\ buffer' = <<>>
          /\ UNCHANGED <<host, result, obeyed>> /\ "restart" \in Noise
    BY <1>5 DEF BoardRestart
  <2>2. /\ Len(toHost') = sent /\ sent <= Len(toHost) /\ Len(toHost) <= 1
        /\ \A k \in 1 .. Len(toHost') : toHost'[k] = toHost[k] /\ k \in 1 .. Len(toHost)
        /\ toHost = <<>> => toHost' = <<>>
    BY <1>1, <1>2, <2>1 DEF Once
  <2>. QED  BY <1>2, <2>1, <2>2 DEF Once
<1>. QED  BY <1>3, <1>4, <1>5

OnceInv == Typed /\ (~Late => Once)

LEMMA StepOnce == OnceInv /\ [Next]_vars => OnceInv'
<1>. SUFFICES ASSUME OnceInv, [Next]_vars, ~Late' PROVE Once'
  BY StepTyped DEF OnceInv
<1>1. UNCHANGED wire
  BY DEF Next, vars
<1>2. Noise' = Noise /\ Late' = Late
  BY <1>1 DEF Noise, Late
<1>3. ~Late /\ Typed /\ Once
  BY <1>2 DEF OnceInv
<1>4. CASE UNCHANGED vars
  <2>1. StatusIsTruthful' = StatusIsTruthful
    BY <1>4 DEF vars, StatusIsTruthful
  <2>. QED  BY <1>2, <1>3, <1>4, <2>1 DEF vars, Once
<1>. QED  BY <1>1, <1>3, <1>4, SendOnce, ReceiveOnce, ReadOnce, OtherOnce DEF Next

LEMMA AlwaysOnce == Spec => []OnceInv
<1>1. Init => OnceInv
  BY InitTyped, InitOnce DEF OnceInv
<1>. QED  BY <1>1, StepOnce, PTL DEF Spec

(* Where nothing comes late and the board does not restart, a STATUS never   *)
(* gives a gain or a route the board does not have, whatever commands the    *)
(* wire has run together before it and however many of its lines are missing *)
(* (parseGainStatus, parseRoutingStatus).                                    *)
THEOREM StatusAlwaysTruthful == Spec => []MergedStatusIsTruthful
<1>1. OnceInv => MergedStatusIsTruthful
  BY DEF OnceInv, Once, MergedStatusIsTruthful
<1>. QED  BY <1>1, AlwaysOnce, PTL

-----------------------------------------------------------------------------
(* The promise of BoardCalls *)

\* The call in progress, as the callers of the link know it.
InCall == IF host.at = "idle" THEN [at |-> "idle"]
          ELSE IF obeyed.id = host.id
          THEN [at |-> "obeyed", cmd |-> host.cmd, board |-> obeyed.board]
          ELSE [at |-> "asked", cmd |-> host.cmd]

LEMMA InitMaps == Init => Calls!Init
BY DEF Init, Calls!Init, Calls!NoCall, Calls!Failure, Exchange, Failure

LEMMA SendMaps ==
  ASSUME ~Late, Typed, Once, NEW c \in Commands, SendCommand(c)
  PROVE  Calls!Begin(c)
<1>1. /\ host.at = "idle" /\ host' = Exchange("waiting", host.id + 1, c)
      /\ UNCHANGED <<board, result, obeyed>>
  BY DEF SendCommand
<1>2. host'.at = "waiting" /\ host'.id = host.id + 1 /\ host'.cmd = c
  BY <1>1 DEF Exchange
<1>3. host.id \in Nat /\ obeyed.id \in Nat /\ obeyed.id <= host.id
  BY BoardLinkAssumption DEF Typed, HostOK, BoardOK, Hosts, Once, BoardLinkAssumption
<1>4. obeyed'.id # host'.id
  BY <1>1, <1>2, <1>3
<1>5. InCall = [at |-> "idle"] /\ InCall' = [at |-> "asked", cmd |-> c]
  BY <1>1, <1>2, <1>4 DEF InCall
<1>. QED  BY <1>1, <1>5 DEF InCall, Calls!Begin, Calls!NoCall

LEMMA ReceiveMaps ==
  ASSUME ~Late, "terminator" \notin Noise, Typed, Once, BoardReceives, UNCHANGED wire
  PROVE  Calls!Obey
<1>1. /\ host' = host /\ result' = result /\ host.at = "waiting" /\ obeyed.id < host.id
      /\ board' = Execute(host.cmd, board) /\ obeyed' = [id |-> host.id, board |-> board']
  BY ReceiveOnce
<1>2. obeyed.id # host.id
  BY <1>1, BoardLinkAssumption DEF Typed, HostOK, BoardOK, Hosts, BoardLinkAssumption
<1>3. /\ InCall = [at |-> "asked", cmd |-> host.cmd]
      /\ InCall' = [at |-> "obeyed", cmd |-> host.cmd, board |-> board']
  BY <1>1, <1>2 DEF InCall
<1>4. board' = Calls!Apply(host.cmd, board)
  BY <1>1 DEF Execute, Calls!Apply
<1>. QED  BY <1>1, <1>3, <1>4 DEF InCall, Calls!Obey

LEMMA ReadMaps ==
  ASSUME ~Late, "terminator" \notin Noise, Typed, Once, ReadReply, UNCHANGED wire
  PROVE  [Calls!Next]_(Calls!vars)
<1>1. /\ UNCHANGED <<board, obeyed>> /\ host.at = "waiting"
      /\ host'.id = host.id /\ host'.cmd = host.cmd
      /\ \/ host'.at = "waiting" /\ result' = result
         \/ /\ host'.at = "idle" /\ obeyed.id = host.id
            /\ \E read \in Calls!Readings(obeyed.board) :
                 result' = IF host.cmd.op = "STATUS" THEN [ok |-> TRUE, read |-> read]
                           ELSE [ok |-> TRUE]
  BY ReadOnce
<1>2. CASE host'.at = "waiting" /\ result' = result
  <2>1. InCall' = InCall
    BY <1>1, <1>2 DEF InCall
  <2>. QED  BY <1>1, <1>2, <2>1 DEF InCall, Calls!vars
<1>3. CASE host'.at = "idle"
  <2>1. PICK read \in Calls!Readings(obeyed.board) :
          result' = IF host.cmd.op = "STATUS" THEN [ok |-> TRUE, read |-> read] ELSE [ok |-> TRUE]
    BY <1>1, <1>3
  <2>2. /\ InCall = [at |-> "obeyed", cmd |-> host.cmd, board |-> obeyed.board]
        /\ InCall' = [at |-> "idle"]
    BY <1>1, <1>3 DEF InCall
  <2>3. Calls!Succeed
    BY <1>1, <2>1, <2>2 DEF InCall, Calls!Succeed, Calls!NoCall
  <2>. QED  BY <2>3 DEF Calls!Next
<1>. QED  BY <1>1, <1>2, <1>3

LEMMA OtherMaps ==
  ASSUME ~Late, Typed, Once, Timeout \/ LoseCommand \/ BoardRestart
  PROVE  [Calls!Next]_(Calls!vars)
<1>1. CASE Timeout
  <2>1. /\ host.at = "waiting" /\ result' = Failure /\ UNCHANGED <<board, obeyed>>
        /\ host' = [host EXCEPT !.at = "idle"] /\ host \in Hosts
    BY <1>1 DEF Timeout, Typed, HostOK
  <2>2. InCall' = [at |-> "idle"] /\ InCall.at # "idle"
    BY <2>1 DEF InCall, Hosts
  <2>3. Calls!Fail
    BY <2>1, <2>2 DEF InCall, Calls!Fail, Calls!NoCall, Calls!Failure, Failure
  <2>. QED  BY <2>3 DEF Calls!Next
<1>2. CASE LoseCommand
  BY <1>2 DEF LoseCommand, Calls!vars
<1>3. CASE BoardRestart
  <2>1. board' = DefaultBoard /\ UNCHANGED <<host, result, obeyed>>
    BY <1>3 DEF BoardRestart
  <2>2. Calls!Restart
    BY <2>1 DEF Calls!Restart
  <2>. QED  BY <2>2 DEF Calls!Next
<1>. QED  BY <1>1, <1>2, <1>3

(* The link keeps the promise its callers count on (_sendCommand,            *)
(* IElectronicBoard): on a wire that delivers newlines and nothing late,     *)
(* whatever commands and lines it loses and however often the board          *)
(* restarts, a call that succeeds was obeyed during the call, a STATUS reads *)
(* what the board held then, and nothing of a call outlives it.              *)
THEOREM LinkKeepsCalls == Spec => PromptLinkImplementsCalls
<1>1. Init => (Prompt => Calls!Init)
  BY InitMaps
<1>2. OnceInv /\ [Next]_vars => (Prompt => [Calls!Next]_(Calls!vars))
  <2>. SUFFICES ASSUME OnceInv, [Next]_vars, Prompt PROVE [Calls!Next]_(Calls!vars)
    OBVIOUS
  <2>. ~Late /\ "terminator" \notin Noise /\ Typed /\ Once
    BY DEF OnceInv, Prompt
  <2>1. CASE UNCHANGED vars
    BY <2>1 DEF vars, Calls!vars
  <2>2. ASSUME NEW c \in Commands, SendCommand(c) PROVE Calls!Next
    BY <2>2, SendMaps DEF Calls!Next
  <2>3. CASE BoardReceives
    <3>1. UNCHANGED wire
      BY <2>3 DEF Next, vars
    <3>. QED  BY <2>3, <3>1, ReceiveMaps DEF Calls!Next
  <2>. QED  BY <2>1, <2>2, <2>3, ReadMaps, OtherMaps DEF Next
<1>. QED  BY <1>1, <1>2, AlwaysOnce, PTL DEF Spec, PromptLinkImplementsCalls

=============================================================================
