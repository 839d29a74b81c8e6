-------------------------- MODULE TcpServer_proofs --------------------------
(***************************************************************************)
(* Proofs about the TCP server, for any number of clients, any backlog, any *)
(* length of a sweep and all the ways clients may go.                       *)
(***************************************************************************)
EXTENDS TcpServer, TLAPS

Places == {"none", "init", "running", "clear", "accept", "read", "dispatch",
           "check", "measure", "aborted", "reply"}

Connected == {"in", "half", "left", "vanished"}
Stages == Connected \cup {"out", "queued", "queuedLeft", "queuedVanished", "closed"}
Controls == {"idle", "starting", "watching", "stopping", "joined", "stopped", "aborted"}

\* Commands of a client.
Of(c) == [kind : Kinds, from : {c}]

-----------------------------------------------------------------------------
(* The inductive invariant, in parts. *)

Typed ==
  /\ flags \in [running : BOOLEAN, shouldStop : BOOLEAN, listening : BOOLEAN,
                joinable : BOOLEAN]
  /\ thread \in [at : Places, point : 0 .. Points, late : {0, 1}]
  /\ slot \in Clients \cup {Nobody}
  /\ cmd \in [kind : Kinds, from : Clients] \cup {NoCmd}
  /\ control \in Controls
  /\ peers \in [Clients -> Stages]
  /\ socket \in [Clients -> Seq([kind : Kinds, from : Clients])]
  /\ sent \in [Clients -> Nat]

\* Who is connected is in the slot, and who is in the slot is connected.
OneClient ==
  \A c \in Clients : peers[c] \in Connected <=> c = slot

\* What was read, and what is on its way, is from who sent it.
FromItsClient ==
  /\ \A c \in Clients : socket[c] \in Seq(Of(c))
  /\ slot # Nobody => lines \in Seq(Of(slot))
  /\ slot # Nobody /\ cmd # NoCmd => cmd \in Of(slot)

\* Outside of a connection the thread has no client and no command.
Unoccupied ==
  thread.at \in {"none", "init", "running", "clear", "accept"} => slot = Nobody /\ cmd = NoCmd

\* The main loop runs while m_running says so, or stop() has returned.
LoopRuns ==
  thread.at \notin {"none", "init", "running"} => flags.running \/ control = "stopped"

\* A sweep that is late by a point finds out before the next one.
LateIsSeen ==
  /\ thread.at \in {"dispatch", "measure"} => thread.late = 0
  /\ thread.at = "measure" => thread.point < Points
  /\ thread.at = "check" /\ thread.late = 1 => flags.shouldStop \/ Peer \in {"left", "closed"}

Inv == Typed /\ OneClient /\ FromItsClient /\ Unoccupied /\ LoopRuns /\ LateIsSeen

LEMMA InitInv == Init => Inv
<1>. SUFFICES ASSUME Init PROVE Inv
  OBVIOUS
<1>1. Typed
  BY ServerAssumption DEF Init, Typed, ServerAssumption, Places, Stages, Connected, Controls
<1>2. OneClient
  BY ServerAssumption DEF Init, OneClient, Connected, ServerAssumption
<1>3. FromItsClient
  BY DEF Init, FromItsClient
<1>. QED  BY <1>1, <1>2, <1>3 DEF Init, Inv, Unoccupied, LoopRuns, LateIsSeen

-----------------------------------------------------------------------------
(* The thread that starts and stops the server. *)

LEMMA StartInv == Inv /\ Start => Inv'
<1>. SUFFICES ASSUME Inv, Start PROVE Inv'
  OBVIOUS
<1>1. UNCHANGED <<slot, lines, cmd, peers, socket, sent>>
  BY DEF Start, clientVars
<1>2. CASE flags.joinable
  BY <1>1, <1>2 DEF Start, Inv, Typed, Controls, OneClient, FromItsClient, Unoccupied,
     LoopRuns, LateIsSeen, Peer
<1>3. CASE ~flags.joinable
  <2>1. slot = Nobody /\ cmd = NoCmd
    BY <1>3 DEF Start, Inv, LoopRuns, Unoccupied
  <2>2. Typed'
    BY <1>1, <1>3 DEF Start, Go, Inv, Typed, Controls, Places
  <2>3. thread'.at = "init"
    BY <1>3 DEF Start, Go, Inv, Typed
  <2>. QED  BY <1>1, <2>1, <2>2, <2>3 DEF Inv, OneClient, FromItsClient, Unoccupied,
       LoopRuns, LateIsSeen
<1>. QED  BY <1>2, <1>3

LEMMA StopInv == Inv /\ (Started \/ Stop \/ Join) => Inv'
<1>. SUFFICES ASSUME Inv, Started \/ Stop \/ Join PROVE Inv'
  OBVIOUS
<1>1. /\ UNCHANGED <<thread, slot, lines, cmd, peers, socket, sent>>
      /\ control # "stopped" /\ control' \in Controls
      /\ flags' \in [running : BOOLEAN, shouldStop : BOOLEAN, listening : BOOLEAN,
                     joinable : BOOLEAN]
      /\ flags'.running = flags.running /\ (flags.shouldStop => flags'.shouldStop)
  BY DEF Started, Stop, Join, serverVars, clientVars, Inv, Typed, Controls
<1>. QED  BY <1>1 DEF Inv, Typed, OneClient, FromItsClient, Unoccupied, LoopRuns,
     LateIsSeen, Peer

LEMMA StopReturnsInv == Inv /\ StopReturns => Inv'
<1>. SUFFICES ASSUME Inv, StopReturns PROVE Inv'
  OBVIOUS
<1>1. /\ UNCHANGED <<thread, lines, cmd, socket, sent>>
      /\ slot' = Nobody /\ control' = "stopped"
      /\ peers' = [c \in Clients |-> IF peers[c] = "queued" \/ c = slot THEN "closed"
                                     ELSE peers[c]]
      /\ flags' = [flags EXCEPT !.running = FALSE, !.listening = FALSE]
  BY DEF StopReturns
<1>2. Typed'
  BY <1>1 DEF Inv, Typed, Stages, Controls
<1>3. OneClient'
  BY <1>1, ServerAssumption DEF Inv, Typed, OneClient, Connected, ServerAssumption
<1>. QED  BY <1>1, <1>2, <1>3 DEF Inv, FromItsClient, Unoccupied, LoopRuns, LateIsSeen, Peer

-----------------------------------------------------------------------------
(* The server thread: start-up and the main loop. *)

LEMMA StartUpInv == Inv /\ ((\E ok \in BOOLEAN : Listen(ok)) \/ MarkRunning \/ ClearStop) => Inv'
<1>. SUFFICES ASSUME Inv, (\E ok \in BOOLEAN : Listen(ok)) \/ MarkRunning \/ ClearStop
              PROVE  Inv'
  OBVIOUS
<1>1. /\ UNCHANGED <<slot, lines, cmd, control, peers, socket, sent>>
      /\ thread.at \in {"init", "running", "clear"}
      /\ \E place \in {"none", "running", "clear", "accept"} :
           thread' = [thread EXCEPT !.at = place]
      /\ flags' \in [running : BOOLEAN, shouldStop : BOOLEAN, listening : BOOLEAN,
                     joinable : BOOLEAN]
      /\ thread'.at \in {"clear", "accept"} => flags'.running \/ control = "stopped"
  BY DEF Listen, MarkRunning, ClearStop, At, Go, clientVars, Inv, Typed, LoopRuns
<1>2. Typed' /\ thread'.at \in {"none", "running", "clear", "accept"}
  BY <1>1 DEF Inv, Typed, Places
<1>. QED  BY <1>1, <1>2 DEF Inv, OneClient, FromItsClient, Unoccupied, LoopRuns, LateIsSeen

LEMMA ShutInv == Inv /\ Shut => Inv'
<1>. SUFFICES ASSUME Inv, Shut PROVE Inv'
  OBVIOUS
<1>1. /\ UNCHANGED <<slot, lines, cmd, control, socket, sent>>
      /\ thread.at = "accept" /\ thread' = [thread EXCEPT !.at = "none"]
      /\ flags' = [flags EXCEPT !.running = FALSE, !.listening = FALSE]
      /\ peers' = [c \in Clients |-> IF peers[c] = "queued" THEN "closed" ELSE peers[c]]
  BY DEF Shut, At, Go
<1>2. Typed' /\ thread'.at = "none"
  BY <1>1 DEF Inv, Typed, Places, Stages
<1>3. OneClient'
  BY <1>1 DEF Inv, Typed, OneClient, Connected
<1>. QED  BY <1>1, <1>2, <1>3 DEF Inv, FromItsClient, Unoccupied, LoopRuns, LateIsSeen

LEMMA AcceptInv == ASSUME NEW c \in Clients PROVE Inv /\ Accept(c) => Inv'
<1>. SUFFICES ASSUME Inv, Accept(c) PROVE Inv'
  OBVIOUS
<1>1. /\ UNCHANGED <<flags, cmd, control, socket, sent>>
      /\ thread.at = "accept" /\ thread' = [thread EXCEPT !.at = "read"]
      /\ slot = Nobody /\ slot' = c /\ lines' = <<>>
      /\ peers[c] \in {"queued", "queuedLeft", "queuedVanished"}
      /\ \E stage \in Connected : peers' = [peers EXCEPT ![c] = stage]
  BY DEF Accept, At, Go, Waiting, Connected, Inv, Unoccupied
<1>2. Typed' /\ thread'.at = "read"
  <2>1. peers' \in [Clients -> Stages]
    BY <1>1 DEF Inv, Typed, Stages
  <2>2. thread' \in [at : Places, point : 0 .. Points, late : {0, 1}] /\ thread'.at = "read"
    BY <1>1 DEF Inv, Typed, Places
  <2>. QED  BY <1>1, <2>1, <2>2 DEF Inv, Typed
<1>3. OneClient'
  BY <1>1, ServerAssumption DEF Inv, Typed, OneClient, Connected, ServerAssumption
<1>4. FromItsClient'
  BY <1>1 DEF Inv, FromItsClient, Unoccupied
<1>5. LoopRuns'
  BY <1>1 DEF Inv, LoopRuns
<1>. QED  BY <1>1, <1>2, <1>3, <1>4, <1>5 DEF Inv, Unoccupied, LateIsSeen

\* The end of a connection, on any path.
LEMMA CloseInv ==
  ASSUME Inv, CloseClient, UNCHANGED <<lines, control, socket, sent>>,
         flags' \in [running : BOOLEAN, shouldStop : BOOLEAN, listening : BOOLEAN,
                     joinable : BOOLEAN],
         flags'.running = flags.running,
         thread.at \notin {"none", "init", "running"}
  PROVE  Inv'
<1>1. /\ slot' = Nobody /\ cmd' = NoCmd /\ thread' = [thread EXCEPT !.at = "accept"]
      /\ peers' = [c \in Clients |-> IF c = slot THEN "closed" ELSE peers[c]]
  BY DEF CloseClient, Go
<1>2. Typed' /\ thread'.at = "accept"
  BY <1>1 DEF Inv, Typed, Places, Stages
<1>3. OneClient'
  BY <1>1, ServerAssumption DEF Inv, Typed, OneClient, Connected, ServerAssumption
<1>4. LoopRuns'
  BY <1>1 DEF Inv, LoopRuns
<1>. QED  BY <1>1, <1>2, <1>3, <1>4 DEF Inv, FromItsClient, Unoccupied, LateIsSeen

-----------------------------------------------------------------------------
(* The client in the slot. *)

LEMMA EndsInv == Inv /\ (StopServing \/ EndOfClient \/ IdleTimeout) => Inv'
BY CloseInv DEF StopServing, EndOfClient, IdleTimeout, At, Inv, Typed

LEMMA ReadLineInv == Inv /\ ReadLine => Inv'
<1>. SUFFICES ASSUME Inv, ReadLine PROVE Inv'
  OBVIOUS
<1>. DEFINE got == IF lines = <<>> THEN Incoming ELSE lines
<1>1. /\ UNCHANGED <<flags, slot, control, peers, sent>>
      /\ thread.at = "read" /\ slot \in Clients /\ slot # Nobody
      /\ got # <<>> /\ cmd' = Head(got) /\ lines' = Tail(got)
      /\ socket' = IF lines = <<>> THEN [socket EXCEPT ![slot] = <<>>] ELSE socket
      /\ thread' = [at |-> "dispatch", point |-> 0, late |-> 0]
  BY DEF ReadLine, At, Inv, Typed
<1>2. got \in Seq(Of(slot))
  BY <1>1 DEF Incoming, Inv, FromItsClient
<1>3. cmd' \in Of(slot) /\ lines' \in Seq(Of(slot))
  <2>. HIDE DEF got
  <2>. QED  BY <1>1, <1>2
<1>4. Typed'
  <2>1. cmd' \in [kind : Kinds, from : Clients]
    BY <1>1, <1>3 DEF Of
  <2>2. socket' \in [Clients -> Seq([kind : Kinds, from : Clients])]
    <3>1. socket' = socket \/ socket' = [socket EXCEPT ![slot] = <<>>]
      BY <1>1
    <3>2. <<>> \in Seq([kind : Kinds, from : Clients])
      OBVIOUS
    <3>3. socket \in [Clients -> Seq([kind : Kinds, from : Clients])]
      BY DEF Inv, Typed
    <3>. HIDE DEF got
    <3>. QED  BY <3>1, <3>2, <3>3
  <2>3. thread' \in [at : Places, point : 0 .. Points, late : {0, 1}]
    BY <1>1, ServerAssumption DEF Places, ServerAssumption
  <2>. QED  BY <1>1, <2>1, <2>2, <2>3 DEF Inv, Typed
<1>5. FromItsClient'
  BY <1>1, <1>3 DEF Inv, Typed, FromItsClient
<1>6. LoopRuns'
  BY <1>1 DEF Inv, LoopRuns
<1>. QED  BY <1>1, <1>4, <1>5, <1>6 DEF Inv, OneClient, Unoccupied, LateIsSeen

LEMMA DispatchInv == Inv /\ Dispatch => Inv'
<1>. SUFFICES ASSUME Inv, Dispatch PROVE Inv'
  OBVIOUS
<1>1. thread.at = "dispatch" /\ UNCHANGED <<lines, control, socket, sent>>
  BY DEF Dispatch, At
<1>2. CASE cmd.kind = "shutdown"
  BY <1>1, <1>2, CloseInv DEF Dispatch, Inv, Typed
<1>3. CASE cmd.kind # "shutdown"
  <2>1. /\ UNCHANGED <<flags, slot, cmd, peers>>
        /\ \E place \in {"check", "reply"} : thread' = [thread EXCEPT !.at = place]
    BY <1>3 DEF Dispatch, Go
  <2>2. Typed' /\ thread'.at \in {"check", "reply"} /\ thread'.late = 0
    BY <1>1, <2>1 DEF Inv, Typed, Places, LateIsSeen
  <2>. QED  BY <1>1, <2>1, <2>2 DEF Inv, OneClient, FromItsClient, Unoccupied, LoopRuns,
       LateIsSeen
<1>. QED  BY <1>2, <1>3

LEMMA SweepInv == Inv /\ (CheckCancel \/ CancelByKeepalive \/ Measure) => Inv'
<1>. SUFFICES ASSUME Inv, CheckCancel \/ CancelByKeepalive \/ Measure PROVE Inv'
  OBVIOUS
<1>1. UNCHANGED <<flags, slot, lines, cmd, control, peers, socket, sent>>
  BY DEF CheckCancel, CancelByKeepalive, Measure, clientVars
<1>2. CASE CheckCancel \/ CancelByKeepalive
  <2>1. /\ thread.at = "check"
        /\ \E place \in {"reply", "aborted", "measure"} :
             /\ thread' = [thread EXCEPT !.at = place]
             /\ place = "measure" => thread.point # Points /\ ~Cancelled
    BY <1>2 DEF CheckCancel, CancelByKeepalive, At, Go
  <2>2. /\ Typed' /\ thread'.at \in {"reply", "aborted", "measure"}
        /\ thread'.at = "measure" => thread'.point < Points /\ thread'.late = 0
    <3>1. Typed' /\ thread'.at \in {"reply", "aborted", "measure"}
      BY <1>1, <2>1 DEF Inv, Typed, Places
    <3>2. /\ thread'.point = thread.point /\ thread'.late = thread.late
          /\ thread.point \in 0 .. Points /\ thread.late \in {0, 1}
      BY <2>1 DEF Inv, Typed
    <3>3. thread'.at = "measure" => thread.point # Points /\ ~Cancelled
      BY <2>1 DEF Inv, Typed
    <3>4. ~Cancelled => thread.late = 0
      BY <2>1, <3>2 DEF Inv, LateIsSeen, Cancelled
    <3>. QED  BY <3>1, <3>2, <3>3, <3>4, ServerAssumption DEF ServerAssumption
  <2>. QED  BY <1>1, <2>1, <2>2 DEF Inv, OneClient, FromItsClient, Unoccupied, LoopRuns,
       LateIsSeen
<1>3. CASE Measure
  <2>1. /\ thread.at = "measure" /\ thread.late = 0 /\ thread.point < Points
        /\ thread' = [at |-> "check", point |-> thread.point + 1,
                      late |-> IF flags.shouldStop \/ Peer = "left" THEN 1 ELSE 0]
    BY <1>3 DEF Measure, At, Inv, Typed, LateIsSeen
  <2>2. Typed'
    <3>1. thread.point + 1 \in 0 .. Points
      BY <2>1, ServerAssumption DEF Inv, Typed, ServerAssumption
    <3>2. thread' \in [at : Places, point : 0 .. Points, late : {0, 1}]
      BY <2>1, <3>1 DEF Places
    <3>. QED  BY <1>1, <3>2 DEF Inv, Typed
  <2>3. LateIsSeen'
    BY <1>1, <2>1 DEF LateIsSeen, Peer
  <2>. QED  BY <1>1, <2>1, <2>2, <2>3 DEF Inv, OneClient, FromItsClient, Unoccupied, LoopRuns
<1>. QED  BY <1>2, <1>3

LEMMA ReplyInv == ASSUME NEW ok \in BOOLEAN PROVE Inv /\ Reply(ok) => Inv'
<1>. SUFFICES ASSUME Inv, Reply(ok) PROVE Inv'
  OBVIOUS
<1>1. thread.at \in {"reply", "aborted"} /\ UNCHANGED <<flags, lines, control, socket, sent>>
  BY DEF Reply
<1>2. CASE ~ok
  BY <1>1, <1>2, CloseInv DEF Reply, Inv, Typed
<1>3. CASE ok
  <2>1. /\ cmd' = NoCmd /\ UNCHANGED <<slot, peers>>
        /\ thread' = [thread EXCEPT !.at = "read"]
    BY <1>3 DEF Reply, Go
  <2>2. Typed' /\ thread'.at = "read"
    BY <1>1, <2>1 DEF Inv, Typed, Places
  <2>. QED  BY <1>1, <2>1, <2>2 DEF Inv, OneClient, FromItsClient, Unoccupied, LoopRuns,
       LateIsSeen
<1>. QED  BY <1>2, <1>3

LEMMA ServerInv == Inv /\ Server => Inv'
BY StartUpInv, ShutInv, AcceptInv, EndsInv, ReadLineInv, DispatchInv, SweepInv, ReplyInv
DEF Server

-----------------------------------------------------------------------------
(* The clients. *)

LEMMA ClientInv == ASSUME NEW c \in Clients PROVE Inv /\ Client(c) => Inv'
<1>. SUFFICES ASSUME Inv, Client(c) PROVE Inv'
  OBVIOUS
<1>1. UNCHANGED <<flags, thread, slot, lines, cmd, control>>
  BY DEF Client, Connect, Leave, HalfClose, Vanish, Send, serverVars
<1>2. ASSUME NEW kind \in Kinds, Send(c, kind) PROVE Inv'
  <2>1. /\ sent' = [sent EXCEPT ![c] = @ + 1] /\ UNCHANGED peers
        /\ socket' = [socket EXCEPT ![c] = Append(@, [kind |-> kind, from |-> c])]
    BY <1>2 DEF Send
  <2>2. [kind |-> kind, from |-> c] \in Of(c)
    BY <1>2 DEF Of
  <2>3. Append(socket[c], [kind |-> kind, from |-> c]) \in Seq(Of(c))
    BY <2>2 DEF Inv, FromItsClient
  <2>4. Append(socket[c], [kind |-> kind, from |-> c]) \in Seq([kind : Kinds, from : Clients])
    <3>1. socket[c] \in Seq([kind : Kinds, from : Clients])
      BY DEF Inv, Typed
    <3>2. [kind |-> kind, from |-> c] \in [kind : Kinds, from : Clients]
      OBVIOUS
    <3>. QED  BY <3>1, <3>2
  <2>5. Typed'
    <3>1. sent' \in [Clients -> Nat]
      BY <2>1 DEF Inv, Typed
    <3>2. socket' \in [Clients -> Seq([kind : Kinds, from : Clients])]
      BY <2>1, <2>4 DEF Inv, Typed
    <3>. QED  BY <1>1, <2>1, <3>1, <3>2 DEF Inv, Typed
  <2>6. FromItsClient'
    BY <1>1, <2>1, <2>3 DEF Inv, Typed, FromItsClient
  <2>. QED  BY <1>1, <2>1, <2>5, <2>6 DEF Inv, OneClient, Unoccupied, LoopRuns, LateIsSeen, Peer
<1>3. CASE Connect(c) \/ Leave(c) \/ HalfClose(c) \/ Vanish(c)
  <2>1. /\ UNCHANGED <<socket, sent>>
        /\ \E stage \in Stages :
             /\ peers' = [peers EXCEPT ![c] = stage]
             /\ peers[c] \in Connected <=> stage \in Connected
             /\ peers[c] \in {"left", "closed"} => stage = peers[c]
    BY <1>3 DEF Connect, Leave, HalfClose, Vanish, Stages, Connected
  <2>2. Typed' /\ OneClient'
    BY <1>1, <2>1 DEF Inv, Typed, OneClient
  <2>3. flags.shouldStop \/ Peer \in {"left", "closed"}
          => (flags.shouldStop \/ Peer \in {"left", "closed"})'
    BY <1>1, <2>1 DEF Inv, Typed, Peer
  <2>. QED  BY <1>1, <2>1, <2>2, <2>3 DEF Inv, FromItsClient, Unoccupied, LoopRuns, LateIsSeen
<1>. QED  BY <1>2, <1>3 DEF Client

LEMMA StepInv == Inv /\ [Next]_vars => Inv'
<1>. SUFFICES ASSUME Inv, [Next]_vars PROVE Inv'
  OBVIOUS
<1>1. CASE UNCHANGED vars
  BY <1>1 DEF vars, Inv, Typed, OneClient, FromItsClient, Unoccupied, LoopRuns, LateIsSeen, Peer
<1>2. CASE Controller
  BY <1>2, StartInv, StopInv, StopReturnsInv DEF Controller
<1>3. CASE Server
  BY <1>3, ServerInv
<1>4. CASE \E c \in Clients : Client(c)
  BY <1>4, ClientInv
<1>. QED  BY <1>1, <1>2, <1>3, <1>4 DEF Next

\* The type invariant, with a client in the slot exactly when one is connected.
THEOREM TypeCorrect == Spec => []TypeOK
<1>1. Inv => TypeOK
  <2>. SUFFICES ASSUME Inv PROVE TypeOK
    OBVIOUS
  <2>1. slot # Nobody => peers[slot] \in Connected
    BY DEF Inv, Typed, OneClient
  <2>2. Peer \in {"in", "half", "left", "vanished", "closed"}
    BY <2>1 DEF Peer, Connected
  <2>3. thread.late \in 0 .. Points /\ thread.point \in 0 .. Points
    BY ServerAssumption DEF Inv, Typed, ServerAssumption
  <2>. QED  BY <2>2, <2>3 DEF Inv, Typed, TypeOK, OneClient, Connected, Places, Controls, NoCmd
<1>. QED  BY <1>1, InitInv, StepInv, PTL DEF Spec

\* However clients connect, pipeline, leave, half-close and vanish: a command
\* is run for who sent it, and a sweep whose client has closed, or whose server
\* stops, ends before its next point but one.
THEOREM ServesOnlyItsClient == Spec => []ServesItsClient
<1>1. Inv => ServesItsClient
  BY DEF Inv, Typed, FromItsClient, Of, ServesItsClient, CommandsAreTheClients, SweepStopsInTime
<1>. QED  BY <1>1, InitInv, StepInv, PTL DEF Spec

-----------------------------------------------------------------------------
(* A server started with startAsync() has a thread to join from the start   *)
(* until stop() has joined it; without one, nothing of it runs.             *)

Joinable ==
  /\ flags.joinable <=> control \in {"starting", "watching", "stopping", "aborted"}
  /\ ~flags.joinable => thread.at = "none"
  /\ control = "stopped" => slot = Nobody /\ ~flags.listening

LEMMA InitJoinable == Init => Joinable
BY DEF Init, Joinable

LEMMA StepJoinable ==
  ASSUME ~Blocking, Inv, Joinable, [Next]_vars
  PROVE  Joinable'
<1>1. CASE UNCHANGED vars
  BY <1>1 DEF vars, Joinable
<1>2. CASE Start
  BY <1>2 DEF Start, Go, Joinable, Inv, Typed
<1>3. CASE Started \/ Stop \/ Join
  BY <1>3 DEF Started, Stop, Join, serverVars, clientVars, Joinable, Inv, Typed
<1>4. CASE StopReturns
  BY <1>4 DEF StopReturns, Joinable, Inv, Typed
<1>5. CASE Server
  <2>1. thread.at # "none" /\ UNCHANGED control
    BY <1>5 DEF Server, Listen, Reply, MarkRunning, ClearStop, Shut, Accept, StopServing,
       ReadLine, EndOfClient, IdleTimeout, Dispatch, CheckCancel, CancelByKeepalive,
       Measure, At
  <2>2. flags.joinable /\ control # "stopped"
    BY <2>1 DEF Joinable
  <2>3. flags'.joinable
    <3>1. \/ UNCHANGED flags
          \/ \E b, d \in BOOLEAN : flags' = [flags EXCEPT !.running = b, !.listening = d]
          \/ \E b \in BOOLEAN : flags' = [flags EXCEPT !.shouldStop = b]
          \/ \E b \in BOOLEAN : flags' = [flags EXCEPT !.listening = b]
          \/ \E b \in BOOLEAN : flags' = [flags EXCEPT !.running = b]
      BY <1>5 DEF Server, Listen, Reply, MarkRunning, ClearStop, Shut, Accept, StopServing,
         ReadLine, EndOfClient, IdleTimeout, Dispatch, CheckCancel, CancelByKeepalive,
         Measure
    <3>. QED  BY <2>2, <3>1 DEF Inv, Typed
  <2>. QED  BY <2>1, <2>2, <2>3 DEF Joinable
<1>6. ASSUME NEW c \in Clients, Client(c) PROVE Joinable'
  BY <1>6 DEF Client, Connect, Leave, HalfClose, Vanish, Send, serverVars, Joinable
<1>. QED  BY <1>1, <1>2, <1>3, <1>4, <1>5, <1>6 DEF Next, Controller

\* When the stop() of a server started with startAsync() has returned, no
\* thread of it runs, and no socket of it is open.
THEOREM StoppedIsEnded == ~Blocking => (Spec => []StoppedMeansEnded)
<1>. SUFFICES ASSUME ~Blocking PROVE Spec => []StoppedMeansEnded
  OBVIOUS
<1>1. Inv /\ Joinable => StoppedMeansEnded
  BY DEF Joinable, StoppedMeansEnded
<1>2. Inv /\ Joinable /\ [Next]_vars => (Inv /\ Joinable)'
  BY StepInv, StepJoinable
<1>. QED  BY <1>1, <1>2, InitInv, InitJoinable, PTL DEF Spec
=============================================================================
