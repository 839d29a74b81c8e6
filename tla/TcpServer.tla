----------------------------- MODULE TcpServer ------------------------------
(***************************************************************************)
(* The TCP server: its thread, which serves one client at a time from a     *)
(* backlog, the command in progress and its cancellation, and the thread    *)
(* that starts and stops it.                                                *)
(*                                                                          *)
(* Clients are external: they connect, send lines without waiting for the   *)
(* answers if they like, give up, close their sending side only, or vanish  *)
(* without a word.  What a command does is CommandHandler's; here it is a   *)
(* query, a measurement that runs to its end, a sweep or a shutdown.        *)
(***************************************************************************)
EXTENDS Naturals, Sequences, FiniteSets

CONSTANTS
  Clients,      \* connections, each one used once
  Nobody,       \* no client
  Backlog,      \* connections the listening socket holds
  Points,       \* points of a sweep
  MaxCommands,  \* bound on the commands of a client
  Departures,   \* how clients may go, besides closing: among Ways
  Blocking,     \* start() in one thread and stop() in another, or startAsync()?
  Restarts      \* may the server be started again when it is not running?

Ways == {"halfClose", "vanish"}

ServerAssumption ==
  /\ Nobody \notin Clients /\ Backlog \in Nat \ {0} /\ Points \in Nat \ {0}
  /\ MaxCommands \in Nat /\ Departures \subseteq Ways
  /\ {Blocking, Restarts} \subseteq BOOLEAN

ASSUME ServerAssumption

Kinds == {"query", "sinc", "sweep", "shutdown"}

VARIABLES
  flags,    \* m_running, m_shouldStop, m_serverFd, a thread to join
  thread,   \* the server thread: where it is, and how far its sweep is
  slot,     \* m_clientFd
  lines,    \* m_lineBuffer, with the client each line is from
  cmd,      \* the command in progress, with the client it is from
  control,  \* where the controlling thread is in start, watch and stop
  peers,    \* how each client stands with its connection
  socket,   \* lines on their way from each client
  sent      \* lines each client has sent

vars == <<flags, thread, slot, lines, cmd, control, peers, socket, sent>>
serverVars == <<thread, slot, lines, cmd>>
clientVars == <<peers, socket, sent>>

NoCmd == [kind |-> "none", from |-> Nobody]

Init ==
  /\ flags = [running |-> FALSE, shouldStop |-> FALSE, listening |-> FALSE, joinable |-> FALSE]
  /\ thread = [at |-> "none", point |-> 0, late |-> 0]
  /\ slot = Nobody /\ lines = <<>> /\ cmd = NoCmd /\ control = "idle"
  /\ peers = [c \in Clients |-> "out"]
  /\ socket = [c \in Clients |-> <<>>] /\ sent = [c \in Clients |-> 0]

Peer == IF slot = Nobody THEN "closed" ELSE peers[slot]
Incoming == IF slot = Nobody THEN <<>> ELSE socket[slot]

At(place) == thread.at = place
Go(place) == thread' = [thread EXCEPT !.at = place]

-----------------------------------------------------------------------------
(* The thread that starts, watches and stops the server. *)

(* startAsync() and start(): refused while the server runs.  A std::thread  *)
(* that was not joined must not be assigned to: the process is aborted.     *)
Start ==
  /\ control = "idle" \/ (Restarts /\ control = "watching")
  /\ ~flags.running
  /\ IF flags.joinable
     THEN control' = "aborted" /\ UNCHANGED <<flags, thread>>
     ELSE /\ control' = IF Blocking THEN "watching" ELSE "starting"
          /\ flags' = [flags EXCEPT !.joinable = ~Blocking]
          /\ Go("init")
  /\ UNCHANGED <<slot, lines, cmd, clientVars>>

(* startAsync() returns what the thread promised: it listens, or it cannot. *)
Started ==
  /\ control = "starting" /\ thread.at \notin {"init", "running", "clear"}
  /\ control' = "watching"
  /\ UNCHANGED <<flags, serverVars, clientVars>>

(* stop(), called on a signal, on a server that ended, or by a destructor.  *)
Stop ==
  /\ control = "watching"
  /\ control' = "stopping"
  /\ flags' = [flags EXCEPT !.shouldStop = TRUE]
  /\ UNCHANGED <<serverVars, clientVars>>

(* Mutant: stop() does not wait for the thread. *)
JoinNone ==
  /\ control = "stopping"
  /\ control' = "joined"
  /\ flags' = [flags EXCEPT !.joinable = FALSE]
  /\ UNCHANGED <<serverVars, clientVars>>

Join ==
  /\ control = "stopping" /\ (flags.joinable => thread.at = "none")
  /\ control' = "joined"
  /\ flags' = [flags EXCEPT !.joinable = FALSE]
  /\ UNCHANGED <<serverVars, clientVars>>

(* The clean-up of stop() closes whatever sockets are open. *)
StopReturns ==
  /\ control = "joined"
  /\ control' = "stopped"
  /\ flags' = [flags EXCEPT !.running = FALSE, !.listening = FALSE]
  /\ slot' = Nobody
  /\ peers' = [c \in Clients |-> IF peers[c] = "queued" \/ c = slot THEN "closed" ELSE peers[c]]
  /\ UNCHANGED <<thread, lines, cmd, socket, sent>>

Controller == Start \/ Started \/ Stop \/ Join \/ StopReturns

-----------------------------------------------------------------------------
(* The server thread: start-up and the main loop. *)

Listen(ok) ==
  /\ At("init")
  /\ flags' = [flags EXCEPT !.listening = ok]
  /\ Go(IF ok THEN "running" ELSE "none")
  /\ UNCHANGED <<slot, lines, cmd, control, clientVars>>

MarkRunning ==
  /\ At("running")
  /\ flags' = [flags EXCEPT !.running = TRUE]
  /\ Go("clear")
  /\ UNCHANGED <<slot, lines, cmd, control, clientVars>>

ClearStop ==
  /\ At("clear")
  /\ flags' = [flags EXCEPT !.shouldStop = FALSE]
  /\ Go("accept")
  /\ UNCHANGED <<slot, lines, cmd, control, clientVars>>

(* The listening socket is closed, and with it what waits in its backlog. *)
Shut ==
  /\ At("accept") /\ flags.shouldStop
  /\ flags' = [flags EXCEPT !.running = FALSE, !.listening = FALSE]
  /\ peers' = [c \in Clients |-> IF peers[c] = "queued" THEN "closed" ELSE peers[c]]
  /\ Go("none")
  /\ UNCHANGED <<slot, lines, cmd, control, socket, sent>>

Waiting(c) == peers[c] \in {"queued", "queuedLeft", "queuedVanished"}

(* Mutant: what the last client sent is not cleared. *)
AcceptOnly(c) ==
  /\ At("accept") /\ ~flags.shouldStop /\ flags.listening /\ Waiting(c)
  /\ slot' = c
  /\ peers' = [peers EXCEPT ![c] = CASE @ = "queued" -> "in"
                                     [] @ = "queuedLeft" -> "left"
                                     [] OTHER -> "vanished"]
  /\ Go("read")
  /\ UNCHANGED <<flags, lines, cmd, control, socket, sent>>

(* A client that gave up in the backlog is accepted like any other. *)
Accept(c) ==
  /\ At("accept") /\ ~flags.shouldStop /\ flags.listening /\ Waiting(c)
  /\ slot' = c
  /\ peers' = [peers EXCEPT ![c] = CASE @ = "queued" -> "in"
                                     [] @ = "queuedLeft" -> "left"
                                     [] OTHER -> "vanished"]
  /\ Go("read")
  /\ lines' = <<>>
  /\ UNCHANGED <<flags, cmd, control, socket, sent>>

CloseClient ==
  /\ slot' = Nobody /\ cmd' = NoCmd
  /\ peers' = [c \in Clients |-> IF c = slot THEN "closed" ELSE peers[c]]
  /\ Go("accept")

-----------------------------------------------------------------------------
(* _handleClient() *)

(* Told to stop, or the socket was closed by another thread's stop(). *)
StopServing ==
  /\ At("read") /\ (flags.shouldStop \/ slot = Nobody)
  /\ CloseClient
  /\ UNCHANGED <<flags, lines, control, socket, sent>>

(* A line of the buffer, which recv() fills with all that has come.        *)
ReadLine ==
  /\ At("read") /\ ~flags.shouldStop /\ slot # Nobody
  /\ LET got == IF lines = <<>> THEN Incoming ELSE lines
     IN  /\ got # <<>>
         /\ cmd' = Head(got) /\ lines' = Tail(got)
         /\ socket' = IF lines = <<>> THEN [socket EXCEPT ![slot] = <<>>] ELSE socket
  /\ thread' = [at |-> "dispatch", point |-> 0, late |-> 0]
  /\ UNCHANGED <<flags, slot, control, peers, sent>>

NothingToRead == lines = <<>> /\ Incoming = <<>>

(* The client closed its sending side, all of it, or the keepalive probes  *)
(* found it gone.                                                          *)
EndOfClient ==
  /\ At("read") /\ ~flags.shouldStop /\ NothingToRead
  /\ Peer \in {"left", "half", "vanished"}
  /\ CloseClient
  /\ UNCHANGED <<flags, lines, control, socket, sent>>

(* Mutant: the idle clock starts with the first line. *)
IdleTimeoutAfterLine ==
  /\ At("read") /\ ~flags.shouldStop /\ NothingToRead /\ Peer = "in" /\ sent[slot] > 0
  /\ CloseClient
  /\ UNCHANGED <<flags, lines, control, socket, sent>>

IdleTimeout ==
  /\ At("read") /\ ~flags.shouldStop /\ NothingToRead /\ Peer \in {"in", "vanished"}
  /\ CloseClient
  /\ UNCHANGED <<flags, lines, control, socket, sent>>

(* Mutant: a shutdown ends the connection only. *)
DispatchOnly ==
  /\ At("dispatch")
  /\ IF cmd.kind = "shutdown"
     THEN CloseClient
     ELSE /\ Go(IF cmd.kind = "sweep" THEN "check" ELSE "reply")
          /\ UNCHANGED <<slot, cmd, peers>>
  /\ UNCHANGED <<flags, lines, control, socket, sent>>

Dispatch ==
  /\ At("dispatch")
  /\ IF cmd.kind = "shutdown"
     THEN /\ flags' = [flags EXCEPT !.shouldStop = TRUE]
          /\ CloseClient
     ELSE /\ Go(IF cmd.kind = "sweep" THEN "check" ELSE "reply")
          /\ UNCHANGED <<flags, slot, cmd, peers>>
  /\ UNCHANGED <<lines, control, socket, sent>>

(* isCommandCancelled().  Of a client that vanished it hears when the      *)
(* keepalive probes have failed, or not yet.                               *)
Cancelled ==
  \/ flags.shouldStop
  \/ Peer \in {"left", "half", "closed"}

(* Before each point of a sweep; after the last one nobody asks. *)
CheckCancel ==
  /\ At("check")
  /\ Go(IF thread.point = Points THEN "reply" ELSE IF Cancelled THEN "aborted" ELSE "measure")
  /\ UNCHANGED <<flags, slot, lines, cmd, control, clientVars>>

CancelByKeepalive ==
  /\ At("check") /\ thread.point < Points /\ Peer = "vanished"
  /\ Go("aborted")
  /\ UNCHANGED <<flags, slot, lines, cmd, control, clientVars>>

Measure ==
  /\ At("measure")
  /\ thread' = [at |-> "check", point |-> thread.point + 1,
                late |-> thread.late + IF flags.shouldStop \/ Peer = "left" THEN 1 ELSE 0]
  /\ UNCHANGED <<flags, slot, lines, cmd, control, clientVars>>

(* The answer: what is sent to a peer that is gone may still be accepted   *)
(* by the kernel.                                                          *)
Reply(ok) ==
  /\ thread.at \in {"reply", "aborted"} /\ (ok => slot # Nobody)
  /\ (~ok => Peer \in {"left", "vanished", "closed"})
  /\ IF ok THEN Go("read") /\ cmd' = NoCmd /\ UNCHANGED <<slot, peers>>
     ELSE CloseClient
  /\ UNCHANGED <<flags, lines, control, socket, sent>>

Server ==
  \/ \E ok \in BOOLEAN : Listen(ok) \/ Reply(ok)
  \/ MarkRunning \/ ClearStop \/ Shut
  \/ \E c \in Clients : Accept(c)
  \/ StopServing \/ ReadLine \/ EndOfClient \/ IdleTimeout
  \/ Dispatch \/ CheckCancel \/ CancelByKeepalive \/ Measure

-----------------------------------------------------------------------------
(* The clients (external). *)

Connect(c) ==
  /\ peers[c] = "out" /\ flags.listening
  /\ Cardinality({d \in Clients : Waiting(d)}) < Backlog
  /\ peers' = [peers EXCEPT ![c] = "queued"]
  /\ UNCHANGED <<flags, serverVars, control, socket, sent>>

Send(c, kind) ==
  /\ peers[c] = "in" /\ sent[c] < MaxCommands
  /\ sent' = [sent EXCEPT ![c] = @ + 1]
  /\ socket' = [socket EXCEPT ![c] = Append(@, [kind |-> kind, from |-> c])]
  /\ UNCHANGED <<flags, serverVars, control, peers>>

Leave(c) ==
  /\ peers[c] \in {"queued", "in", "half"}
  /\ peers' = [peers EXCEPT ![c] = IF @ = "queued" THEN "queuedLeft" ELSE "left"]
  /\ UNCHANGED <<flags, serverVars, control, socket, sent>>

HalfClose(c) ==
  /\ "halfClose" \in Departures /\ peers[c] = "in"
  /\ peers' = [peers EXCEPT ![c] = "half"]
  /\ UNCHANGED <<flags, serverVars, control, socket, sent>>

Vanish(c) ==
  /\ "vanish" \in Departures /\ peers[c] \in {"queued", "in"}
  /\ peers' = [peers EXCEPT ![c] = IF @ = "queued" THEN "queuedVanished" ELSE "vanished"]
  /\ UNCHANGED <<flags, serverVars, control, socket, sent>>

Client(c) ==
  Connect(c) \/ Leave(c) \/ HalfClose(c) \/ Vanish(c) \/ \E kind \in Kinds : Send(c, kind)

Next == Controller \/ Server \/ \E c \in Clients : Client(c)

(* The server thread runs: select() and poll() have time-outs, a command    *)
(* ends, a send ends by its time-out, the keepalive probes of a client that *)
(* is gone fail, and a silent client is dropped after the idle time-out.    *)
(* The controlling thread goes on once it stops the server; nobody has to   *)
(* start or stop one.                                                       *)
Spec ==
  /\ Init /\ [][Next]_vars /\ WF_vars(Server)
  /\ WF_vars(Started) /\ WF_vars(Join \/ StopReturns)
  /\ WF_vars(Stop /\ ~flags.running)  \* main() watches isRunning()

-----------------------------------------------------------------------------
(* Properties *)

\* The type invariant; a client in the slot is in no other state of a connection.
TypeOK ==
  /\ flags \in [running : BOOLEAN, shouldStop : BOOLEAN, listening : BOOLEAN, joinable : BOOLEAN]
  /\ thread.at \in {"none", "init", "running", "clear", "accept", "read", "dispatch",
                    "check", "measure", "aborted", "reply"}
  /\ thread.point \in 0 .. Points /\ thread.late \in 0 .. Points
  /\ slot \in Clients \cup {Nobody} /\ cmd.kind \in Kinds \cup {"none"}
  /\ Peer \in {"in", "half", "left", "vanished", "closed"}
  /\ \A c \in Clients : peers[c] \in {"in", "half", "left", "vanished"} => c = slot
  /\ control \in {"idle", "starting", "watching", "stopping", "joined", "stopped", "aborted"}

(* A command runs only for the client that sent it: what a client left in   *)
(* the line buffer is not run for the next one, and its answer not sent to  *)
(* it.                                                                      *)
CommandsAreTheClients == cmd # NoCmd /\ slot # Nobody => cmd.from = slot

(* A sweep ends when the server stops or its client closed the connection:  *)
(* at most the point that was being measured is measured still.             *)
SweepStopsInTime == thread.late <= 1

(* The server works for the client in its slot, and for no other, and for   *)
(* none that is gone.                                                       *)
ServesItsClient == CommandsAreTheClients /\ SweepStopsInTime

(* When stop() has returned, the server thread has ended and is joined, and *)
(* no socket is open: nothing is served by a server that is being destroyed *)
(* with its command handler.                                                *)
StoppedMeansEnded ==
  control = "stopped" => thread.at = "none" /\ slot = Nobody /\ ~flags.listening /\ ~flags.joinable

(* "Signal stop - the thread will see this within its select() timeout":    *)
(* a stop is not lost, whatever the thread is doing.                        *)
StopIsSeen == control = "stopping" ~> thread.at = "none"

(* SYSTEM:SHUTDOWN stops the whole server, by way of the flag it leaves.    *)
ShutdownStops == cmd.kind = "shutdown" ~> control = "stopped"

(* Whoever tells the server to stop, a thread or a client, it stops.        *)
StopsAreSeen == StopIsSeen /\ ShutdownStops

(* Who waits in the backlog is served when those before it have gone, or    *)
(* learns that the server stops.                                            *)
QueuedIsAccepted == \A c \in Clients : peers[c] = "queued" ~> peers[c] # "queued"

(* "Cancelled: client gone or server stopping": a sweep is not aborted      *)
(* under a client that is still there for its answer.                       *)
AbortedMeansGone ==
  At("aborted") => flags.shouldStop \/ Peer \in {"left", "vanished", "closed"}

(* Starting a server that is not running gives an answer: it started or it  *)
(* did not.                                                                 *)
StartAnswers == control # "aborted"
=============================================================================
