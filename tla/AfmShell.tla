------------------------------ MODULE AfmShell ------------------------------
(***************************************************************************)
(* The command line client, afm_cli.py: one command, a script of commands, *)
(* or the interactive shell, over connections to a server that has one     *)
(* slot, may be busy, refuse, answer late or not at all, and may close the  *)
(* connection at any time.                                                 *)
(*                                                                         *)
(* AFMClient is modelled by its calls: a request, then its reply, a        *)
(* time-out or a loss, the last two of which close the connection.  The    *)
(* steps within a call are AfmClient's, those of the server TcpServer's;   *)
(* here the server owes nothing.                                           *)
(***************************************************************************)
EXTENDS Naturals, FiniteSets

CONSTANTS
  Modes,     \* among "command", "script" and "shell"
  MaxLines,  \* bound on the lines given to the program
  MaxConns   \* bound on the connections it makes

ShellAssumption ==
  Modes \subseteq {"command", "script", "shell"} /\ {MaxLines, MaxConns} \subseteq Nat \ {0}

ASSUME ShellAssumption

Lines == 1 .. MaxLines
Conns == 1 .. MaxConns
None == 0

VARIABLES
  opts,      \* mode, continue on errors
  pc,        \* start, next line, welcome, wait for a reply, spectrum read, exit
  line,      \* number of the current line
  kinds,     \* what each line asks for
  client,    \* the connection of the current client, or None
  mine,      \* this end of each connection
  theirs,    \* the server's end of each connection
  request,   \* line on its way to the server, on each connection
  reply,     \* reply on its way, on each connection
  up,        \* is the server running?
  executed,  \* what the server did with each line
  outcome,   \* what the user was shown for each line
  told,      \* has the user been told that there is no connection?
  spectrum,  \* the line whose spectrum is kept, or None
  saved,     \* the line whose spectrum was saved last, or None
  code       \* exit code

input == <<line, kinds>>
net == <<mine, theirs, request, reply>>
shown == <<outcome, told>>
data == <<spectrum, saved>>
server == <<up, executed>>
vars == <<opts, pc, input, client, net, server, shown, data, code>>

NoReply == [line |-> None, ok |-> FALSE]
Remote == {"query", "measure", "shutdown"}
LocalCommands == {"connect", "badPort", "save", "quit"}

Init ==
  /\ opts \in [mode : Modes, continue : BOOLEAN]
  /\ pc = "start" /\ line = None /\ kinds = [l \in Lines |-> "none"]
  /\ client = None /\ up = TRUE
  /\ mine = [i \in Conns |-> "none"] /\ theirs = [i \in Conns |-> "none"]
  /\ request = [i \in Conns |-> None] /\ reply = [i \in Conns |-> NoReply]
  /\ executed = [l \in Lines |-> "no"] /\ outcome = [l \in Lines |-> "none"]
  /\ told = FALSE /\ spectrum = None /\ saved = None /\ code = None

Interactive == opts.mode = "shell"
Kind == IF line = None THEN "none" ELSE kinds[line]
Errors == {l \in Lines : outcome[l] = "error"}
Fresh == {i \in Conns : mine[i] = "none"}
NextConn == CHOOSE i \in Fresh : TRUE

Exit(c) == pc' = "exit" /\ code' = c /\ mine' = [i \in Conns |-> "closed"]

Disconnect ==
  /\ client' = None
  /\ mine' = [i \in Conns |-> IF i = client THEN "closed" ELSE mine[i]]

-----------------------------------------------------------------------------
(* The server (external here): one slot, a backlog, no promises. *)

Slot == {i \in Conns : theirs[i] = "slot"}

Accept(i) ==
  /\ up /\ Slot = {} /\ theirs[i] = "queued"
  /\ theirs' = [theirs EXCEPT ![i] = "slot"]
  /\ UNCHANGED <<opts, pc, input, client, mine, request, reply, server, shown, data, code>>

(* What a request does is the handler's; a shutdown ends every connection. *)
Execute(i, ok) ==
  /\ theirs[i] = "slot" /\ request[i] # None
  /\ executed' = [executed EXCEPT ![request[i]] = IF ok THEN "ok" ELSE "err"]
  /\ reply' = [reply EXCEPT ![i] = [line |-> request[i], ok |-> ok]]
  /\ request' = [request EXCEPT ![i] = None]
  /\ LET stops == ok /\ kinds[request[i]] = "shutdown"
     IN  /\ up' = (up /\ ~stops)
         /\ theirs' = IF stops THEN [j \in Conns |-> IF theirs[j] = "none" THEN "none" ELSE "closed"]
                      ELSE theirs
  /\ UNCHANGED <<opts, pc, input, client, mine, shown, data, code>>

(* The end of the stream, the idle time-out, a crash. *)
Drop(i) ==
  /\ theirs[i] \in {"queued", "slot"}
  /\ theirs' = [theirs EXCEPT ![i] = "closed"]
  /\ UNCHANGED <<opts, pc, input, client, mine, request, reply, server, shown, data, code>>

ServerStops ==
  /\ up /\ up' = FALSE
  /\ theirs' = [i \in Conns |-> IF theirs[i] = "none" THEN "none" ELSE "closed"]
  /\ UNCHANGED <<opts, pc, input, client, mine, request, reply, executed, shown, data, code>>

Server ==
  \/ \E i \in Conns : Accept(i) \/ Drop(i) \/ \E ok \in BOOLEAN : Execute(i, ok)
  \/ ServerStops

-----------------------------------------------------------------------------
(* Making a connection *)

(* AFMClient.connect() gets as far as waiting for the welcome line, whether  *)
(* or not the slot is free.                                                 *)
Open ==
  /\ up /\ Fresh # {}
  /\ client' = NextConn
  /\ theirs' = [theirs EXCEPT ![NextConn] = "queued"]
  /\ pc' = "welcome"

(* main(): without a connection nothing is run. *)
Start ==
  /\ pc = "start"
  /\ \/ Open /\ mine' = [mine EXCEPT ![NextConn] = "open"] /\ UNCHANGED code
     \/ Exit(1) /\ UNCHANGED <<client, theirs>>
  /\ UNCHANGED <<opts, input, request, reply, server, shown, data>>

Welcomed ==
  /\ pc = "welcome" /\ theirs[client] # "queued"
  /\ pc' = "next" /\ told' = FALSE
  /\ UNCHANGED <<opts, input, client, net, server, outcome, data, code>>

(* Mutant: the welcome is waited for without a time-out. *)
NotWelcomedOnClose ==
  /\ pc = "welcome" /\ theirs[client] = "closed"
  /\ IF line = None
     THEN Exit(1) /\ UNCHANGED <<client, told>>
     ELSE Disconnect /\ pc' = "next" /\ told' = TRUE /\ UNCHANGED code
  /\ UNCHANGED <<opts, input, theirs, request, reply, server, outcome, data>>

NotWelcomed ==
  /\ pc = "welcome"
  /\ IF line = None
     THEN Exit(1) /\ UNCHANGED <<client, told>>
     ELSE Disconnect /\ pc' = "next" /\ told' = TRUE /\ UNCHANGED code
  /\ UNCHANGED <<opts, input, theirs, request, reply, server, outcome, data>>

-----------------------------------------------------------------------------
(* Taking a line *)

Take(k) ==
  /\ pc = "next" /\ line < MaxLines
  /\ opts.mode = "command" => line = None
  /\ line' = line + 1 /\ kinds' = [kinds EXCEPT ![line + 1] = k]

(* postcmd(): the hint is for a command that finds or leaves it offline. *)
Hint(k) == told' = (told \/ (Interactive /\ client' = None /\ k \notin LocalCommands))

(* Mutant: the script goes on by default. *)
AfterErrorGoOn == pc' = "next" /\ UNCHANGED <<mine, code>>

(* What happens once a line has failed. *)
AfterError ==
  IF ~Interactive /\ ~opts.continue THEN Exit(1) ELSE pc' = "next" /\ UNCHANGED <<mine, code>>

(* The same, when the failure closed the connection. *)
AfterLoss ==
  /\ client # None /\ client' = None
  /\ IF ~Interactive /\ ~opts.continue THEN Exit(1)
     ELSE /\ mine' = [mine EXCEPT ![client] = "closed"]
          /\ pc' = "next" /\ UNCHANGED code

(* AFMClient's request, on the connection there is. *)
Request(k) ==
  /\ Take(k) /\ k \in Remote /\ (k = "measure" => Interactive) /\ client # None
  /\ request' = [request EXCEPT ![client] = line + 1]
  /\ reply' = [reply EXCEPT ![client] = NoReply]
  /\ pc' = "wait"
  /\ UNCHANGED <<opts, client, mine, theirs, server, shown, data, code>>

(* No connection, a send that fails, a line that is not ASCII or not one    *)
(* line: the command ends in an error before the server sees any of it.     *)
RequestFails(k) ==
  /\ Take(k) /\ k \in Remote
  /\ (k = "measure" => Interactive) /\ (k = "shutdown" => ~Interactive)
  /\ outcome' = [outcome EXCEPT ![line + 1] = "error"]
  /\ (UNCHANGED client /\ AfterError) \/ AfterLoss
  /\ Hint(k)
  /\ UNCHANGED <<opts, theirs, request, reply, server, data>>

(* A comment or blank line. *)
Skip ==
  /\ Take("ignored")
  /\ outcome' = [outcome EXCEPT ![line + 1] = "skipped"]
  /\ UNCHANGED <<opts, pc, client, net, server, told, data, code>>

(* Arguments the commands of the shell refuse: usage, or not a number.  What *)
(* they accept is a Request.                                                *)
Usage ==
  /\ Take("usage") /\ Interactive
  /\ outcome' = [outcome EXCEPT ![line + 1] = "skipped"]
  /\ UNCHANGED <<opts, pc, client, net, server, data, code>>
  /\ Hint("usage")

(* A script that cannot be read or decoded: up to here it was executed. *)
ReadFails ==
  /\ pc = "next" /\ opts.mode = "script"
  /\ Exit(1)
  /\ UNCHANGED <<opts, input, client, theirs, request, reply, server, shown, data>>

(* Mutant: only the last error counts. *)
EndIfLast ==
  /\ pc = "next" /\ ~Interactive /\ (opts.mode = "command" => line = 1)
  /\ Exit(IF line \in Errors THEN 1 ELSE 0)
  /\ UNCHANGED <<opts, input, client, theirs, request, reply, server, shown, data>>

End ==
  /\ pc = "next" /\ ~Interactive /\ (opts.mode = "command" => line = 1)
  /\ Exit(IF Errors # {} THEN 1 ELSE 0)
  /\ UNCHANGED <<opts, input, client, theirs, request, reply, server, shown, data>>

-----------------------------------------------------------------------------
(* The reply, its absence, and Ctrl+C *)

(* A spectrum is whole before the shell has it. *)
Answered ==
  /\ pc = "wait" /\ reply[client].line # None
  /\ LET ok == reply[client].ok
         keep == Kind = "measure" /\ ok
         leaves == Kind = "shutdown" /\ Interactive
     IN  /\ IF keep THEN pc' = "got" /\ UNCHANGED <<client, mine, outcome, told, code>>
            ELSE /\ outcome' = [outcome EXCEPT ![line] = IF ok \/ leaves THEN "ok" ELSE "error"]
                 /\ IF leaves THEN Exit(0) /\ client' = None
                    ELSE /\ UNCHANGED client
                         /\ IF ok THEN pc' = "next" /\ UNCHANGED <<mine, code>> ELSE AfterError
                 /\ Hint(Kind)
  /\ UNCHANGED <<opts, input, theirs, request, reply, server, data>>

(* A time-out, or the server closed the connection: the client closes it    *)
(* too.  shutdown() expects no better and reports success.                  *)
Lost ==
  /\ pc = "wait"
  /\ LET leaves == Kind = "shutdown" /\ Interactive
     IN  /\ outcome' = [outcome EXCEPT ![line] = IF leaves THEN "ok" ELSE "error"]
         /\ IF leaves THEN Exit(0) /\ client' = None ELSE AfterLoss
  /\ Hint(Kind)
  /\ UNCHANGED <<opts, input, theirs, request, reply, server, data>>

(* do_shutdown() that finds no connection, or cannot send: shutdown()       *)
(* swallows the error.                                                      *)
ShutdownUnsent ==
  /\ Take("shutdown") /\ Interactive
  /\ outcome' = [outcome EXCEPT ![line + 1] = "ok"]
  /\ Exit(0) /\ client' = None
  /\ UNCHANGED <<opts, theirs, request, reply, server, told, data>>

(* Mutant: a spectrum is kept before it is known to be one. *)
StoreAny ==
  /\ pc \in {"wait", "got"} /\ Kind = "measure"
  /\ spectrum' = line
  /\ pc' = "next" /\ outcome' = [outcome EXCEPT ![line] = IF pc = "got" THEN "ok" ELSE "error"]
  /\ UNCHANGED <<opts, input, client, net, server, told, saved, code>>

Store ==
  /\ pc = "got"
  /\ spectrum' = line /\ pc' = "next"
  /\ outcome' = [outcome EXCEPT ![line] = "ok"]
  /\ UNCHANGED <<opts, input, client, net, server, told, saved, code>>

(* Ctrl+C in do_sinc or do_sweep, also after the spectrum was assigned. *)
Cancel ==
  /\ pc \in {"wait", "got"} /\ Kind = "measure"
  /\ outcome' = [outcome EXCEPT ![line] = "cancelled"]
  /\ spectrum' \in IF pc = "got" THEN {spectrum, line} ELSE {spectrum}
  /\ Disconnect /\ pc' = "next"
  /\ Hint(Kind)
  /\ UNCHANGED <<opts, input, theirs, request, reply, server, saved, code>>

(* Ctrl+C anywhere else, and Ctrl+D where a question is asked: nobody       *)
(* catches it.                                                             *)
Interrupt ==
  /\ pc \in {"welcome", "next", "wait"} /\ (pc = "wait" => Kind # "measure")
  /\ Exit(1) /\ client' = None
  /\ UNCHANGED <<opts, input, theirs, request, reply, server, shown, data>>

-----------------------------------------------------------------------------
(* Commands of the shell *)

(* Mutant: the new client connects before the old one is disconnected. *)
DoConnectFirst ==
  /\ Take("connect") /\ Interactive
  /\ \/ Open /\ mine' = [mine EXCEPT ![NextConn] = "open"] /\ UNCHANGED told
     \/ Disconnect /\ pc' = "next" /\ told' = TRUE /\ UNCHANGED theirs
  /\ outcome' = [outcome EXCEPT ![line + 1] = "skipped"]
  /\ UNCHANGED <<opts, request, reply, server, data, code>>

(* A fresh client, the old one closed first: there is one slot. *)
DoConnect ==
  /\ Take("connect") /\ Interactive
  /\ \/ /\ Open /\ UNCHANGED told
        /\ mine' = [i \in Conns |-> IF i = client THEN "closed"
                                    ELSE IF i = NextConn THEN "open" ELSE mine[i]]
     \/ Disconnect /\ pc' = "next" /\ told' = TRUE /\ UNCHANGED theirs
  /\ outcome' = [outcome EXCEPT ![line + 1] = "skipped"]
  /\ UNCHANGED <<opts, request, reply, server, data, code>>

(* "port must be an integer": the connection there is stays. *)
BadPort ==
  /\ Take("badPort") /\ Interactive
  /\ outcome' = [outcome EXCEPT ![line + 1] = "skipped"]
  /\ UNCHANGED <<opts, pc, client, net, server, told, data, code>>

(* data_save, and data_show. *)
DataSave ==
  /\ Take("save") /\ Interactive
  /\ saved' \in IF spectrum = None THEN {saved} ELSE {spectrum, saved}
  /\ outcome' = [outcome EXCEPT ![line + 1] = "skipped"]
  /\ UNCHANGED <<opts, pc, client, net, server, told, spectrum, code>>

Quit ==
  /\ Take("quit") /\ Interactive
  /\ Exit(0) /\ client' = None
  /\ outcome' = [outcome EXCEPT ![line + 1] = "skipped"]
  /\ UNCHANGED <<opts, theirs, request, reply, server, told, data>>

Returns == Welcomed \/ NotWelcomed \/ Answered \/ Lost \/ Store

User ==
  \/ Start \/ ReadFails \/ End \/ ShutdownUnsent \/ Cancel \/ Interrupt
  \/ DoConnect \/ BadPort \/ DataSave \/ Quit
  \/ Skip \/ Usage \/ \E k \in Remote : Request(k) \/ RequestFails(k)

Next == Server \/ Returns \/ User

(* Every read has a time-out, and the program goes on after it. *)
Spec == Init /\ [][Next]_vars /\ WF_vars(Returns)

-----------------------------------------------------------------------------
(* Properties *)

\* The type invariant; a client that is connected has its end open.
TypeOK ==
  /\ opts \in [mode : Modes, continue : BOOLEAN]
  /\ pc \in {"start", "welcome", "next", "wait", "got", "exit"}
  /\ line \in Lines \cup {None} /\ client \in Conns \cup {None}
  /\ kinds \in [Lines -> Remote \cup LocalCommands \cup {"none", "ignored", "usage"}]
  /\ mine \in [Conns -> {"none", "open", "closed"}]
  /\ theirs \in [Conns -> {"none", "queued", "slot", "closed"}]
  /\ request \in [Conns -> Lines \cup {None}]
  /\ reply \in [Conns -> [line : Lines \cup {None}, ok : BOOLEAN]]
  /\ executed \in [Lines -> {"no", "ok", "err"}]
  /\ outcome \in [Lines -> {"none", "ok", "error", "cancelled", "skipped"}]
  /\ {told, up} \subseteq BOOLEAN /\ {spectrum, saved} \subseteq Lines \cup {None}
  /\ code \in {0, 1}
  /\ pc # "exit" /\ client # None => mine[client] = "open"

(* The exit code 0 of a script or a single command says that every command  *)
(* line was carried out and answered with OK, in order.                     *)
ExitZeroMeansAllDone ==
  pc = "exit" /\ ~Interactive /\ code = 0 =>
    \A l \in 1 .. line : outcome[l] = "skipped" \/ (outcome[l] = "ok" /\ executed[l] = "ok")

(* "stop on error by default for safety": after a line that failed, with or *)
(* without an answer, no later line reaches the server.                     *)
StopsOnError ==
  ~Interactive /\ ~opts.continue =>
    \A e \in Errors, l \in Lines :
      l > e => executed[l] = "no" /\ \A i \in Conns : request[i] # l

(* The shell never waits in the backlog behind a connection of its own that *)
(* it still holds: the server has one slot, it would wait for itself.       *)
NeverBehindItself ==
  pc = "welcome" => \A i \in Conns \ {client} : mine[i] # "open"

(* At the prompt without a connection, the user has been told so since the  *)
(* connection was lost.                                                     *)
OfflineIsTold == Interactive /\ pc = "next" /\ client = None => told

(* The shell has one connection, or has said that it has none.              *)
ConnectionIsSound == NeverBehindItself /\ OfflineIsTold

(* What data_save writes is the last spectrum shown as done, or one whose   *)
(* command was cancelled when it had been read to its end.                  *)
SavedWasMeasured ==
  [][saved' # saved =>
       /\ executed[saved'] = "ok" /\ outcome[saved'] \in {"ok", "cancelled"}
       /\ \A l \in Lines : l > saved' => ~(kinds[l] = "measure" /\ outcome[l] = "ok")]_vars

(* A command given to the program ends: with a prompt, or the program.      *)
CommandReturns == pc \in {"welcome", "wait", "got"} ~> pc \in {"next", "exit"}

(* "Shutdown server": a shell that left saying so has had the server do it. *)
ShutdownReported ==
  pc = "exit" /\ Kind = "shutdown" /\ Interactive /\ code = 0 => executed[line] = "ok"
=============================================================================
