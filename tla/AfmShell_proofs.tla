-------------------------- MODULE AfmShell_proofs --------------------------
(***************************************************************************)
(* Proofs about the command line client, for scripts and sessions of any   *)
(* length, any number of connections, and a server that owes nothing.      *)
(***************************************************************************)
EXTENDS AfmShell, TLAPS

(* The inductive invariant, in parts. *)

\* An end that is open is the current client's.
OneOpen == \A i \in Conns : mine[i] = "open" => i = client

\* A call is under way on a connection, for a line that asks for one.
Calling ==
  /\ pc = "start" => client = None
  /\ pc \in {"welcome", "wait", "got"} => client # None
  /\ pc \in {"wait", "got"} => line # None /\ Kind \in Remote /\ (Kind = "measure" => Interactive)
  /\ pc = "got" => Kind = "measure"

\* Nothing is known of a line before it is read.
Ahead ==
  \A l \in Lines : l > line =>
    executed[l] = "no" /\ outcome[l] = "none" /\ \A i \in Conns : request[i] # l

\* The reply waited for is the one to the current line.
OwnReply ==
  pc = "wait" =>
    /\ \A i \in Conns \ {client} : request[i] # line
    /\ \/ request[client] = line /\ reply[client] = NoReply
       \/ /\ request[client] = None /\ reply[client].line = line
          /\ reply[client].ok => executed[line] = "ok"

\* What was answered with OK is not executed again.
NotAgain ==
  ~Interactive => \A i \in Conns : request[i] # None => outcome[request[i]] # "ok"

\* The first error of a script that does not go on is its last line.
EndsOnError ==
  ~Interactive /\ ~opts.continue => \A e \in Errors : e = line /\ pc = "exit"

Done(l) == outcome[l] \in {"skipped", "error"} \/ (outcome[l] = "ok" /\ executed[l] = "ok")

\* Of each line the program knows what became of it, or it exits with an error.
Accounted ==
  ~Interactive =>
    /\ \A l \in Lines : l <= line => Done(l) \/ (pc = "wait" /\ l = line) \/ (pc = "exit" /\ code = 1)
    /\ pc = "exit" /\ code = 0 => Errors = {}

Inv ==
  /\ TypeOK /\ OneOpen /\ Calling /\ OfflineIsTold
  /\ Ahead /\ OwnReply /\ NotAgain /\ EndsOnError /\ Accounted

LEMMA InitInv == Init => Inv
<1>. SUFFICES ASSUME Init PROVE Inv
  OBVIOUS
<1>1. Lines \subseteq Nat \ {0} /\ Conns \subseteq Nat \ {0} /\ Errors = {}
  BY ShellAssumption DEF ShellAssumption, Lines, Conns, Init, Errors
<1>2. TypeOK
  BY <1>1 DEF Init, TypeOK, None, NoReply, Remote, LocalCommands
<1>3. Accounted
  BY <1>1 DEF Init, Accounted, None
<1>. QED  BY <1>1, <1>2, <1>3
  DEF Init, Inv, OneOpen, Calling, OfflineIsTold, Ahead, OwnReply, NotAgain, EndsOnError, None

LEMMA Ranges ==
  ASSUME TypeOK
  PROVE  /\ line \in Nat /\ line <= MaxLines /\ None \notin Lines /\ None \notin Conns
         /\ Lines \subseteq Nat /\ (line < MaxLines => line + 1 \in Lines)
         /\ Fresh # {} => NextConn \in Fresh
BY ShellAssumption DEF TypeOK, Lines, Conns, None, ShellAssumption, NextConn

\* What a line may ask for.
AllKinds == Remote \cup LocalCommands \cup {"none", "ignored", "usage"}

LEMMA TakesLine ==
  ASSUME TypeOK, NEW k \in AllKinds, Take(k)
  PROVE  /\ line' = line + 1 /\ line + 1 \in Lines /\ line + 1 # None /\ pc = "next"
         /\ kinds' \in [Lines -> AllKinds] /\ kinds' = [kinds EXCEPT ![line + 1] = k]
BY Ranges DEF Take, TypeOK, AllKinds

-----------------------------------------------------------------------------
(* The server: it may do any of these at any time. *)

LEMMA AcceptInv ==
  ASSUME NEW i \in Conns, Inv, Accept(i)
  PROVE  Inv'
<1>1. TypeOK'
  BY Ranges
  DEF Inv, TypeOK, Remote, LocalCommands, Calling, Kind, Fresh, Accept, server, shown, data, input
<1>2. OneOpen' /\ Calling' /\ OfflineIsTold'
  BY Ranges
  DEF Inv, OneOpen, Calling, OfflineIsTold, Kind, Interactive, TypeOK, Remote, LocalCommands,
      Fresh, Accept, server, shown, data, input
<1>3. Ahead' /\ OwnReply' /\ NotAgain'
  BY Ranges
  DEF Inv, Ahead, OwnReply, NotAgain, TypeOK, NoReply, Calling, Kind, Interactive, Accept, server,
      shown, data, input
<1>4. EndsOnError' /\ Accounted'
  BY Ranges
  DEF Inv, EndsOnError, Accounted, Done, Errors, Interactive, TypeOK, Ahead, OwnReply, NotAgain,
      Calling, Kind, NoReply, Accept, server, shown, data, input
<1>. QED  BY <1>1, <1>2, <1>3, <1>4 DEF Inv

LEMMA ExecuteInv ==
  ASSUME NEW i \in Conns, NEW ok \in BOOLEAN, Inv, Execute(i, ok)
  PROVE  Inv'
<1>1. TypeOK'
  BY Ranges
  DEF Inv, TypeOK, Remote, LocalCommands, Calling, Kind, Fresh, Execute, shown, data, input
<1>2. OneOpen' /\ Calling' /\ OfflineIsTold'
  BY Ranges
  DEF Inv, OneOpen, Calling, OfflineIsTold, Kind, Interactive, TypeOK, Remote, LocalCommands,
      Fresh, Execute, shown, data, input
<1>3. Ahead' /\ OwnReply' /\ NotAgain'
  <2>1. /\ UNCHANGED <<opts, pc, line, kinds, client, outcome>> /\ request[i] \in Lines
        /\ executed' = [executed EXCEPT ![request[i]] = IF ok THEN "ok" ELSE "err"]
        /\ reply' = [reply EXCEPT ![i] = [line |-> request[i], ok |-> ok]]
        /\ request' = [request EXCEPT ![i] = None]
    BY Ranges DEF Execute, shown, input, Inv, TypeOK
  <2>2. Ahead'
    BY <2>1, Ranges DEF Inv, TypeOK, Ahead
  <2>3. OwnReply'
    <3>. SUFFICES ASSUME pc = "wait" PROVE OwnReply'
      BY <2>1 DEF OwnReply
    <3>1. CASE i = client
      BY <2>1, <3>1, Ranges DEF Inv, TypeOK, OwnReply, Calling
    <3>2. CASE i # client
      BY <2>1, <3>2, Ranges DEF Inv, TypeOK, OwnReply, Calling
    <3>. QED  BY <3>1, <3>2
  <2>4. NotAgain'
    BY <2>1, Ranges DEF Inv, TypeOK, NotAgain, Interactive
  <2>. QED  BY <2>2, <2>3, <2>4
<1>4. EndsOnError' /\ Accounted'
  BY Ranges
  DEF Inv, EndsOnError, Accounted, Done, Errors, Interactive, TypeOK, Ahead, OwnReply, NotAgain,
      Calling, Kind, NoReply, Execute, shown, data, input
<1>. QED  BY <1>1, <1>2, <1>3, <1>4 DEF Inv

LEMMA DropInv ==
  ASSUME NEW i \in Conns, Inv, Drop(i)
  PROVE  Inv'
<1>1. TypeOK'
  BY Ranges
  DEF Inv, TypeOK, Remote, LocalCommands, Calling, Kind, Fresh, Drop, server, shown, data, input
<1>2. OneOpen' /\ Calling' /\ OfflineIsTold'
  BY Ranges
  DEF Inv, OneOpen, Calling, OfflineIsTold, Kind, Interactive, TypeOK, Remote, LocalCommands,
      Fresh, Drop, server, shown, data, input
<1>3. Ahead' /\ OwnReply' /\ NotAgain'
  BY Ranges
  DEF Inv, Ahead, OwnReply, NotAgain, TypeOK, NoReply, Calling, Kind, Interactive, Drop, server,
      shown, data, input
<1>4. EndsOnError' /\ Accounted'
  BY Ranges
  DEF Inv, EndsOnError, Accounted, Done, Errors, Interactive, TypeOK, Ahead, OwnReply, NotAgain,
      Calling, Kind, NoReply, Drop, server, shown, data, input
<1>. QED  BY <1>1, <1>2, <1>3, <1>4 DEF Inv

LEMMA ServerStopsInv ==
  ASSUME Inv, ServerStops
  PROVE  Inv'
<1>1. TypeOK'
  BY Ranges
  DEF Inv, TypeOK, Remote, LocalCommands, Calling, Kind, Fresh, ServerStops, shown, data, input
<1>2. OneOpen' /\ Calling' /\ OfflineIsTold'
  BY Ranges
  DEF Inv, OneOpen, Calling, OfflineIsTold, Kind, Interactive, TypeOK, Remote, LocalCommands,
      Fresh, ServerStops, shown, data, input
<1>3. Ahead' /\ OwnReply' /\ NotAgain'
  BY Ranges
  DEF Inv, Ahead, OwnReply, NotAgain, TypeOK, NoReply, Calling, Kind, Interactive, ServerStops,
      shown, data, input
<1>4. EndsOnError' /\ Accounted'
  BY Ranges
  DEF Inv, EndsOnError, Accounted, Done, Errors, Interactive, TypeOK, Ahead, OwnReply, NotAgain,
      Calling, Kind, NoReply, ServerStops, shown, data, input
<1>. QED  BY <1>1, <1>2, <1>3, <1>4 DEF Inv

-----------------------------------------------------------------------------
(* Making a connection. *)

LEMMA StartInv ==
  ASSUME Inv, Start
  PROVE  Inv'
<1>1. TypeOK'
  <2>1. CASE Open
    BY <2>1, Ranges DEF Inv, TypeOK, Fresh, Calling, Start, Open, Exit, server, shown, data, input
  <2>2. CASE Exit(1)
    BY <2>2, Ranges DEF Inv, TypeOK, Calling, Start, Open, Exit, server, shown, data, input
  <2>. QED  BY <2>1, <2>2 DEF Start
<1>2. OneOpen' /\ Calling' /\ OfflineIsTold'
  <2>1. CASE Open
    BY <2>1, Ranges
    DEF Inv, OneOpen, Calling, OfflineIsTold, TypeOK, Fresh, Start, Open, Exit, server, shown,
        data, input
  <2>2. CASE Exit(1)
    BY <2>2, Ranges
    DEF Inv, OneOpen, Calling, OfflineIsTold, TypeOK, Start, Open, Exit, server, shown, data, input
  <2>. QED  BY <2>1, <2>2 DEF Start
<1>3. Ahead' /\ OwnReply' /\ NotAgain'
  BY Ranges
  DEF Inv, Ahead, OwnReply, NotAgain, TypeOK, NoReply, Calling, Kind, Interactive, Start, Open,
      Exit, server, shown, data, input
<1>4. EndsOnError' /\ Accounted'
  BY Ranges
  DEF Inv, EndsOnError, Accounted, Done, Errors, Interactive, TypeOK, Ahead, OwnReply, NotAgain,
      Calling, Kind, NoReply, Start, Open, Exit, server, shown, data, input
<1>. QED  BY <1>1, <1>2, <1>3, <1>4 DEF Inv

LEMMA WelcomedInv ==
  ASSUME Inv, Welcomed
  PROVE  Inv'
<1>1. TypeOK'
  BY Ranges
  DEF Inv, TypeOK, Remote, LocalCommands, Calling, Kind, Fresh, Welcomed, net, server, data, input
<1>2. OneOpen' /\ Calling' /\ OfflineIsTold'
  BY Ranges
  DEF Inv, OneOpen, Calling, OfflineIsTold, Kind, Interactive, TypeOK, Remote, LocalCommands,
      Fresh, Welcomed, net, server, data, input
<1>3. Ahead' /\ OwnReply' /\ NotAgain'
  BY Ranges
  DEF Inv, Ahead, OwnReply, NotAgain, TypeOK, NoReply, Calling, Kind, Interactive, Welcomed, net,
      server, data, input
<1>4. EndsOnError' /\ Accounted'
  BY Ranges
  DEF Inv, EndsOnError, Accounted, Done, Errors, Interactive, TypeOK, Ahead, OwnReply, NotAgain,
      Calling, Kind, NoReply, Welcomed, net, server, data, input
<1>. QED  BY <1>1, <1>2, <1>3, <1>4 DEF Inv

LEMMA NotWelcomedInv ==
  ASSUME Inv, NotWelcomed
  PROVE  Inv'
<1>1. TypeOK'
  <2>1. CASE line = None
    BY <2>1, Ranges DEF Inv, TypeOK, NotWelcomed, Disconnect, Exit, server, data, input
  <2>2. CASE line # None
    BY <2>2, Ranges DEF Inv, TypeOK, NotWelcomed, Disconnect, Exit, server, data, input
  <2>. QED  BY <2>1, <2>2
<1>2. OneOpen' /\ Calling' /\ OfflineIsTold'
  BY Ranges
  DEF Inv, OneOpen, Calling, OfflineIsTold, Kind, Interactive, TypeOK, Remote, LocalCommands,
      Fresh, NotWelcomed, Disconnect, Exit, server, data, input
<1>3. Ahead' /\ OwnReply' /\ NotAgain'
  BY Ranges
  DEF Inv, Ahead, OwnReply, NotAgain, TypeOK, NoReply, Calling, Kind, Interactive, NotWelcomed,
      Disconnect, Exit, server, data, input
<1>4. EndsOnError' /\ Accounted'
  BY Ranges
  DEF Inv, EndsOnError, Accounted, Done, Errors, Interactive, TypeOK, Ahead, OwnReply, NotAgain,
      Calling, Kind, NoReply, NotWelcomed, Disconnect, Exit, server, data, input
<1>. QED  BY <1>1, <1>2, <1>3, <1>4 DEF Inv

-----------------------------------------------------------------------------
(* Lines of a script, and commands of the shell that go to the server. *)

LEMMA RequestInv ==
  ASSUME NEW k \in Remote, Inv, Request(k)
  PROVE  Inv'
<1>0. /\ line' = line + 1 /\ line + 1 \in Lines /\ line + 1 # None /\ pc = "next"
      /\ kinds' \in [Lines -> AllKinds] /\ kinds' = [kinds EXCEPT ![line + 1] = k]
  BY TakesLine DEF Request, Inv, AllKinds, Remote, LocalCommands
<1>1. TypeOK'
  BY <1>0, Ranges
  DEF Inv, TypeOK, Remote, LocalCommands, Calling, Kind, Fresh, AllKinds, NoReply, Request, server,
      shown, data
<1>2. OneOpen' /\ Calling' /\ OfflineIsTold'
  BY <1>0, Ranges
  DEF Inv, OneOpen, Calling, OfflineIsTold, Kind, Interactive, TypeOK, Remote, LocalCommands,
      Fresh, Request, server, shown, data
<1>3. Ahead' /\ OwnReply' /\ NotAgain'
  BY <1>0, Ranges
  DEF Inv, Ahead, OwnReply, NotAgain, TypeOK, NoReply, Calling, Kind, Interactive, Request, server,
      shown, data
<1>4. EndsOnError' /\ Accounted'
  BY <1>0, Ranges
  DEF Inv, EndsOnError, Accounted, Done, Errors, Interactive, TypeOK, Ahead, OwnReply, NotAgain,
      Calling, Kind, NoReply, Request, server, shown, data
<1>. QED  BY <1>1, <1>2, <1>3, <1>4 DEF Inv

LEMMA RequestFailsInv ==
  ASSUME NEW k \in Remote, Inv, RequestFails(k)
  PROVE  Inv'
<1>0. /\ line' = line + 1 /\ line + 1 \in Lines /\ line + 1 # None /\ pc = "next"
      /\ kinds' \in [Lines -> AllKinds] /\ kinds' = [kinds EXCEPT ![line + 1] = k]
  BY TakesLine DEF RequestFails, Inv, AllKinds, Remote, LocalCommands
<1>1. TypeOK'
  BY <1>0, Ranges
  DEF Inv, TypeOK, Remote, LocalCommands, Calling, Kind, Fresh, AllKinds, RequestFails, AfterError,
      AfterLoss, Hint, Exit, server, data
<1>2. OneOpen' /\ Calling' /\ OfflineIsTold'
  BY <1>0, Ranges
  DEF Inv, OneOpen, Calling, OfflineIsTold, Kind, Interactive, TypeOK, Remote, LocalCommands,
      Fresh, RequestFails, AfterError, AfterLoss, Hint, Exit, server, data
<1>3. Ahead' /\ OwnReply' /\ NotAgain'
  BY <1>0, Ranges
  DEF Inv, Ahead, OwnReply, NotAgain, TypeOK, NoReply, Calling, Kind, Interactive, RequestFails,
      AfterError, AfterLoss, Hint, Exit, server, data
<1>4. EndsOnError'
  BY <1>0, Ranges
  DEF Inv, EndsOnError, Accounted, Done, Errors, Interactive, TypeOK, Ahead, OwnReply, NotAgain,
      Calling, Kind, NoReply, RequestFails, AfterError, AfterLoss, Hint, Exit, server, data
<1>5. Accounted'
  BY <1>0, Ranges
  DEF Inv, EndsOnError, Accounted, Done, Errors, Interactive, TypeOK, Ahead, OwnReply, NotAgain,
      Calling, Kind, NoReply, RequestFails, AfterError, AfterLoss, Hint, Exit, server, data
<1>. QED  BY <1>1, <1>2, <1>3, <1>4, <1>5 DEF Inv

LEMMA SkipInv ==
  ASSUME Inv, Skip
  PROVE  Inv'
<1>0. /\ line' = line + 1 /\ line + 1 \in Lines /\ line + 1 # None /\ pc = "next"
      /\ kinds' \in [Lines -> AllKinds] /\ kinds' = [kinds EXCEPT ![line + 1] = "ignored"]
  BY TakesLine DEF Skip, Inv, AllKinds, Remote, LocalCommands
<1>1. TypeOK'
  BY <1>0, Ranges
  DEF Inv, TypeOK, Remote, LocalCommands, Calling, Kind, Fresh, AllKinds, Skip, net, server, data
<1>2. OneOpen' /\ Calling' /\ OfflineIsTold'
  BY <1>0, Ranges
  DEF Inv, OneOpen, Calling, OfflineIsTold, Kind, Interactive, TypeOK, Remote, LocalCommands,
      Fresh, Skip, net, server, data
<1>3. Ahead' /\ OwnReply' /\ NotAgain'
  BY <1>0, Ranges
  DEF Inv, Ahead, OwnReply, NotAgain, TypeOK, NoReply, Calling, Kind, Interactive, Skip, net,
      server, data
<1>4. EndsOnError' /\ Accounted'
  <2>1. /\ UNCHANGED <<opts, pc, executed, code>>
        /\ outcome' = [outcome EXCEPT ![line + 1] = "skipped"]
    BY DEF Skip, server
  <2>2. Errors' = Errors
    BY <1>0, <2>1, Ranges DEF Inv, TypeOK, Ahead, Errors
  <2>3. EndsOnError'
    BY <1>0, <2>1, <2>2 DEF Inv, EndsOnError, Interactive
  <2>4. Accounted'
    BY <1>0, <2>1, <2>2, Ranges DEF Inv, TypeOK, Accounted, Done, Interactive
  <2>. QED  BY <2>3, <2>4
<1>. QED  BY <1>1, <1>2, <1>3, <1>4 DEF Inv

LEMMA UsageInv ==
  ASSUME Inv, Usage
  PROVE  Inv'
<1>0. /\ line' = line + 1 /\ line + 1 \in Lines /\ line + 1 # None /\ pc = "next"
      /\ kinds' \in [Lines -> AllKinds] /\ kinds' = [kinds EXCEPT ![line + 1] = "usage"]
  BY TakesLine DEF Usage, Inv, AllKinds, Remote, LocalCommands
<1>1. TypeOK'
  BY <1>0, Ranges
  DEF Inv, TypeOK, Remote, LocalCommands, Calling, Kind, Fresh, AllKinds, Usage, Hint, net, server,
      data
<1>2. OneOpen' /\ Calling' /\ OfflineIsTold'
  BY <1>0, Ranges
  DEF Inv, OneOpen, Calling, OfflineIsTold, Kind, Interactive, TypeOK, Remote, LocalCommands,
      Fresh, Usage, Hint, net, server, data
<1>3. Ahead' /\ OwnReply' /\ NotAgain'
  BY <1>0, Ranges
  DEF Inv, Ahead, OwnReply, NotAgain, TypeOK, NoReply, Calling, Kind, Interactive, Usage, Hint,
      net, server, data
<1>4. EndsOnError' /\ Accounted'
  BY <1>0, Ranges
  DEF Inv, EndsOnError, Accounted, Done, Errors, Interactive, TypeOK, Ahead, OwnReply, NotAgain,
      Calling, Kind, NoReply, Usage, Hint, net, server, data
<1>. QED  BY <1>1, <1>2, <1>3, <1>4 DEF Inv

LEMMA ReadFailsInv ==
  ASSUME Inv, ReadFails
  PROVE  Inv'
<1>1. TypeOK'
  BY Ranges
  DEF Inv, TypeOK, Remote, LocalCommands, Calling, Kind, Fresh, ReadFails, Exit, server, shown,
      data, input
<1>2. OneOpen' /\ Calling' /\ OfflineIsTold'
  BY Ranges
  DEF Inv, OneOpen, Calling, OfflineIsTold, Kind, Interactive, TypeOK, Remote, LocalCommands,
      Fresh, ReadFails, Exit, server, shown, data, input
<1>3. Ahead' /\ OwnReply' /\ NotAgain'
  BY Ranges
  DEF Inv, Ahead, OwnReply, NotAgain, TypeOK, NoReply, Calling, Kind, Interactive, ReadFails, Exit,
      server, shown, data, input
<1>4. EndsOnError' /\ Accounted'
  BY Ranges
  DEF Inv, EndsOnError, Accounted, Done, Errors, Interactive, TypeOK, Ahead, OwnReply, NotAgain,
      Calling, Kind, NoReply, ReadFails, Exit, server, shown, data, input
<1>. QED  BY <1>1, <1>2, <1>3, <1>4 DEF Inv

LEMMA EndInv ==
  ASSUME Inv, End
  PROVE  Inv'
<1>1. TypeOK'
  BY Ranges
  DEF Inv, TypeOK, Remote, LocalCommands, Calling, Kind, Fresh, End, Exit, server, shown, data,
      input
<1>2. OneOpen' /\ Calling' /\ OfflineIsTold'
  BY Ranges
  DEF Inv, OneOpen, Calling, OfflineIsTold, Kind, Interactive, TypeOK, Remote, LocalCommands,
      Fresh, End, Exit, server, shown, data, input
<1>3. Ahead' /\ OwnReply' /\ NotAgain'
  BY Ranges
  DEF Inv, Ahead, OwnReply, NotAgain, TypeOK, NoReply, Calling, Kind, Interactive, End, Exit,
      server, shown, data, input
<1>4. EndsOnError' /\ Accounted'
  BY Ranges
  DEF Inv, EndsOnError, Accounted, Done, Errors, Interactive, TypeOK, Ahead, OwnReply, NotAgain,
      Calling, Kind, NoReply, End, Exit, server, shown, data, input
<1>. QED  BY <1>1, <1>2, <1>3, <1>4 DEF Inv

-----------------------------------------------------------------------------
(* The reply, its absence, and Ctrl+C. *)

LEMMA AnsweredInv ==
  ASSUME Inv, Answered
  PROVE  Inv'
<1>1. TypeOK'
  <2>1. /\ UNCHANGED <<opts, line, kinds, theirs, request, reply, up, executed, spectrum, saved>>
        /\ pc' \in {"got", "exit", "next"} /\ client' \in {client, None}
    BY DEF Answered, AfterError, Exit, input, server, data
  <2>2. line \in Lines
    BY Ranges DEF Answered, Inv, TypeOK, Calling
  <2>3. /\ outcome' \in [Lines -> {"none", "ok", "error", "cancelled", "skipped"}]
        /\ told' \in BOOLEAN
    BY <2>2 DEF Answered, Hint, Inv, TypeOK
  <2>4. /\ mine' \in [Conns -> {"none", "open", "closed"}] /\ code' \in {0, 1}
        /\ pc' # "exit" => mine' = mine
    BY DEF Answered, AfterError, Exit, Inv, TypeOK
  <2>. QED  BY <2>1, <2>3, <2>4 DEF Inv, TypeOK, Answered
<1>2. OneOpen' /\ Calling' /\ OfflineIsTold'
  BY Ranges
  DEF Inv, OneOpen, Calling, OfflineIsTold, Kind, Interactive, TypeOK, Remote, LocalCommands,
      Fresh, Answered, AfterError, Hint, Exit, server, data, input
<1>3. Ahead' /\ OwnReply' /\ NotAgain'
  BY Ranges
  DEF Inv, Ahead, OwnReply, NotAgain, TypeOK, NoReply, Calling, Kind, Interactive, Answered,
      AfterError, Hint, Exit, server, data, input
<1>4. EndsOnError' /\ Accounted'
  BY Ranges
  DEF Inv, EndsOnError, Accounted, Done, Errors, Interactive, TypeOK, Ahead, OwnReply, NotAgain,
      Calling, Kind, NoReply, Answered, AfterError, Hint, Exit, server, data, input
<1>. QED  BY <1>1, <1>2, <1>3, <1>4 DEF Inv

LEMMA LostInv ==
  ASSUME Inv, Lost
  PROVE  Inv'
<1>1. TypeOK'
  BY Ranges
  DEF Inv, TypeOK, Remote, LocalCommands, Calling, Kind, Fresh, Lost, AfterLoss, Hint, Exit,
      server, data, input
<1>2. OneOpen' /\ Calling' /\ OfflineIsTold'
  BY Ranges
  DEF Inv, OneOpen, Calling, OfflineIsTold, Kind, Interactive, TypeOK, Remote, LocalCommands,
      Fresh, Lost, AfterLoss, Hint, Exit, server, data, input
<1>3. Ahead' /\ OwnReply' /\ NotAgain'
  BY Ranges
  DEF Inv, Ahead, OwnReply, NotAgain, TypeOK, NoReply, Calling, Kind, Interactive, Lost, AfterLoss,
      Hint, Exit, server, data, input
<1>4. EndsOnError' /\ Accounted'
  BY Ranges
  DEF Inv, EndsOnError, Accounted, Done, Errors, Interactive, TypeOK, Ahead, OwnReply, NotAgain,
      Calling, Kind, NoReply, Lost, AfterLoss, Hint, Exit, server, data, input
<1>. QED  BY <1>1, <1>2, <1>3, <1>4 DEF Inv

LEMMA ShutdownUnsentInv ==
  ASSUME Inv, ShutdownUnsent
  PROVE  Inv'
<1>0. /\ line' = line + 1 /\ line + 1 \in Lines /\ line + 1 # None /\ pc = "next"
      /\ kinds' \in [Lines -> AllKinds] /\ kinds' = [kinds EXCEPT ![line + 1] = "shutdown"]
  BY TakesLine DEF ShutdownUnsent, Inv, AllKinds, Remote, LocalCommands
<1>1. TypeOK'
  BY <1>0, Ranges
  DEF Inv, TypeOK, Remote, LocalCommands, Calling, Kind, Fresh, AllKinds, ShutdownUnsent, Exit,
      server, data
<1>2. OneOpen' /\ Calling' /\ OfflineIsTold'
  BY <1>0, Ranges
  DEF Inv, OneOpen, Calling, OfflineIsTold, Kind, Interactive, TypeOK, Remote, LocalCommands,
      Fresh, ShutdownUnsent, Exit, server, data
<1>3. Ahead' /\ OwnReply' /\ NotAgain'
  BY <1>0, Ranges
  DEF Inv, Ahead, OwnReply, NotAgain, TypeOK, NoReply, Calling, Kind, Interactive, ShutdownUnsent,
      Exit, server, data
<1>4. EndsOnError' /\ Accounted'
  BY <1>0, Ranges
  DEF Inv, EndsOnError, Accounted, Done, Errors, Interactive, TypeOK, Ahead, OwnReply, NotAgain,
      Calling, Kind, NoReply, ShutdownUnsent, Exit, server, data
<1>. QED  BY <1>1, <1>2, <1>3, <1>4 DEF Inv

LEMMA StoreInv ==
  ASSUME Inv, Store
  PROVE  Inv'
<1>1. TypeOK'
  BY Ranges DEF Inv, TypeOK, Remote, LocalCommands, Calling, Kind, Fresh, Store, net, server, input
<1>2. OneOpen' /\ Calling' /\ OfflineIsTold'
  BY Ranges
  DEF Inv, OneOpen, Calling, OfflineIsTold, Kind, Interactive, TypeOK, Remote, LocalCommands,
      Fresh, Store, net, server, input
<1>3. Ahead' /\ OwnReply' /\ NotAgain'
  BY Ranges
  DEF Inv, Ahead, OwnReply, NotAgain, TypeOK, NoReply, Calling, Kind, Interactive, Store, net,
      server, input
<1>4. EndsOnError' /\ Accounted'
  BY Ranges
  DEF Inv, EndsOnError, Accounted, Done, Errors, Interactive, TypeOK, Ahead, OwnReply, NotAgain,
      Calling, Kind, NoReply, Store, net, server, input
<1>. QED  BY <1>1, <1>2, <1>3, <1>4 DEF Inv

LEMMA CancelInv ==
  ASSUME Inv, Cancel
  PROVE  Inv'
<1>1. TypeOK'
  BY Ranges
  DEF Inv, TypeOK, Remote, LocalCommands, Calling, Kind, Fresh, Cancel, Disconnect, Hint, server,
      input
<1>2. OneOpen' /\ Calling' /\ OfflineIsTold'
  BY Ranges
  DEF Inv, OneOpen, Calling, OfflineIsTold, Kind, Interactive, TypeOK, Remote, LocalCommands,
      Fresh, Cancel, Disconnect, Hint, server, input
<1>3. Ahead' /\ OwnReply' /\ NotAgain'
  BY Ranges
  DEF Inv, Ahead, OwnReply, NotAgain, TypeOK, NoReply, Calling, Kind, Interactive, Cancel,
      Disconnect, Hint, server, input
<1>4. EndsOnError' /\ Accounted'
  BY Ranges
  DEF Inv, EndsOnError, Accounted, Done, Errors, Interactive, TypeOK, Ahead, OwnReply, NotAgain,
      Calling, Kind, NoReply, Cancel, Disconnect, Hint, server, input
<1>. QED  BY <1>1, <1>2, <1>3, <1>4 DEF Inv

LEMMA InterruptInv ==
  ASSUME Inv, Interrupt
  PROVE  Inv'
<1>1. TypeOK'
  BY Ranges
  DEF Inv, TypeOK, Remote, LocalCommands, Calling, Kind, Fresh, Interrupt, Exit, server, shown,
      data, input
<1>2. OneOpen' /\ Calling' /\ OfflineIsTold'
  BY Ranges
  DEF Inv, OneOpen, Calling, OfflineIsTold, Kind, Interactive, TypeOK, Remote, LocalCommands,
      Fresh, Interrupt, Exit, server, shown, data, input
<1>3. Ahead' /\ OwnReply' /\ NotAgain'
  BY Ranges
  DEF Inv, Ahead, OwnReply, NotAgain, TypeOK, NoReply, Calling, Kind, Interactive, Interrupt, Exit,
      server, shown, data, input
<1>4. EndsOnError' /\ Accounted'
  BY Ranges
  DEF Inv, EndsOnError, Accounted, Done, Errors, Interactive, TypeOK, Ahead, OwnReply, NotAgain,
      Calling, Kind, NoReply, Interrupt, Exit, server, shown, data, input
<1>. QED  BY <1>1, <1>2, <1>3, <1>4 DEF Inv

-----------------------------------------------------------------------------
(* Commands of the shell itself. *)

LEMMA DoConnectInv ==
  ASSUME Inv, DoConnect
  PROVE  Inv'
<1>0. /\ line' = line + 1 /\ line + 1 \in Lines /\ line + 1 # None /\ pc = "next"
      /\ kinds' \in [Lines -> AllKinds] /\ kinds' = [kinds EXCEPT ![line + 1] = "connect"]
  BY TakesLine DEF DoConnect, Inv, AllKinds, Remote, LocalCommands
<1>1. TypeOK'
  <2>1. /\ UNCHANGED <<opts, request, reply, up, executed, spectrum, saved, code>>
        /\ outcome' \in [Lines -> {"none", "ok", "error", "cancelled", "skipped"}]
    BY <1>0 DEF DoConnect, server, data, Inv, TypeOK
  <2>2. CASE Open
    BY <1>0, <2>1, <2>2, Ranges
    DEF Inv, TypeOK, Fresh, AllKinds, DoConnect, Open, Disconnect, server, data
  <2>3. CASE Disconnect /\ pc' = "next" /\ told' = TRUE /\ UNCHANGED theirs
    BY <1>0, <2>1, <2>3, Ranges DEF Inv, TypeOK, AllKinds, DoConnect, Open, Disconnect, server, data
  <2>. QED  BY <2>2, <2>3 DEF DoConnect
<1>2. OneOpen' /\ Calling' /\ OfflineIsTold'
  BY <1>0, Ranges
  DEF Inv, OneOpen, Calling, OfflineIsTold, Kind, Interactive, TypeOK, Remote, LocalCommands,
      Fresh, DoConnect, Open, Disconnect, server, data
<1>3. Ahead' /\ OwnReply' /\ NotAgain'
  BY <1>0, Ranges
  DEF Inv, Ahead, OwnReply, NotAgain, TypeOK, NoReply, Calling, Kind, Interactive, DoConnect, Open,
      Disconnect, server, data
<1>4. EndsOnError' /\ Accounted'
  BY <1>0, Ranges
  DEF Inv, EndsOnError, Accounted, Done, Errors, Interactive, TypeOK, Ahead, OwnReply, NotAgain,
      Calling, Kind, NoReply, DoConnect, Open, Disconnect, server, data
<1>. QED  BY <1>1, <1>2, <1>3, <1>4 DEF Inv

LEMMA BadPortInv ==
  ASSUME Inv, BadPort
  PROVE  Inv'
<1>0. /\ line' = line + 1 /\ line + 1 \in Lines /\ line + 1 # None /\ pc = "next"
      /\ kinds' \in [Lines -> AllKinds] /\ kinds' = [kinds EXCEPT ![line + 1] = "badPort"]
  BY TakesLine DEF BadPort, Inv, AllKinds, Remote, LocalCommands
<1>1. TypeOK'
  BY <1>0, Ranges
  DEF Inv, TypeOK, Remote, LocalCommands, Calling, Kind, Fresh, AllKinds, BadPort, net, server, data
<1>2. OneOpen' /\ Calling' /\ OfflineIsTold'
  BY <1>0, Ranges
  DEF Inv, OneOpen, Calling, OfflineIsTold, Kind, Interactive, TypeOK, Remote, LocalCommands,
      Fresh, BadPort, net, server, data
<1>3. Ahead' /\ OwnReply' /\ NotAgain'
  BY <1>0, Ranges
  DEF Inv, Ahead, OwnReply, NotAgain, TypeOK, NoReply, Calling, Kind, Interactive, BadPort, net,
      server, data
<1>4. EndsOnError' /\ Accounted'
  BY <1>0, Ranges
  DEF Inv, EndsOnError, Accounted, Done, Errors, Interactive, TypeOK, Ahead, OwnReply, NotAgain,
      Calling, Kind, NoReply, BadPort, net, server, data
<1>. QED  BY <1>1, <1>2, <1>3, <1>4 DEF Inv

LEMMA DataSaveInv ==
  ASSUME Inv, DataSave
  PROVE  Inv'
<1>0. /\ line' = line + 1 /\ line + 1 \in Lines /\ line + 1 # None /\ pc = "next"
      /\ kinds' \in [Lines -> AllKinds] /\ kinds' = [kinds EXCEPT ![line + 1] = "save"]
  BY TakesLine DEF DataSave, Inv, AllKinds, Remote, LocalCommands
<1>1. TypeOK'
  BY <1>0, Ranges
  DEF Inv, TypeOK, Remote, LocalCommands, Calling, Kind, Fresh, AllKinds, DataSave, net, server
<1>2. OneOpen' /\ Calling' /\ OfflineIsTold'
  BY <1>0, Ranges
  DEF Inv, OneOpen, Calling, OfflineIsTold, Kind, Interactive, TypeOK, Remote, LocalCommands,
      Fresh, DataSave, net, server
<1>3. Ahead' /\ OwnReply' /\ NotAgain'
  BY <1>0, Ranges
  DEF Inv, Ahead, OwnReply, NotAgain, TypeOK, NoReply, Calling, Kind, Interactive, DataSave, net,
      server
<1>4. EndsOnError' /\ Accounted'
  BY <1>0, Ranges
  DEF Inv, EndsOnError, Accounted, Done, Errors, Interactive, TypeOK, Ahead, OwnReply, NotAgain,
      Calling, Kind, NoReply, DataSave, net, server
<1>. QED  BY <1>1, <1>2, <1>3, <1>4 DEF Inv

LEMMA QuitInv ==
  ASSUME Inv, Quit
  PROVE  Inv'
<1>0. /\ line' = line + 1 /\ line + 1 \in Lines /\ line + 1 # None /\ pc = "next"
      /\ kinds' \in [Lines -> AllKinds] /\ kinds' = [kinds EXCEPT ![line + 1] = "quit"]
  BY TakesLine DEF Quit, Inv, AllKinds, Remote, LocalCommands
<1>1. TypeOK'
  BY <1>0, Ranges
  DEF Inv, TypeOK, Remote, LocalCommands, Calling, Kind, Fresh, AllKinds, Quit, Exit, server, data
<1>2. OneOpen' /\ Calling' /\ OfflineIsTold'
  BY <1>0, Ranges
  DEF Inv, OneOpen, Calling, OfflineIsTold, Kind, Interactive, TypeOK, Remote, LocalCommands,
      Fresh, Quit, Exit, server, data
<1>3. Ahead' /\ OwnReply' /\ NotAgain'
  BY <1>0, Ranges
  DEF Inv, Ahead, OwnReply, NotAgain, TypeOK, NoReply, Calling, Kind, Interactive, Quit, Exit,
      server, data
<1>4. EndsOnError' /\ Accounted'
  BY <1>0, Ranges
  DEF Inv, EndsOnError, Accounted, Done, Errors, Interactive, TypeOK, Ahead, OwnReply, NotAgain,
      Calling, Kind, NoReply, Quit, Exit, server, data
<1>. QED  BY <1>1, <1>2, <1>3, <1>4 DEF Inv
-----------------------------------------------------------------------------
(* The theorems. *)

LEMMA StepInv == Inv /\ [Next]_vars => Inv'
<1>. SUFFICES ASSUME Inv, [Next]_vars PROVE Inv'
  OBVIOUS
<1>1. CASE UNCHANGED vars
  BY <1>1
  DEF vars, input, net, server, shown, data, Inv, TypeOK, OneOpen, Calling, OfflineIsTold, Ahead,
      OwnReply, NotAgain, EndsOnError, Accounted, Errors, Done, Interactive, Kind, NoReply
<1>2. CASE Server
  BY <1>2, AcceptInv, DropInv, ExecuteInv, ServerStopsInv DEF Server
<1>3. CASE Returns
  BY <1>3, WelcomedInv, NotWelcomedInv, AnsweredInv, LostInv, StoreInv DEF Returns
<1>4. CASE User
  BY <1>4, StartInv, ReadFailsInv, EndInv, ShutdownUnsentInv, CancelInv, InterruptInv,
     DoConnectInv, BadPortInv, DataSaveInv, QuitInv, SkipInv, UsageInv, RequestInv, RequestFailsInv
  DEF User
<1>. QED  BY <1>1, <1>2, <1>3, <1>4 DEF Next

\* The type invariant, with the end of a client that is connected open.
THEOREM TypeCorrect == Spec => []TypeOK
<1>1. Inv => TypeOK
  BY DEF Inv
<1>. QED  BY <1>1, InitInv, StepInv, PTL DEF Spec

\* The shell never waits in the backlog behind a connection of its own, and
\* at its prompt has said that it has none when it has none.
THEOREM ConnectionAlwaysSound == Spec => []ConnectionIsSound
<1>1. Inv => ConnectionIsSound
  BY DEF Inv, OneOpen, Calling, ConnectionIsSound, NeverBehindItself
<1>. QED  BY <1>1, InitInv, StepInv, PTL DEF Spec

\* A script that stops on errors has no line after the first one that failed
\* executed, by a reply that came late or a request still on its way neither.
THEOREM AlwaysStopsOnError == Spec => []StopsOnError
<1>1. Inv => StopsOnError
  BY DEF Inv, Ahead, EndsOnError, StopsOnError, Errors
<1>. QED  BY <1>1, InitInv, StepInv, PTL DEF Spec

\* Exit code 0 means that every line was carried out and answered with OK.
THEOREM ExitZeroAlwaysMeansAllDone == Spec => []ExitZeroMeansAllDone
<1>1. Inv => ExitZeroMeansAllDone
  <2>. SUFFICES ASSUME Inv, pc = "exit", ~Interactive, code = 0, NEW l \in 1 .. line
                PROVE  outcome[l] = "skipped" \/ (outcome[l] = "ok" /\ executed[l] = "ok")
    BY DEF ExitZeroMeansAllDone
  <2>1. l \in Lines /\ l <= line
    BY ShellAssumption DEF Inv, TypeOK, Lines, None, ShellAssumption
  <2>2. Done(l) /\ l \notin Errors
    BY <2>1 DEF Inv, Accounted
  <2>. QED  BY <2>1, <2>2 DEF Done, Errors
<1>. QED  BY <1>1, InitInv, StepInv, PTL DEF Spec

-----------------------------------------------------------------------------
(* The spectrum the shell keeps. *)

\* Shown as done, or cancelled when it was whole; nothing on its way would have
\* the server execute its line once more.
Whole(l) ==
  /\ executed[l] = "ok" /\ outcome[l] \in {"ok", "cancelled"}
  /\ \A i \in Conns : request[i] # l

\* The spectrum kept is of the last measurement shown as done, or of a later
\* one; the one being taken over is whole, and its line still open.
Kept ==
  /\ pc \in {"wait", "got"} => outcome[line] = "none"
  /\ pc = "got" => executed[line] = "ok" /\ \A i \in Conns : request[i] # line
  /\ spectrum # None =>
       /\ spectrum <= line /\ Whole(spectrum)
       /\ \A l \in Lines : l > spectrum => ~(kinds[l] = "measure" /\ outcome[l] = "ok")

\* A step that takes no line and shows nothing.
LEMMA KeptStays ==
  ASSUME Inv, Kept, UNCHANGED <<line, kinds, executed, outcome, request, spectrum>>,
         pc' \in {"wait", "got"} => pc' = pc
  PROVE  Kept'
BY DEF Kept, Whole

\* A step that takes a line, shows something of it, and does not ask the server.
LEMMA KeptTakes ==
  ASSUME Inv, Kept, NEW k \in AllKinds, Take(k), NEW o,
         outcome' = [outcome EXCEPT ![line + 1] = o], ~(k = "measure" /\ o = "ok"),
         UNCHANGED <<executed, request, spectrum>>, pc' \notin {"wait", "got"}
  PROVE  Kept'
<1>1. /\ line' = line + 1 /\ line + 1 \in Lines /\ line \in Nat
      /\ kinds' = [kinds EXCEPT ![line + 1] = k]
  BY TakesLine, Ranges DEF Inv
<1>2. spectrum # None => spectrum \in Lines /\ spectrum \in Nat
  BY Ranges DEF Inv, TypeOK
<1>. QED  BY <1>1, <1>2, Ranges DEF Kept, Whole, Inv, TypeOK

\* A step that ends the current line, with no spectrum taken over.
LEMMA KeptEnds ==
  ASSUME Inv, Kept, pc \in {"wait", "got"}, NEW o,
         outcome' = [outcome EXCEPT ![line] = o], Kind = "measure" => o # "ok",
         UNCHANGED <<line, kinds, executed, request, spectrum>>, pc' \notin {"wait", "got"}
  PROVE  Kept'
<1>1. line \in Lines /\ line # None /\ kinds[line] = Kind
  BY Ranges DEF Inv, Calling, Kind, TypeOK
<1>2. spectrum # None => spectrum # line
  BY DEF Kept, Whole
<1>. QED  BY <1>1, <1>2 DEF Kept, Whole, Inv, TypeOK

\* A step that ends the current line with its spectrum taken over.
LEMMA KeptTaken ==
  ASSUME Inv, Kept, pc = "got", NEW o \in {"ok", "cancelled"},
         outcome' = [outcome EXCEPT ![line] = o], spectrum' = line,
         UNCHANGED <<line, kinds, executed, request>>, pc' \notin {"wait", "got"}
  PROVE  Kept'
<1>1. line \in Lines /\ line # None /\ line \in Nat /\ Lines \subseteq Nat
  BY Ranges DEF Inv, Calling, TypeOK
<1>2. \A l \in Lines : l > line => outcome[l] = "none" /\ l # line
  BY <1>1 DEF Inv, Ahead
<1>. QED  BY <1>1, <1>2 DEF Kept, Whole, Inv, TypeOK

LEMMA KeptServer ==
  ASSUME Inv, Kept, Server
  PROVE  Kept'
<1>1. ASSUME NEW i \in Conns, Accept(i) \/ Drop(i)
      PROVE  Kept'
  BY <1>1, KeptStays DEF Accept, Drop, server, shown, data, input
<1>2. ASSUME NEW i \in Conns, NEW ok \in BOOLEAN, Execute(i, ok)
      PROVE  Kept'
  <2>1. /\ request[i] \in Lines /\ request[i] # None
        /\ executed' = [executed EXCEPT ![request[i]] = IF ok THEN "ok" ELSE "err"]
        /\ request' = [request EXCEPT ![i] = None]
        /\ UNCHANGED <<pc, line, kinds, outcome, spectrum>>
    BY <1>2 DEF Execute, shown, data, input, Inv, TypeOK
  <2>2. pc = "got" => line \in Lines /\ line # None /\ request[i] # line
    BY Ranges DEF Inv, Calling, Kept, TypeOK
  <2>3. spectrum # None => spectrum \in Lines /\ request[i] # spectrum
    BY DEF Kept, Whole, Inv, TypeOK
  <2>. QED  BY <2>1, <2>2, <2>3 DEF Kept, Whole, Inv, TypeOK
<1>3. CASE ServerStops
  BY <1>3, KeptStays DEF ServerStops, shown, data, input
<1>. QED  BY <1>1, <1>2, <1>3 DEF Server

LEMMA KeptReturns ==
  ASSUME Inv, Kept, Returns
  PROVE  Kept'
<1>1. CASE Welcomed \/ NotWelcomed
  BY <1>1, KeptStays DEF Welcomed, NotWelcomed, Exit, input, net, server, data
<1>2. CASE Answered
  <2>1. UNCHANGED <<line, kinds, executed, request, spectrum>> /\ pc = "wait"
    BY <1>2 DEF Answered, input, server, data
  <2>2. CASE Kind = "measure" /\ reply[client].ok
    <3>1. pc' = "got" /\ outcome' = outcome
      BY <1>2, <2>2 DEF Answered
    <3>2. executed[line] = "ok" /\ \A i \in Conns : request[i] # line
      <4>1. line # None /\ client \in Conns
        BY <2>1 DEF Inv, Calling, TypeOK
      <4>2. reply[client].line # None /\ NoReply.line = None
        BY <1>2 DEF Answered, NoReply
      <4>. QED  BY <2>1, <2>2, <4>1, <4>2 DEF Inv, OwnReply
    <3>. QED  BY <2>1, <3>1, <3>2 DEF Kept, Whole
  <2>3. CASE ~(Kind = "measure" /\ reply[client].ok)
    <3>1. PICK o \in {"ok", "error"} :
            /\ outcome' = [outcome EXCEPT ![line] = o]
            /\ Kind = "measure" => o # "ok"
      BY <1>2, <2>3 DEF Answered
    <3>2. pc' \in {"next", "exit"}
      BY <1>2, <2>3 DEF Answered, AfterError, Exit
    <3>. QED  BY <2>1, <3>1, <3>2, KeptEnds
  <2>. QED  BY <2>2, <2>3
<1>3. CASE Lost
  <2>1. UNCHANGED <<line, kinds, executed, request, spectrum>> /\ pc = "wait"
    BY <1>3 DEF Lost, input, server, data
  <2>2. PICK o \in {"ok", "error"} :
          /\ outcome' = [outcome EXCEPT ![line] = o]
          /\ Kind = "measure" => o # "ok"
    BY <1>3 DEF Lost
  <2>3. pc' \in {"next", "exit"}
    BY <1>3 DEF Lost, AfterLoss, Exit
  <2>. QED  BY <2>1, <2>2, <2>3, KeptEnds
<1>4. CASE Store
  BY <1>4, KeptTaken DEF Store, input, net, server
<1>. QED  BY <1>1, <1>2, <1>3, <1>4 DEF Returns

LEMMA KeptUser ==
  ASSUME Inv, Kept, User
  PROVE  Kept'
<1>. {"shutdown", "connect", "badPort", "save", "quit", "ignored", "usage"} \subseteq AllKinds
     /\ Remote \subseteq AllKinds
  BY DEF AllKinds, Remote, LocalCommands
<1>1. CASE Start \/ ReadFails \/ End \/ Interrupt
  BY <1>1, KeptStays
  DEF Start, Open, ReadFails, End, Interrupt, Exit, input, server, shown, data
<1>2. CASE ShutdownUnsent
  BY <1>2, KeptTakes DEF ShutdownUnsent, Exit, server, data
<1>3. CASE Cancel
  <2>1. /\ UNCHANGED <<line, kinds, executed, request>> /\ pc \in {"wait", "got"}
        /\ outcome' = [outcome EXCEPT ![line] = "cancelled"] /\ pc' = "next"
        /\ spectrum' = spectrum \/ (pc = "got" /\ spectrum' = line)
    BY <1>3 DEF Cancel, input, server
  <2>. QED  BY <2>1, KeptEnds, KeptTaken
<1>4. CASE DoConnect
  BY <1>4, KeptTakes DEF DoConnect, Open, server, data
<1>5. CASE BadPort
  BY <1>5, KeptTakes DEF BadPort, Take, net, server, data
<1>6. CASE DataSave
  BY <1>6, KeptTakes DEF DataSave, Take, net, server
<1>7. CASE Quit
  BY <1>7, KeptTakes DEF Quit, Exit, server, data
<1>8. CASE Skip
  BY <1>8, KeptTakes DEF Skip, Take, net, server, data
<1>9. CASE Usage
  BY <1>9, KeptTakes DEF Usage, Take, net, server, data
<1>10. ASSUME NEW k \in Remote, Request(k)
       PROVE  Kept'
  <2>1. /\ line' = line + 1 /\ line + 1 \in Lines /\ line \in Nat
        /\ kinds' = [kinds EXCEPT ![line + 1] = k]
    BY <1>10, TakesLine, Ranges DEF Inv, Request
  <2>2. /\ request' = [request EXCEPT ![client] = line + 1] /\ pc' = "wait"
        /\ UNCHANGED <<executed, outcome, spectrum>>
    BY <1>10 DEF Request, server, shown, data
  <2>3. outcome[line + 1] = "none"
    BY <2>1 DEF Inv, Ahead
  <2>4. spectrum # None => spectrum \in Lines /\ spectrum \in Nat /\ spectrum <= line
    BY Ranges DEF Inv, TypeOK, Kept
  <2>. QED  BY <2>1, <2>2, <2>3, <2>4, Ranges DEF Kept, Whole, Inv, TypeOK
<1>11. ASSUME NEW k \in Remote, RequestFails(k)
       PROVE  Kept'
  <2>1. pc' \notin {"wait", "got"}
    BY <1>11 DEF RequestFails, AfterError, AfterLoss, Exit
  <2>2. /\ Take(k) /\ outcome' = [outcome EXCEPT ![line + 1] = "error"]
        /\ UNCHANGED <<executed, request, spectrum>>
    BY <1>11 DEF RequestFails, server, data
  <2>3. k \in AllKinds /\ ~(k = "measure" /\ "error" = "ok")
    OBVIOUS
  <2>. QED  BY <2>1, <2>2, <2>3, KeptTakes
<1>. QED
  BY <1>1, <1>2, <1>3, <1>4, <1>5, <1>6, <1>7, <1>8, <1>9, <1>10, <1>11 DEF User

LEMMA KeptStep == Inv /\ Kept /\ [Next]_vars => Kept'
<1>. SUFFICES ASSUME Inv, Kept, [Next]_vars PROVE Kept'
  OBVIOUS
<1>1. CASE UNCHANGED vars
  BY <1>1, KeptStays DEF vars, input, net, server, shown, data
<1>. QED  BY <1>1, KeptServer, KeptReturns, KeptUser DEF Next

\* What is saved is the kept spectrum, and only the shell's command saves.
LEMMA SavesKept ==
  ASSUME Inv, [Next]_vars, saved' # saved
  PROVE  saved' = spectrum /\ spectrum # None
<1>1. CASE Server
  BY <1>1 DEF Server, Accept, Drop, Execute, ServerStops, data
<1>2. CASE Returns
  BY <1>2 DEF Returns, Welcomed, NotWelcomed, Answered, Lost, Store, data
<1>3. CASE DataSave
  BY <1>3 DEF DataSave
<1>4. CASE User /\ ~DataSave
  BY <1>4 DEF User, Start, ReadFails, End, ShutdownUnsent, Cancel, Interrupt, DoConnect,
     BadPort, Quit, Skip, Usage, Request, RequestFails, data
<1>. QED  BY <1>1, <1>2, <1>3, <1>4 DEF Next, vars, data

\* What is saved is the last spectrum shown as done, or one whose command was
\* cancelled when it had been read: no request still on its way to the server,
\* and no line after it, has changed what it stands for.
THEOREM SavedAlwaysMeasured == Spec => SavedWasMeasured
<1>1. Init => Kept
  BY DEF Init, Kept, None
<1>2. Inv /\ Kept /\ [Next]_vars
        => [saved' # saved =>
              /\ executed[saved'] = "ok" /\ outcome[saved'] \in {"ok", "cancelled"}
              /\ \A l \in Lines :
                   l > saved' => ~(kinds[l] = "measure" /\ outcome[l] = "ok")]_vars
  BY SavesKept DEF Kept, Whole
<1>. QED
  BY <1>1, <1>2, InitInv, StepInv, KeptStep, PTL DEF Spec, SavedWasMeasured
=============================================================================
