----------------------------- MODULE GuiSession -----------------------------
(***************************************************************************)
(* The main window of the desktop GUI and its worker threads: connecting,   *)
(* the command queue, a measurement and its cancellation, the routing       *)
(* dialog as a source of commands, and the close of the window.             *)
(*                                                                          *)
(* Handlers run in the GUI thread, one at a time.  A worker posts its       *)
(* result to the event queue and then ends; clicks come from another        *)
(* source, so a click may be handled before a result posted earlier.        *)
(* Every connection has an AFMClient of its own, numbered in order.         *)
(***************************************************************************)
EXTENDS Integers, Sequences, FiniteSets

CONSTANTS
  MaxClicks,   \* bound on what the user does
  MaxClients,  \* bound on the AFMClient objects
  Users        \* the users there are

Haste ==
  {"overtake",   \* click while results wait to be handled, or threads to start
   "leave"}      \* use the connect button while a call runs

SessionAssumption ==
  /\ MaxClicks \in Nat /\ MaxClients \in Nat \ {0}
  /\ Users \subseteq [dialog : BOOLEAN, may : SUBSET Haste]

ASSUME SessionAssumption

VARIABLES
  user,     \* who uses this window
  win,      \* the fields and widgets of AFMMainWindow
  threads,  \* its worker threads that have not ended
  events,   \* results posted to the GUI thread
  link,     \* is the socket of each client open?
  clicks    \* what the user has done so far

vars == <<win, threads, events, link, clicks>>

\* Whether the routing dialog is used, and what the user is quick enough for.
Dialog == user.dialog
UserMay == user.may

Clients == 1 .. MaxClients
None == 0

Init ==
  /\ user \in Users
  /\ win = [client |-> 1, shown |-> "off", controls |-> FALSE, board |-> FALSE,
            boardFrom |-> None,          \* the client whose status gave board
            measureBtn |-> FALSE, cancelText |-> FALSE, cancelling |-> FALSE,
            worker |-> None, connectWorker |-> None, commandWorker |-> None,
            workers |-> {}, commands |-> <<>>,
            pending |-> 0, spectrum |-> 0, params |-> 0,  \* numbers of measurements
            dialog |-> FALSE, dialogClient |-> None,
            closing |-> FALSE, made |-> 0]
  /\ threads = {} /\ events = <<>> /\ clicks = 0
  /\ link = [c \in Clients |-> FALSE]

-----------------------------------------------------------------------------
(* What handlers are made of.  s is the window and its threads. *)

Now == [w |-> win, ts |-> threads]
Showing(s, w) == [w |-> w, ts |-> s.ts]
Ids(ts) == {t.id : t \in ts}
IsRunning(id) == id \in Ids(threads)
IsConnected == link[win.client]

Start(s, kind, on, job) ==
  [w |-> [s.w EXCEPT !.made = @ + 1],
   ts |-> s.ts \cup {[id |-> s.w.made + 1, kind |-> kind, on |-> on, job |-> job,
                      at |-> "new"]}]

StartNextCommand(s) ==
  IF s.w.closing \/ s.w.commandWorker # None \/ s.w.commands = <<>> THEN s
  ELSE LET n == Start(s, "command", Head(s.w.commands).on, Head(s.w.commands).job)
       IN Showing(n, [n.w EXCEPT !.commands = Tail(@), !.commandWorker = n.w.made,
                                 !.workers = (@ \cap Ids(s.ts)) \cup {n.w.made}])

\* A command of the window takes the client when it runs, one of the dialog
\* when it is issued.
RunCommand(s, job, on) ==
  StartNextCommand(Showing(s, [s.w EXCEPT !.commands = Append(@, [job |-> job, on |-> on])]))

SetControlsEnabled(w, enabled) ==
  [w EXCEPT !.controls = enabled, !.measureBtn = enabled]

\* Mutant: what the last connection knew of the board is kept.
UpdateConnectionUI_KeepsBoard(s, connected) ==
  LET w == SetControlsEnabled([s.w EXCEPT !.shown = IF connected THEN "on" ELSE "off"], connected)
  IN Showing(s,
       IF connected THEN [w EXCEPT !.dialogClient = IF w.dialog THEN w.client ELSE @]
       ELSE [w EXCEPT !.dialogClient = None, !.commands = <<>>])

UpdateConnectionUI(s, connected) ==
  LET w == SetControlsEnabled([s.w EXCEPT !.shown = IF connected THEN "on" ELSE "off"], connected)
  IN Showing(s,
       IF connected THEN [w EXCEPT !.dialogClient = IF w.dialog THEN w.client ELSE @]
       ELSE [w EXCEPT !.board = FALSE, !.dialogClient = None, !.commands = <<>>])

SyncConnectionUI(s) == IF IsConnected THEN s ELSE UpdateConnectionUI(s, FALSE)

RefreshStatus(s) == IF IsConnected THEN RunCommand(s, "status", None) ELSE s

\* RoutingSchematicDialog.refresh_state
DialogRefresh(s) ==
  IF s.w.dialogClient = None THEN s ELSE RunCommand(s, "refresh", s.w.dialogClient)

StartConnect(s) ==
  LET c == s.w.client + 1
      n == Start(Showing(s, [s.w EXCEPT !.client = c, !.shown = "connecting"]),
                 "connect", c, "connect")
  IN Showing(n, [n.w EXCEPT !.connectWorker = n.w.made])

\* A handler's effect on the window and its threads.
Becomes(s) == win' = s.w /\ threads' = s.ts

-----------------------------------------------------------------------------
(* The user *)

Calling(t) == t.at = "calling"

\* Whether the user is slow enough for this window.
MayClick ==
  /\ ~win.closing /\ clicks < MaxClicks
  /\ "overtake" \notin UserMay =>
       events = <<>> /\ \A t \in threads : Calling(t) \/ (t.kind = "connect" /\ t.at = "new")

Click == MayClick /\ clicks' = clicks + 1

\* The connect button, disabled while it says "Connecting".
OnConnect ==
  /\ Click /\ win.shown # "connecting"
  /\ "leave" \notin UserMay => \A t \in threads : ~Calling(t)
  /\ IF IsConnected
     THEN /\ link' = [link EXCEPT ![win.client] = FALSE]
          /\ Becomes(UpdateConnectionUI(Now, FALSE))
     ELSE /\ win.client + (IF win.cancelling THEN 1 ELSE 0) < MaxClients
          /\ Becomes(StartConnect(Now))
          /\ UNCHANGED link
  /\ UNCHANGED events

\* A button of the window: init, refresh, or one of the board panel, some of
\* which ask for the status as well.
OnCommand ==
  /\ Click /\ win.controls
  /\ \/ Becomes(RunCommand(Now, "init", None))
     \/ Becomes(RefreshStatus(Now))
     \/ win.board /\ Becomes(RunCommand(Now, "board", None))
     \/ win.board /\ Becomes(RefreshStatus(RunCommand(Now, "board", None)))
  /\ UNCHANGED <<events, link>>

OnOpenSchematic ==
  /\ Dialog /\ Click /\ win.controls /\ win.board /\ ~win.dialog
  /\ Becomes(DialogRefresh(
       Showing(Now, [win EXCEPT !.dialog = TRUE, !.dialogClient = win.client])))
  /\ UNCHANGED <<events, link>>

\* A click in the dialog, which stays open beside the window.
OnDialog ==
  /\ Click /\ win.dialog /\ win.dialogClient # None
  /\ \E job \in {"refresh", "route"} : Becomes(RunCommand(Now, job, win.dialogClient))
  /\ UNCHANGED <<events, link>>

\* Mutant: a measurement starts whatever is running.
OnMeasure_AtOnce ==
  /\ Click /\ win.measureBtn
  /\ ~IsRunning(win.worker)
  /\ LET n == Start(Now, "measure", win.client, "measure")
     IN Becomes(Showing(n, [n.w EXCEPT !.controls = FALSE, !.measureBtn = TRUE,
                                       !.cancelText = TRUE, !.cancelling = FALSE,
                                       !.pending = n.w.made, !.worker = n.w.made]))
  /\ UNCHANGED <<events, link>>

\* Mutant: a second click measures again.
OnMeasure_Again ==
  /\ Click /\ win.measureBtn
  /\ win.commandWorker = None /\ win.commands = <<>>
  /\ LET n == Start(Now, "measure", win.client, "measure")
     IN Becomes(Showing(n, [n.w EXCEPT !.controls = FALSE, !.measureBtn = TRUE,
                                       !.cancelText = TRUE, !.cancelling = FALSE,
                                       !.pending = n.w.made, !.worker = n.w.made]))
  /\ UNCHANGED <<events, link>>

\* Measure while no measurement is running ...
OnMeasure ==
  /\ Click /\ win.measureBtn
  /\ ~IsRunning(win.worker)
  /\ win.commandWorker = None /\ win.commands = <<>>
  /\ LET n == Start(Now, "measure", win.client, "measure")
     IN Becomes(Showing(n, [n.w EXCEPT !.controls = FALSE, !.measureBtn = TRUE,
                                       !.cancelText = TRUE, !.cancelling = FALSE,
                                       !.pending = n.w.made, !.worker = n.w.made]))
  /\ UNCHANGED <<events, link>>

\* ... and while one is.
CancelMeasurement ==
  /\ Click /\ win.measureBtn /\ win.client < MaxClients
  /\ IsRunning(win.worker)
  /\ win' = [win EXCEPT !.cancelling = TRUE, !.measureBtn = FALSE]
  /\ link' = [link EXCEPT ![win.client] = FALSE]
  /\ UNCHANGED <<threads, events>>

\* The window closes: it waits for the threads it refers to, or ends them.
CloseEvent ==
  /\ Click
  /\ win' = [win EXCEPT !.closing = TRUE]
  /\ link' = [link EXCEPT ![win.client] = FALSE]
  /\ threads' = {t \in threads : t.id \notin {win.worker, win.connectWorker} \cup win.workers}
  /\ UNCHANGED events

-----------------------------------------------------------------------------
(* The worker threads *)

At(t, at) == threads' = (threads \ {t}) \cup {[t EXCEPT !.at = at]}

Post(t, out) ==
  events' = Append(events, [kind |-> t.kind, id |-> t.id, on |-> t.on,
                            job |-> t.job, out |-> out])

\* The call takes the client and its lock; a second call is refused.
Run(t) ==
  LET u == [t EXCEPT !.on = IF t.on = None THEN win.client ELSE t.on]
  IN /\ t.at = "new" /\ t.kind # "connect"
     /\ IF \E v \in threads : Calling(v) /\ v.kind # "connect" /\ v.on = u.on
        THEN /\ threads' = (threads \ {t}) \cup {[u EXCEPT !.at = "winding"]}
             /\ Post(u, "error")
        ELSE IF link[u.on]
        THEN /\ threads' = (threads \ {t}) \cup {[u EXCEPT !.at = "calling"]}
             /\ UNCHANGED events
        ELSE /\ threads' = (threads \ {t}) \cup {[u EXCEPT !.at = "winding"]}
             /\ Post(u, "error")
     /\ UNCHANGED <<win, link, clicks>>

\* It returns: with a value, which it may have read before the connection was
\* closed, with an error, or with an error that closed the connection.
Return(t) ==
  /\ Calling(t) /\ t.kind # "connect"
  /\ At(t, "winding")
  /\ \/ Post(t, "ok") /\ UNCHANGED link
     \/ Post(t, "error") /\ link' \in {link, [link EXCEPT ![t.on] = FALSE]}
  /\ UNCHANGED <<win, clicks>>

\* connect() has a socket and waits for the welcome ...
SocketMade(t) ==
  /\ t.kind = "connect" /\ t.at = "new"
  /\ At(t, "calling")
  /\ link' = [link EXCEPT ![t.on] = TRUE]
  /\ UNCHANGED <<win, events, clicks>>

\* ... and gets it, or fails at either step.
Connected(t) ==
  /\ t.kind = "connect" /\ Calling(t)
  /\ At(t, "winding") /\ Post(t, "ok")
  /\ UNCHANGED <<win, link, clicks>>

ConnectFails(t) ==
  /\ t.kind = "connect" /\ t.at # "winding"
  /\ At(t, "winding") /\ Post(t, "error")
  /\ link' = [link EXCEPT ![t.on] = FALSE]
  /\ UNCHANGED <<win, clicks>>

\* run() is left: from here on isRunning() is false.
Ends(t) ==
  /\ t.at = "winding"
  /\ threads' = threads \ {t}
  /\ UNCHANGED <<win, events, link, clicks>>

-----------------------------------------------------------------------------
(* The handlers of their results *)

Handle(kind) ==
  /\ events # <<>> /\ Head(events).kind = kind
  /\ events' = Tail(events)
  /\ UNCHANGED clicks

OnConnected ==
  /\ Handle("connect") /\ UNCHANGED link
  /\ IF win.closing THEN UNCHANGED <<win, threads>>
     ELSE IF Head(events).out = "error" THEN Becomes(UpdateConnectionUI(Now, FALSE))
     ELSE LET s == RefreshStatus(UpdateConnectionUI(Now, TRUE))
          IN Becomes(IF win.dialog THEN DialogRefresh(s) ELSE s)

\* What the handler given with a command does with its result.
OnDone(s, e) ==
  CASE e.job = "status" ->
         {Showing(s, [s.w EXCEPT !.board = usable, !.boardFrom = e.on]) : usable \in BOOLEAN}
    [] e.job = "init"  -> {RefreshStatus(s)}
    [] e.job = "route" -> {DialogRefresh(s)}
    [] OTHER           -> {s}

\* Mutant: after an error the next command is not started.
OnCommandCompleted_StopsAtError ==
  LET e == Head(events)
      s == Showing(Now, [win EXCEPT !.commandWorker = None])
  IN /\ Handle("command") /\ UNCHANGED link
     /\ IF win.closing THEN win' = s.w /\ UNCHANGED threads
        ELSE \E d \in IF e.out = "ok" THEN OnDone(s, e) ELSE {s} :
               Becomes(IF e.out = "ok" THEN StartNextCommand(d) ELSE SyncConnectionUI(d))

OnCommandCompleted ==
  LET e == Head(events)
      s == Showing(Now, [win EXCEPT !.commandWorker = None])
  IN /\ Handle("command") /\ UNCHANGED link
     /\ IF win.closing THEN win' = s.w /\ UNCHANGED threads
        ELSE \E d \in IF e.out = "ok" THEN OnDone(s, e) ELSE {SyncConnectionUI(s)} :
               Becomes(StartNextCommand(d))

OnMeasureCancelled ==
  StartConnect(UpdateConnectionUI(
    Showing(Now, [win EXCEPT !.cancelling = FALSE, !.cancelText = FALSE]), FALSE))

OnMeasureEnd ==
  LET e == Head(events)
  IN /\ Handle("measure") /\ UNCHANGED link
     /\ IF win.closing THEN UNCHANGED <<win, threads>>
        ELSE IF win.cancelling
        THEN Becomes(OnMeasureCancelled)
        ELSE IF e.out = "ok"
        THEN Becomes(RefreshStatus(Showing(Now,
               SetControlsEnabled([win EXCEPT !.spectrum = e.id, !.params = win.pending,
                                              !.cancelText = FALSE], TRUE))))
        ELSE Becomes(UpdateConnectionUI(Showing(Now, [win EXCEPT !.cancelText = FALSE]),
                                        IsConnected))

-----------------------------------------------------------------------------
User ==
  \/ OnConnect \/ OnCommand \/ OnOpenSchematic \/ OnDialog
  \/ OnMeasure \/ CancelMeasurement \/ CloseEvent

Thread(t) == Run(t) \/ Return(t) \/ SocketMade(t) \/ Connected(t) \/ ConnectFails(t) \/ Ends(t)

EventLoop == OnConnected \/ OnCommandCompleted \/ OnMeasureEnd

Next ==
  /\ User \/ (\E t \in threads : Thread(t)) \/ EventLoop
  /\ UNCHANGED user

\* Every call has a time-out and threads are scheduled; the user owes nothing.
Fairness == WF_vars(\E t \in threads : Thread(t)) /\ WF_vars(EventLoop)

Spec == Init /\ [][Next]_<<user, vars>> /\ Fairness

-----------------------------------------------------------------------------
(* Properties *)

Kinds == {"connect", "command", "measure"}
Jobs == {"connect", "measure", "init", "status", "board", "refresh", "route"}

\* Widgets and fields keep their types; measurements and workers are numbered
\* by the threads made so far, and the command thread is _command_worker.
TypeOK ==
  /\ win.client \in Clients /\ win.shown \in {"off", "connecting", "on"}
  /\ {win.worker, win.connectWorker, win.commandWorker, win.pending, win.spectrum, win.params}
       \cup win.workers \subseteq 0 .. win.made
  /\ \A t \in threads : /\ t.id \in 1 .. win.made /\ t.kind \in Kinds /\ t.job \in Jobs
                        /\ t.on \in Clients \cup {None}
                        /\ t.at \in {"new", "calling", "winding"}
  /\ \A t \in threads : t.kind = "command" /\ t.at # "winding" => t.id = win.commandWorker
  /\ link \in [Clients -> BOOLEAN]

Underway(t) == t.kind # "connect" /\ t.at # "winding"
Target(t) == IF t.on = None THEN win.client ELSE t.on

\* "Keep a reference until the thread has finished": every worker that has
\* not ended is one the window still refers to.  Qt aborts the program when a
\* running QThread is destroyed.
ThreadsAreKept ==
  Ids(threads) \subseteq {win.worker, win.connectWorker} \cup win.workers

\* A measurement holds the client's lock to its end, "so UIs must not issue
\* other commands while one is running": no call is made on a client that has
\* one under way.
NoCallOverlaps ==
  \A t, u \in threads : Underway(t) /\ Underway(u) /\ t # u => Target(t) # Target(u)

\* No call is made on a client whose connect() still waits for the welcome.
NoCallWhileConnecting ==
  \A t, u \in threads :
    Underway(t) /\ u.kind = "connect" /\ u.at # "winding" => Target(t) # u.on

\* The spectrum shown and saved is scaled by the parameters it was measured
\* with, not by those of the next one.
SpectrumHasItsParams == win.spectrum = win.params

\* While the window says that it is not connected, Measure is disabled.
NothingEnabledOffline == win.controls \/ win.measureBtn => win.shown = "on"

\* The board panel is enabled only on a status this connection has given.
BoardEnabledByItsStatus == win.controls /\ win.board => win.boardFrom = win.client

\* When nothing is under way, the connect button tells the truth.
ShownAtRest ==
  threads = {} /\ events = <<>> /\ ~win.closing => (win.shown = "on" <=> link[win.client])

\* The fields of the window stay in their types, whoever the user is, and the
\* spectrum is scaled by the parameters it was measured with unless a new
\* measurement is started before the last result has been handled
\* (_on_measure, _on_measure_done).
WindowIsSound == TypeOK /\ ("overtake" \notin UserMay => SpectrumHasItsParams)

\* The user who waits for what is under way, as the disabled widgets ask,
\* except to cancel a measurement, and does not open the routing dialog.
Patience == UserMay = {} /\ ~Dialog

\* The calls of a patient user do not meet: no call is made on a client that
\* has one under way or waits for its welcome, and no thread that runs is lost
\* sight of (_on_measure, _start_next_command, _on_measure_cancelled).
PatientCallsAreAlone ==
  Patience => NoCallOverlaps /\ NoCallWhileConnecting /\ ThreadsAreKept

\* To a patient user the window is truthful: nothing is enabled offline, the
\* board panel only on a status of this connection, and the connect button
\* shows the connection there is.
PatientWindowIsTruthful ==
  Patience => NothingEnabledOffline /\ BoardEnabledByItsStatus /\ ShownAtRest

\* Queued commands are run, or dropped with the connection.
CommandsAreRun == win.commands # <<>> ~> win.commands = <<>> \/ win.closing

\* "Connecting" ends, with a connection or without one.
ConnectingEnds == win.shown = "connecting" ~> win.shown # "connecting" \/ win.closing

\* "It closes the connection and reconnects": a measurement that is cancelled
\* is followed by a connection attempt, and Cancel becomes Measure again.
CancelReconnects == win.cancelling ~> ~win.cancelling \/ win.closing

\* To a user who does not overtake it, the window ends what it has begun:
\* queued commands are run or dropped, connecting ends, a cancelled measurement
\* reconnects.
WorkEnds == CommandsAreRun /\ ConnectingEnds /\ CancelReconnects
=============================================================================
