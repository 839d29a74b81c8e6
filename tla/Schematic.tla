----------------------------- MODULE Schematic ------------------------------
(***************************************************************************)
(* The routing schematic dialog of the GUI, over the queue of commands it   *)
(* shares with the main window and the crossbar of the board.  The dialog   *)
(* shows what its last BOARD:STATUS? said; what a click does depends on     *)
(* what is shown, and reaches the board when its turn in the queue comes.   *)
(***************************************************************************)
EXTENDS Naturals, Sequences

CONSTANTS
  Outs, Ins,   \* outputs and inputs of the crossbar
  NoOut,       \* no output
  Open,        \* what an output is routed to when it is disconnected
  Uses,        \* how the dialog may be used, each as a record
  MaxClicks    \* bound on what any user does

Failures ==
  {"refused",  \* an error answer; the board did nothing
   "lost",     \* an error answer; the board did it (its answer to the server was lost)
   "dropped"}  \* no answer: the client closes the connection, whatever the board did

SchematicAssumption ==
  /\ Open \notin Ins /\ NoOut \notin Outs /\ MaxClicks \in Nat
  /\ Uses \subseteq [window : BOOLEAN, errors : SUBSET Failures, clicks : 0 .. MaxClicks]

ASSUME SchematicAssumption

VARIABLES
  use,     \* the use of this behaviour: chosen at the start, kept
  board,   \* the crossbar, and the number of changes made to it
  dialog,  \* the fields of RoutingSchematicDialog
  queue,   \* commands waiting; the worker has the one before them
  worker,  \* the command that is out, and how it ended
  linked,  \* is the GUI's client connected?
  own,     \* the last change of the board that an action of the dialog made
  told,    \* the last such change before an error was shown
  clicks

vars == <<board, dialog, queue, worker, linked, own, told, clicks>>

WindowActs == use.window  \* does the user also use the board panel of the main window?
Errors == use.errors      \* how a command may fail, among Failures

AllOpen == [o \in Outs |-> Open]
Idle == [state |-> "idle"]

Init ==
  /\ use \in Uses
  /\ board = [routing |-> AllOpen, changes |-> 0]
  /\ dialog = [visible |-> FALSE, client |-> TRUE, routing |-> AllOpen, seen |-> 0,
               selecting |-> NoOut, asking |-> NoOut]
  /\ queue = <<>> /\ worker = Idle /\ linked = TRUE /\ own = 0 /\ told = 0 /\ clicks = 0

-----------------------------------------------------------------------------
(* _run_command(): calls run one at a time, in the order they are queued. *)

Command(op, out, in, from) == [op |-> op, out |-> out, in |-> in, from |-> from]
Read == Command("read", NoOut, Open, "dialog")

(* The queue with a command added, and the next one started if none is out. *)
RunCommands(q) ==
  IF worker.state = "idle" /\ q # <<>>
  THEN worker' = [state |-> "out", cmd |-> Head(q)] /\ queue' = Tail(q)
  ELSE worker' = worker /\ queue' = q

Enqueue(cmd) == RunCommands(Append(queue, cmd))

CancelSelection(d) == [d EXCEPT !.selecting = NoOut]

ApplyState(d, state) ==
  [CancelSelection(d) EXCEPT !.routing = state.routing, !.seen = state.changes]

(* refresh_state(): d is the dialog so far. *)
RefreshState(d) ==
  IF d.client
  THEN dialog' = d /\ Enqueue(Read)
  ELSE /\ dialog' = [CancelSelection(d) EXCEPT !.routing = AllOpen]
       /\ UNCHANGED <<queue, worker>>

-----------------------------------------------------------------------------
(* What the user does.  A question is modal: it is answered first. *)

Click ==
  /\ dialog.asking = NoOut /\ clicks < use.clicks
  /\ clicks' = clicks + 1
  /\ UNCHANGED <<board, own, told>>

OpenDialog ==
  /\ Click /\ linked /\ ~dialog.visible /\ UNCHANGED linked
  /\ RefreshState([dialog EXCEPT !.visible = TRUE, !.client = linked])

CloseDialog ==
  /\ Click /\ dialog.visible
  /\ dialog' = [dialog EXCEPT !.visible = FALSE]
  /\ UNCHANGED <<queue, worker, linked>>

Refresh ==
  /\ Click /\ dialog.visible /\ UNCHANGED linked
  /\ RefreshState(dialog)

(* _board_usable() fails: the click cancels the selection. *)
ClickOffline ==
  /\ Click /\ dialog.visible /\ ~dialog.client
  /\ dialog' = CancelSelection(dialog)
  /\ UNCHANGED <<queue, worker, linked>>

ClickOut(o) ==
  /\ Click /\ dialog.visible /\ dialog.client
  /\ dialog' = CASE dialog.selecting = o       -> CancelSelection(dialog)
                 [] dialog.selecting # o /\ dialog.routing[o] # Open
                                               -> [dialog EXCEPT !.asking = o]
                 [] OTHER -> [dialog EXCEPT !.selecting = o]
  /\ UNCHANGED <<queue, worker, linked>>

ClickIn(i) ==
  /\ Click /\ dialog.visible /\ dialog.client /\ UNCHANGED linked
  /\ IF dialog.selecting # NoOut
     THEN /\ dialog' = CancelSelection(dialog)
          /\ Enqueue(Command("mux", dialog.selecting, i, "dialog"))
     ELSE UNCHANGED <<dialog, queue, worker>>

ClickRoute(o) ==
  /\ Click /\ dialog.visible /\ dialog.client /\ dialog.routing[o] # Open
  /\ dialog' = [dialog EXCEPT !.asking = o]
  /\ UNCHANGED <<queue, worker, linked>>

(* The answer to "Disconnect OUT?"; by now the client may be gone, and the *)
(* command then fails in the worker without reaching the board.            *)
Answer(yes) ==
  /\ dialog.asking # NoOut
  /\ dialog' = [dialog EXCEPT !.asking = NoOut]
  /\ IF yes THEN Enqueue(Command("cut", dialog.asking, Open,
                                 IF dialog.client THEN "dialog" ELSE "nobody"))
     ELSE UNCHANGED <<queue, worker>>
  /\ UNCHANGED <<board, linked, own, told, clicks>>

Escape ==
  /\ Click /\ dialog.visible /\ dialog.selecting # NoOut
  /\ dialog' = CancelSelection(dialog)
  /\ UNCHANGED <<queue, worker, linked>>

(* The board panel of the main window: its commands do not touch the dialog. *)
WindowClick(op, o, i) ==
  /\ Click /\ WindowActs /\ linked /\ UNCHANGED <<dialog, linked>>
  /\ Enqueue(Command(op, o, i, "window"))

WindowUses ==
  \/ \E o \in Outs, i \in Ins : WindowClick("mux", o, i)
  \/ \E o \in Outs : WindowClick("cut", o, Open)
  \/ WindowClick("reset", NoOut, Open)

(* _update_connection_ui(FALSE): the queue is dropped. *)
GoOffline(d) == [d EXCEPT !.client = FALSE]

Disconnect ==
  /\ Click /\ linked
  /\ linked' = FALSE /\ dialog' = GoOffline(dialog)
  /\ queue' = <<>> /\ UNCHANGED worker

(* Mutant: the dialog gets the new client and keeps what it shows. *)
ReconnectQuietly ==
  /\ Click /\ ~linked /\ worker.state = "idle" /\ linked' = TRUE
  /\ dialog' = [dialog EXCEPT !.client = TRUE] /\ UNCHANGED <<queue, worker>>

(* A connection is there again: a dialog in view reads the board. *)
Reconnect ==
  /\ Click /\ ~linked /\ worker.state = "idle" /\ linked' = TRUE
  /\ IF dialog.visible THEN RefreshState([dialog EXCEPT !.client = TRUE])
     ELSE dialog' = [dialog EXCEPT !.client = TRUE] /\ UNCHANGED <<queue, worker>>

-----------------------------------------------------------------------------
(* The worker and the server behind it. *)

(* The board after a command took effect. *)
Changed(cmd) ==
  [routing |-> CASE cmd.op = "reset" -> AllOpen
                 [] cmd.op = "read"  -> board.routing
                 [] OTHER            -> [board.routing EXCEPT ![cmd.out] = cmd.in],
   changes |-> board.changes + IF cmd.op = "read" THEN 0 ELSE 1]

Execute(how, effect) ==
  /\ worker.state = "out"
  /\ how \in {"done"} \cup Errors \cup {"refused"}
  /\ effect = (how \in {"done", "lost"}) \/ how = "dropped"
  /\ (how # "refused" => linked /\ worker.cmd.from # "nobody")
  /\ (how = "refused" /\ linked /\ worker.cmd.from # "nobody" => "refused" \in Errors)
  /\ board' = IF effect THEN Changed(worker.cmd) ELSE board
  /\ worker' = [state |-> "back", cmd |-> worker.cmd, ok |-> how = "done", result |-> board']
  /\ linked' = (linked /\ how # "dropped")
  /\ own' = IF how = "done" /\ worker.cmd.from = "dialog" /\ worker.cmd.op # "read"
            THEN board'.changes ELSE own
  /\ UNCHANGED <<dialog, queue, told, clicks>>

(* Mutant: an action that succeeded is not followed by a read. *)
HandleOnly ==
  IF worker.ok
  THEN [d |-> IF worker.cmd.op = "read" THEN ApplyState(dialog, worker.result) ELSE dialog,
        q |-> queue]
  ELSE [d |-> IF linked THEN dialog ELSE GoOffline(dialog),
        q |-> IF linked THEN queue ELSE <<>>]

(* What the handler of the command leaves: the dialog and the queue. *)
Handle ==
  LET cmd == worker.cmd
  IN  CASE ~worker.ok ->
             [d |-> IF linked THEN dialog ELSE GoOffline(dialog),
              q |-> IF linked THEN queue ELSE <<>>]
        [] worker.ok /\ cmd.op = "read" ->
             [d |-> ApplyState(dialog, worker.result), q |-> queue]
        [] worker.ok /\ cmd.from = "dialog" /\ cmd.op # "read" ->
             IF dialog.client
             THEN [d |-> dialog, q |-> Append(queue, Read)]
             ELSE [d |-> [CancelSelection(dialog) EXCEPT !.routing = AllOpen],
                   q |-> queue]
        [] OTHER -> [d |-> dialog, q |-> queue]

Complete ==
  /\ worker.state = "back"
  /\ dialog' = Handle.d
  /\ IF Handle.q = <<>>
     THEN worker' = Idle /\ queue' = <<>>
     ELSE worker' = [state |-> "out", cmd |-> Head(Handle.q)] /\ queue' = Tail(Handle.q)
  /\ told' = IF worker.ok \/ worker.cmd.from = "window" THEN told ELSE own
  /\ UNCHANGED <<board, linked, own, clicks>>

Work == (\E how \in {"done"} \cup Failures, effect \in BOOLEAN : Execute(how, effect))
        \/ Complete

User ==
  \/ OpenDialog \/ CloseDialog \/ Refresh \/ ClickOffline \/ Escape
  \/ \E o \in Outs : ClickOut(o) \/ ClickRoute(o)
  \/ \E i \in Ins : ClickIn(i)
  \/ \E yes \in BOOLEAN : Answer(yes)
  \/ WindowUses \/ Disconnect \/ Reconnect

Next == (User \/ Work) /\ UNCHANGED use

(* A call ends by an answer or its time-out, and its result is handled. *)
Spec == Init /\ [][Next]_<<use, vars>> /\ WF_vars(Work)

-----------------------------------------------------------------------------
(* Properties *)

Routings == [Outs -> Ins \cup {Open}]

\* The type invariant.
TypeOK ==
  /\ use \in Uses
  /\ board.routing \in Routings /\ board.changes \in Nat
  /\ dialog.routing \in Routings /\ dialog.seen \in 0 .. board.changes
  /\ {dialog.selecting, dialog.asking} \subseteq Outs \cup {NoOut}
  /\ {dialog.visible, dialog.client, linked} \subseteq BOOLEAN
  /\ worker.state \in {"idle", "out", "back"}
  /\ (worker.state = "idle" => queue = <<>>)
  /\ {own, told} \subseteq 0 .. board.changes /\ clicks \in Nat

(* An output that is selected for a new route is shown as disconnected: a   *)
(* status that arrives between the two clicks and says otherwise ends the   *)
(* selection, so an input click never re-routes a connected output.         *)
SelectionIsFree ==
  dialog.selecting # NoOut => dialog.routing[dialog.selecting] = Open

AtRest == worker.state = "idle" /\ dialog.client

(* "The view re-reads BOARD:STATUS? on open, after every action and via     *)
(* the Refresh button, so it always mirrors the real board state": with no  *)
(* command out, what an open dialog shows is how the board is routed.       *)
MirrorsBoard == AtRest /\ dialog.visible => dialog.routing = board.routing

(* The dialog is the only one to switch the board, and a command fails by   *)
(* losing the connection only.                                              *)
Alone == ~WindowActs /\ Errors \subseteq {"dropped"}

(* What the dialog works from is right: an output selected for a new route  *)
(* is disconnected, and where the dialog is alone, it mirrors the board.    *)
DialogIsTruthful == TypeOK /\ SelectionIsFree /\ (Alone => MirrorsBoard)

(* Every action of the dialog that the board carried out comes to be seen   *)
(* in it, unless the connection goes, an error is shown or it is closed.    *)
ActionsAreShown ==
  \A n \in 1 .. MaxClicks :
    own = n ~> dialog.seen >= n \/ told >= n \/ ~dialog.client \/ ~dialog.visible
=============================================================================
