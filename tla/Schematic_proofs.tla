-------------------------- MODULE Schematic_proofs --------------------------
(***************************************************************************)
(* Theorems about the routing schematic dialog: for every crossbar, every  *)
(* use of the dialog and any number of clicks.                             *)
(***************************************************************************)
EXTENDS Schematic, SequenceTheorems, TLAPS

(***************************************************************************)
(* The inductive invariant.  What is shown is right or about to be: while  *)
(* the dialog may be wrong, a read is out or waiting, or the worker has    *)
(* just come back with an answer that sets it right or queues a read.  The *)
(* rest says why no such read is lost: an answer carries the board as it   *)
(* is, a read only fails with the connection, and then the dialog is off.  *)
(***************************************************************************)
Dialogs == [visible : BOOLEAN, client : BOOLEAN, routing : Routings, seen : Nat,
            selecting : Outs \cup {NoOut}, asking : Outs \cup {NoOut}]

\* A dialog that never selects a connected output, nor has seen the future.
DialogOK(d) ==
  /\ d \in Dialogs
  /\ d.seen <= board.changes
  /\ d.selecting # NoOut => d.routing[d.selecting] = Open

BoardOK ==
  /\ board \in [routing : Routings, changes : Nat]
  /\ own \in 0 .. board.changes /\ told \in 0 .. board.changes
  /\ clicks \in Nat /\ linked \in BOOLEAN

\* The commands this use sends.
Sent == {c \in [op : {"read", "mux", "cut", "reset"}, out : Outs \cup {NoOut},
                in : Ins \cup {Open}, from : {"dialog", "window", "nobody"}] :
           /\ c.op = "read" => c.from = "dialog"
           /\ c.from = "window" => WindowActs}

WorkOK ==
  /\ queue \in Seq(Sent)
  /\ \/ worker = Idle /\ queue = <<>>
     \/ worker \in [state : {"out"}, cmd : Sent]
     \/ worker \in [state : {"back"}, cmd : Sent, ok : BOOLEAN, result : {board}]

\* What has failed, and what has not.
BackOK ==
  worker.state = "back" =>
    /\ worker.ok => worker.cmd.from # "nobody"
    /\ ~worker.ok /\ linked /\ Alone => worker.cmd.op # "read"

\* A client without a connection is about to be told.
LinkOK == dialog.client /\ ~linked => worker.state = "back" /\ ~worker.ok

\* A read of the board will be done.
Coming ==
  \/ worker.state = "out" /\ worker.cmd.op = "read"
  \/ \E k \in DOMAIN queue : queue[k].op = "read"

ShownOrComing ==
  Alone /\ linked /\ dialog.client /\ dialog.visible =>
    \/ dialog.routing = board.routing
    \/ Coming
    \/ worker.state = "back" /\ worker.ok

IInv ==
  /\ use \in Uses
  /\ BoardOK /\ DialogOK(dialog)
  /\ WorkOK /\ BackOK /\ LinkOK
  /\ ShownOrComing

-----------------------------------------------------------------------------
(* The dialog *)

LEMMA AllOpenType == AllOpen \in Routings /\ \A o \in Outs : AllOpen[o] = Open
BY DEF AllOpen, Routings

\* What the dialog becomes without a click.
LEMMA DialogFields ==
  ASSUME NEW d \in Dialogs
  PROVE  /\ CancelSelection(d) \in Dialogs
         /\ CancelSelection(d).selecting = NoOut
         /\ CancelSelection(d).client = d.client
         /\ CancelSelection(d).visible = d.visible
         /\ CancelSelection(d).routing = d.routing
         /\ CancelSelection(d).seen = d.seen
         /\ CancelSelection(d).asking = d.asking
BY DEF CancelSelection, Dialogs

LEMMA CancelOK ==
  ASSUME NEW d, DialogOK(d)
  PROVE  DialogOK(CancelSelection(d))
BY DialogFields DEF DialogOK

LEMMA BlankOK ==
  ASSUME NEW d, DialogOK(d)
  PROVE  /\ DialogOK([CancelSelection(d) EXCEPT !.routing = AllOpen])
         /\ [CancelSelection(d) EXCEPT !.routing = AllOpen].client = d.client
         /\ [CancelSelection(d) EXCEPT !.routing = AllOpen].visible = d.visible
<1>. DEFINE c == CancelSelection(d)
<1>1. c \in Dialogs /\ c.selecting = NoOut /\ c.seen <= board.changes
      /\ c.client = d.client /\ c.visible = d.visible
  BY DialogFields DEF DialogOK
<1>. HIDE DEF c
<1>2. /\ [c EXCEPT !.routing = AllOpen] \in Dialogs
      /\ [c EXCEPT !.routing = AllOpen].selecting = NoOut
      /\ [c EXCEPT !.routing = AllOpen].seen = c.seen
      /\ [c EXCEPT !.routing = AllOpen].client = c.client
      /\ [c EXCEPT !.routing = AllOpen].visible = c.visible
  BY <1>1, AllOpenType DEF Dialogs
<1>3. DialogOK([c EXCEPT !.routing = AllOpen])
  BY <1>1, <1>2 DEF DialogOK
<1>. QED  BY <1>1, <1>2, <1>3 DEF c

\* The dialog after an answer to BOARD:STATUS?.
LEMMA AppliedOK ==
  ASSUME NEW d, DialogOK(d), BoardOK
  PROVE  /\ DialogOK(ApplyState(d, board))
         /\ ApplyState(d, board).routing = board.routing
         /\ ApplyState(d, board).client = d.client
         /\ ApplyState(d, board).visible = d.visible
<1>. DEFINE c == CancelSelection(d)
            a == [c EXCEPT !.routing = board.routing, !.seen = board.changes]
<1>1. c \in Dialogs /\ c.selecting = NoOut /\ c.client = d.client /\ c.visible = d.visible
  BY DialogFields DEF DialogOK
<1>2. board.routing \in Routings /\ board.changes \in Nat
  BY DEF BoardOK
<1>. HIDE DEF c
<1>3. /\ a \in Dialogs /\ a.selecting = NoOut /\ a.seen = board.changes
      /\ a.routing = board.routing /\ a.client = c.client /\ a.visible = c.visible
  BY <1>1, <1>2 DEF Dialogs
<1>. HIDE DEF a
<1>4. DialogOK(a)
  BY <1>2, <1>3 DEF DialogOK
<1>5. ApplyState(d, board) = a
  BY DEF ApplyState, a, c
<1>. QED  BY <1>1, <1>3, <1>4, <1>5

-----------------------------------------------------------------------------
(* The queue *)

LEMMA ReadType == Read \in Sent /\ Read.op = "read"
BY DEF Read, Command, Sent

\* A command joins the queue: the worker takes it if it is idle, and keeps
\* what it has otherwise.
LEMMA Enqueued ==
  ASSUME WorkOK, NEW cmd \in Sent, Enqueue(cmd), UNCHANGED <<use, board>>
  PROVE  /\ WorkOK' /\ worker'.state # "idle"
         /\ worker.state = "idle" => worker'.state = "out"
         /\ worker.state # "idle" => worker' = worker
         /\ cmd.op = "read" \/ Coming => Coming'
<1>0. Sent' = Sent
  BY DEF Sent, WindowActs
<1>. DEFINE q == Append(queue, cmd)
<1>1. queue \in Seq(Sent)
  BY DEF WorkOK
<1>2. q # <<>> /\ q \in Seq(Sent)
  BY <1>1, AppendProperties
<1>3. CASE worker.state = "idle"
  <2>1. queue = <<>>
    BY <1>3 DEF WorkOK
  <2>2. q = <<cmd>>
    BY <2>1
  <2>3. worker' = [state |-> "out", cmd |-> Head(q)] /\ queue' = Tail(q)
    BY <1>2, <1>3 DEF Enqueue, RunCommands
  <2>4. Head(q) = cmd /\ Tail(q) = <<>>
    BY <2>2
  <2>5. worker' = [state |-> "out", cmd |-> cmd] /\ queue' = <<>>
    BY <2>3, <2>4
  <2>6. ~Coming
    BY <1>3, <2>1 DEF Coming
  <2>. QED  BY <1>0, <1>3, <2>5, <2>6 DEF WorkOK, Coming
<1>4. CASE worker.state # "idle"
  <2>1. worker' = worker /\ queue' = q
    BY <1>2, <1>4 DEF Enqueue, RunCommands
  <2>2. /\ \A k \in DOMAIN queue : k \in DOMAIN q /\ q[k] = queue[k]
        /\ Len(queue) + 1 \in DOMAIN q /\ q[Len(queue) + 1] = cmd
    BY <1>1
  <2>. HIDE DEF q
  <2>3. WorkOK'
    BY <1>0, <1>2, <1>4, <2>1 DEF WorkOK, Idle
  <2>4. cmd.op = "read" \/ Coming => Coming'
    BY <2>1, <2>2 DEF Coming
  <2>. QED  BY <1>4, <2>1, <2>3, <2>4
<1>. QED  BY <1>3, <1>4

\* The handler leaves a queue, and the worker takes its first command.
LEMMA Taken ==
  ASSUME NEW q \in Seq(Sent), UNCHANGED <<use, board>>,
         IF q = <<>> THEN worker' = Idle /\ queue' = <<>>
         ELSE worker' = [state |-> "out", cmd |-> Head(q)] /\ queue' = Tail(q)
  PROVE  /\ WorkOK' /\ worker'.state # "back"
         /\ (\E k \in DOMAIN q : q[k].op = "read") => Coming'
<1>0. Sent' = Sent
  BY DEF Sent, WindowActs
<1>1. CASE q = <<>>
  BY <1>0, <1>1 DEF WorkOK, Idle
<1>2. CASE q # <<>>
  <2>1. Head(q) \in Sent /\ Tail(q) \in Seq(Sent)
    BY <1>2
  <2>2. worker' = [state |-> "out", cmd |-> Head(q)] /\ queue' = Tail(q)
    BY <1>2
  <2>3. ASSUME NEW k \in DOMAIN q, q[k].op = "read"
        PROVE  Coming'
    <3>1. CASE k = 1
      <4>1. q[k] = Head(q)
        BY <3>1
      <4>. QED  BY <2>2, <2>3, <4>1 DEF Coming
    <3>2. CASE k # 1
      <4>1. k - 1 \in DOMAIN Tail(q) /\ Tail(q)[k - 1] = q[k]
        BY <1>2, <3>2
      <4>. QED  BY <2>2, <2>3, <4>1 DEF Coming
    <3>. QED  BY <3>1, <3>2
  <2>. QED  BY <1>0, <2>1, <2>2, <2>3 DEF WorkOK
<1>. QED  BY <1>1, <1>2

-----------------------------------------------------------------------------
(* What the user does *)

\* A click that sends nothing and shows nothing else.
LEMMA QuietClick ==
  ASSUME IInv, UNCHANGED <<use, board, own, told, queue, worker, linked>>, clicks' \in Nat,
         DialogOK(dialog'), dialog'.client = dialog.client,
         dialog'.visible => dialog.visible,
         dialog'.routing = dialog.routing \/ ~dialog.client
  PROVE  IInv'
<1>1. BoardOK' /\ DialogOK(dialog)'
  BY DEF IInv, BoardOK, DialogOK
<1>2. Sent' = Sent /\ Alone' = Alone /\ Coming' = Coming
  BY DEF Sent, Alone, WindowActs, Errors, Coming
<1>3. WorkOK' /\ BackOK' /\ LinkOK'
  BY <1>2 DEF IInv, WorkOK, BackOK, LinkOK
<1>4. ShownOrComing'
  BY <1>2 DEF IInv, ShownOrComing
<1>. QED  BY <1>1, <1>3, <1>4 DEF IInv

\* A click that sends a command.
LEMMA SendingClick ==
  ASSUME IInv, UNCHANGED <<use, board, own, told, linked>>, clicks' \in Nat,
         NEW cmd \in Sent, Enqueue(cmd),
         DialogOK(dialog'), dialog'.client = dialog.client,
         dialog'.visible => dialog.visible,
         dialog'.routing = dialog.routing
  PROVE  IInv'
<1>1. BoardOK' /\ DialogOK(dialog)'
  BY DEF IInv, BoardOK, DialogOK
<1>2. /\ WorkOK' /\ worker'.state # "idle"
      /\ worker.state = "idle" => worker'.state = "out"
      /\ worker.state # "idle" => worker' = worker
      /\ Coming => Coming'
  BY Enqueued DEF IInv
<1>3. Alone' = Alone
  BY DEF Alone, WindowActs, Errors
<1>4. BackOK' /\ LinkOK'
  BY <1>2, <1>3 DEF IInv, BackOK, LinkOK
<1>5. ShownOrComing'
  BY <1>2, <1>3 DEF IInv, ShownOrComing
<1>. QED  BY <1>1, <1>2, <1>4, <1>5 DEF IInv

\* A dialog that has a connection asks for the state of the board.
LEMMA ReadingClick ==
  ASSUME IInv, UNCHANGED <<use, board, own, told>>, clicks' \in Nat,
         Enqueue(Read), linked' = TRUE, linked \/ worker.state = "idle",
         DialogOK(dialog')
  PROVE  IInv'
<1>1. BoardOK' /\ DialogOK(dialog)'
  BY DEF IInv, BoardOK, DialogOK
<1>2. /\ WorkOK' /\ worker'.state # "idle"
      /\ worker.state = "idle" => worker'.state = "out"
      /\ worker.state # "idle" => worker' = worker
      /\ Coming'
  BY Enqueued, ReadType DEF IInv
<1>3. Alone' = Alone
  BY DEF Alone, WindowActs, Errors
<1>4. BackOK' /\ LinkOK'
  BY <1>2, <1>3 DEF IInv, BackOK, LinkOK
<1>5. ShownOrComing'
  BY <1>2 DEF ShownOrComing
<1>. QED  BY <1>1, <1>2, <1>4, <1>5 DEF IInv

LEMMA UserStep ==
  ASSUME IInv, User, UNCHANGED use
  PROVE  IInv'
<1>0. /\ dialog \in Dialogs /\ DialogOK(dialog) /\ clicks \in Nat
      /\ linked \in BOOLEAN
  BY DEF IInv, DialogOK, BoardOK
<1>1. Click => clicks' \in Nat /\ UNCHANGED <<board, own, told>>
  BY <1>0 DEF Click
<1>2. ASSUME NEW d, d = CancelSelection(dialog)
      PROVE  /\ DialogOK(d) /\ d.client = dialog.client
             /\ d.visible = dialog.visible /\ d.routing = dialog.routing
  BY <1>0, <1>2, CancelOK, DialogFields
<1>3. ASSUME NEW v \in BOOLEAN, NEW c \in BOOLEAN,
             NEW d, d = [dialog EXCEPT !.visible = v, !.client = c]
      PROVE  /\ DialogOK(d) /\ d.client = c /\ d.visible = v
             /\ d.routing = dialog.routing
  BY <1>0, <1>3 DEF DialogOK, Dialogs
<1>4. ASSUME NEW o \in Outs \cup {NoOut}, NEW d, d = [dialog EXCEPT !.asking = o]
      PROVE  /\ DialogOK(d) /\ d.client = dialog.client
             /\ d.visible = dialog.visible /\ d.routing = dialog.routing
  BY <1>0, <1>4 DEF DialogOK, Dialogs
<1>5. ASSUME NEW o \in Outs, dialog.routing[o] = Open,
             NEW d, d = [dialog EXCEPT !.selecting = o]
      PROVE  /\ DialogOK(d) /\ d.client = dialog.client
             /\ d.visible = dialog.visible /\ d.routing = dialog.routing
  BY <1>0, <1>5 DEF DialogOK, Dialogs
<1>6. ASSUME NEW op \in {"mux", "cut"}, NEW o \in Outs \cup {NoOut},
             NEW i \in Ins \cup {Open}, NEW from \in {"dialog", "nobody"}
      PROVE  Command(op, o, i, from) \in Sent
  BY <1>6 DEF Command, Sent
<1>10. CASE OpenDialog
  <2>1. dialog' = [dialog EXCEPT !.visible = TRUE, !.client = TRUE]
        /\ Enqueue(Read) /\ linked' = TRUE /\ linked
    <3>1. [dialog EXCEPT !.visible = TRUE, !.client = TRUE].client = TRUE
      BY <1>3
    <3>. QED  BY <1>0, <1>10, <3>1 DEF OpenDialog, RefreshState
  <2>. QED  BY <1>1, <1>3, <1>10, <2>1, ReadingClick DEF OpenDialog
<1>11. CASE CloseDialog
  <2>1. dialog' = [dialog EXCEPT !.visible = FALSE, !.client = dialog.client]
    BY <1>0, <1>11 DEF CloseDialog, Dialogs
  <2>2. dialog.client \in BOOLEAN
    BY <1>0 DEF Dialogs
  <2>. QED  BY <1>1, <1>3, <1>11, <2>1, <2>2, QuietClick DEF CloseDialog
<1>12. CASE Refresh
  <2>1. CASE dialog.client
    BY <1>0, <1>1, <1>12, <2>1, ReadType, SendingClick DEF Refresh, RefreshState
  <2>2. CASE ~dialog.client
    BY <1>0, <1>1, <1>12, <2>2, BlankOK, QuietClick DEF Refresh, RefreshState
  <2>. QED  BY <2>1, <2>2
<1>13. CASE ClickOffline
  BY <1>1, <1>2, <1>13, QuietClick DEF ClickOffline
<1>14. ASSUME NEW o \in Outs, ClickOut(o)
       PROVE  IInv'
  <2>1. \/ dialog' = CancelSelection(dialog)
        \/ dialog' = [dialog EXCEPT !.asking = o]
        \/ dialog.routing[o] = Open /\ dialog' = [dialog EXCEPT !.selecting = o]
    BY <1>14 DEF ClickOut
  <2>2. Click /\ UNCHANGED <<queue, worker, linked>>
    BY <1>14 DEF ClickOut
  <2>3. /\ DialogOK(dialog') /\ dialog'.client = dialog.client
        /\ dialog'.visible = dialog.visible /\ dialog'.routing = dialog.routing
    BY <1>2, <1>4, <1>5, <2>1
  <2>. QED  BY <1>1, <2>2, <2>3, QuietClick
<1>15. ASSUME NEW i \in Ins, ClickIn(i)
       PROVE  IInv'
  <2>1. CASE dialog.selecting # NoOut
    <3>1. dialog.selecting \in Outs \cup {NoOut}
      BY <1>0 DEF Dialogs
    <3>2. Command("mux", dialog.selecting, i, "dialog") \in Sent
      BY <1>6, <3>1
    <3>. QED  BY <1>1, <1>2, <1>15, <2>1, <3>2, SendingClick DEF ClickIn
  <2>2. CASE dialog.selecting = NoOut
    BY <1>0, <1>1, <1>15, <2>2, QuietClick DEF ClickIn
  <2>. QED  BY <2>1, <2>2
<1>16. ASSUME NEW o \in Outs, ClickRoute(o)
       PROVE  IInv'
  BY <1>1, <1>4, <1>16, QuietClick DEF ClickRoute
<1>17. ASSUME NEW yes \in BOOLEAN, Answer(yes)
       PROVE  IInv'
  <2>1. /\ dialog' = [dialog EXCEPT !.asking = NoOut]
        /\ UNCHANGED <<board, linked, own, told, clicks>>
    BY <1>17 DEF Answer
  <2>2. /\ DialogOK(dialog') /\ dialog'.client = dialog.client
        /\ dialog'.visible = dialog.visible /\ dialog'.routing = dialog.routing
    BY <1>4, <2>1
  <2>3. CASE yes
    <3>1. dialog.asking \in Outs \cup {NoOut}
      BY <1>0 DEF Dialogs
    <3>2. PICK from \in {"dialog", "nobody"} :
            Enqueue(Command("cut", dialog.asking, Open, from))
      BY <1>17, <2>3 DEF Answer
    <3>3. Command("cut", dialog.asking, Open, from) \in Sent
      BY <1>6, <3>1
    <3>. QED  BY <1>0, <2>1, <2>2, <3>2, <3>3, SendingClick
  <2>4. CASE ~yes
    BY <1>0, <1>17, <2>1, <2>2, <2>4, QuietClick DEF Answer
  <2>. QED  BY <2>3, <2>4
<1>18. CASE Escape
  BY <1>1, <1>2, <1>18, QuietClick DEF Escape
<1>19. CASE WindowUses
  <2>1. PICK op \in {"mux", "cut", "reset"}, o \in Outs \cup {NoOut}, i \in Ins \cup {Open} :
          WindowClick(op, o, i)
    BY <1>19 DEF WindowUses
  <2>2. Command(op, o, i, "window") \in Sent
    BY <2>1 DEF WindowClick, Command, Sent
  <2>. QED  BY <1>0, <1>1, <2>1, <2>2, SendingClick DEF WindowClick
<1>20. CASE Disconnect
  <2>1. dialog' = [dialog EXCEPT !.visible = dialog.visible, !.client = FALSE]
        /\ linked' = FALSE /\ queue' = <<>> /\ worker' = worker
    BY <1>0, <1>20 DEF Disconnect, GoOffline, Dialogs
  <2>2. dialog.visible \in BOOLEAN
    BY <1>0 DEF Dialogs
  <2>3. DialogOK(dialog') /\ dialog'.client = FALSE
    BY <1>3, <2>1, <2>2
  <2>4. Sent' = Sent
    BY DEF Sent, WindowActs
  <2>5. clicks' \in Nat /\ UNCHANGED <<board, own, told>>
    BY <1>1, <1>20 DEF Disconnect
  <2>6. BoardOK' /\ DialogOK(dialog)'
    BY <2>1, <2>3, <2>5 DEF IInv, BoardOK, DialogOK
  <2>7. WorkOK' /\ BackOK' /\ LinkOK' /\ ShownOrComing'
    BY <2>1, <2>3, <2>4, <2>5 DEF IInv, WorkOK, BackOK, LinkOK, ShownOrComing
  <2>. QED  BY <2>6, <2>7 DEF IInv
<1>21. CASE Reconnect
  <2>1. dialog.visible \in BOOLEAN /\ worker.state = "idle" /\ linked' = TRUE
    BY <1>0, <1>21 DEF Reconnect, Dialogs
  <2>2. ASSUME NEW d, d = [dialog EXCEPT !.client = TRUE]
        PROVE  DialogOK(d) /\ d.client = TRUE /\ d.visible = dialog.visible
    BY <1>0, <2>2 DEF DialogOK, Dialogs
  <2>3. clicks' \in Nat /\ UNCHANGED <<board, own, told>>
    BY <1>1, <1>21 DEF Reconnect
  <2>4. CASE dialog.visible
    <3>1. dialog' = [dialog EXCEPT !.client = TRUE] /\ Enqueue(Read)
      BY <1>21, <2>2, <2>4 DEF Reconnect, RefreshState
    <3>. QED  BY <2>1, <2>2, <2>3, <3>1, ReadingClick
  <2>5. CASE ~dialog.visible
    <3>1. dialog' = [dialog EXCEPT !.client = TRUE] /\ UNCHANGED <<queue, worker>>
      BY <1>21, <2>5 DEF Reconnect
    <3>2. DialogOK(dialog') /\ ~dialog'.visible
      BY <2>2, <2>5, <3>1
    <3>3. Sent' = Sent
      BY DEF Sent, WindowActs
    <3>4. BoardOK' /\ DialogOK(dialog)'
      BY <2>1, <2>3, <3>2 DEF IInv, BoardOK, DialogOK
    <3>5. WorkOK' /\ BackOK' /\ LinkOK' /\ ShownOrComing'
      BY <2>1, <2>3, <3>1, <3>2, <3>3 DEF IInv, WorkOK, BackOK, LinkOK, ShownOrComing
    <3>. QED  BY <3>4, <3>5 DEF IInv
  <2>. QED  BY <2>4, <2>5
<1>. QED  BY <1>10, <1>11, <1>12, <1>13, <1>14, <1>15, <1>16, <1>17, <1>18, <1>19,
     <1>20, <1>21 DEF User

-----------------------------------------------------------------------------
(* The worker *)

LEMMA ChangedType ==
  ASSUME BoardOK, NEW cmd \in Sent
  PROVE  /\ Changed(cmd) \in [routing : Routings, changes : Nat]
         /\ board.changes <= Changed(cmd).changes
<1>1. board.routing \in Routings /\ board.changes \in Nat
  BY DEF BoardOK
<1>2. cmd.in \in Ins \cup {Open}
  BY DEF Sent
<1>3. [board.routing EXCEPT ![cmd.out] = cmd.in] \in Routings
  BY <1>1, <1>2 DEF Routings
<1>4. Changed(cmd).routing \in Routings
  BY <1>1, <1>3, AllOpenType DEF Changed
<1>5. Changed(cmd).changes \in Nat /\ board.changes <= Changed(cmd).changes
  BY <1>1 DEF Changed
<1>. QED  BY <1>4, <1>5 DEF Changed

LEMMA ExecuteStep ==
  ASSUME IInv, NEW how \in {"done"} \cup Failures, NEW effect \in BOOLEAN,
         Execute(how, effect), UNCHANGED use
  PROVE  IInv'
<1>0. /\ worker.state = "out" /\ worker.cmd \in Sent /\ queue \in Seq(Sent)
      /\ BoardOK /\ DialogOK(dialog)
  BY DEF IInv, WorkOK, Execute, Idle
<1>1. Sent' = Sent /\ Alone' = Alone
  BY DEF Sent, Alone, WindowActs, Errors
<1>2. /\ board' = board \/ board' = Changed(worker.cmd)
      /\ UNCHANGED <<dialog, queue, told, clicks>>
      /\ linked' = (linked /\ how # "dropped")
      /\ own' = own \/ own' = board'.changes
      /\ worker' = [state |-> "back", cmd |-> worker.cmd, ok |-> how = "done",
                    result |-> board']
  BY DEF Execute
<1>3. /\ board' \in [routing : Routings, changes : Nat]
      /\ board.changes <= board'.changes
  BY <1>0, <1>2, ChangedType DEF BoardOK
<1>4. BoardOK'
  BY <1>0, <1>2, <1>3 DEF BoardOK
<1>5. DialogOK(dialog)'
  BY <1>0, <1>2, <1>3 DEF DialogOK, Dialogs, BoardOK
<1>6. WorkOK'
  BY <1>0, <1>1, <1>2 DEF WorkOK
<1>7. /\ worker'.state = "back" /\ worker'.cmd = worker.cmd
      /\ worker'.ok = (how = "done")
  BY <1>2
<1>8. how # "refused" => linked /\ worker.cmd.from # "nobody"
  BY DEF Execute
<1>9. how = "refused" /\ linked /\ Alone => worker.cmd.from = "nobody"
  BY DEF Execute, Alone
<1>10. how \in Errors \cup {"done", "refused"}
  BY DEF Execute
<1>11. BackOK'
  <2>1. how = "done" => worker.cmd.from # "nobody"
    BY <1>8
  <2>2. how # "done" /\ linked' /\ Alone => worker.cmd.op # "read"
    BY <1>0, <1>2, <1>9, <1>10 DEF Alone, Sent
  <2>. QED  BY <1>1, <1>7, <2>1, <2>2 DEF BackOK
<1>12. LinkOK'
  <2>1. dialog.client => linked
    BY <1>0 DEF IInv, LinkOK
  <2>. QED  BY <1>2, <1>7, <2>1 DEF LinkOK
<1>13. ShownOrComing'
  <2>. SUFFICES ASSUME Alone, linked', dialog.client, dialog.visible, how # "done"
                PROVE  dialog.routing = board'.routing \/ Coming'
    BY <1>1, <1>2, <1>7 DEF ShownOrComing
  <2>1. how = "refused" /\ linked
    BY <1>2, <1>10 DEF Alone
  <2>2. worker.cmd.op # "read"
    BY <1>0, <1>9, <2>1 DEF Sent
  <2>3. board' = board
    BY <2>1 DEF Execute
  <2>4. dialog.routing = board.routing \/ Coming
    BY <1>0, <2>1 DEF IInv, ShownOrComing
  <2>. QED  BY <1>2, <2>2, <2>3, <2>4 DEF Coming
<1>. QED  BY <1>4, <1>5, <1>6, <1>11, <1>12, <1>13 DEF IInv

LEMMA CompleteStep ==
  ASSUME IInv, Complete, UNCHANGED use
  PROVE  IInv'
<1>0. /\ worker.state = "back" /\ worker.cmd \in Sent /\ queue \in Seq(Sent)
      /\ worker.ok \in BOOLEAN /\ worker.result = board
      /\ BoardOK /\ DialogOK(dialog) /\ linked \in BOOLEAN
  BY DEF IInv, WorkOK, Complete, Idle, BoardOK
<1>1. UNCHANGED <<board, linked, own, clicks>> /\ told' \in 0 .. board.changes
  BY <1>0 DEF Complete, BoardOK
<1>2. BoardOK'
  BY <1>0, <1>1 DEF BoardOK
<1>3. Alone' = Alone
  BY DEF Alone, WindowActs, Errors
<1>4. IF Handle.q = <<>> THEN worker' = Idle /\ queue' = <<>>
      ELSE worker' = [state |-> "out", cmd |-> Head(Handle.q)]
           /\ queue' = Tail(Handle.q)
  BY DEF Complete
<1>. DEFINE goal == /\ Handle.q \in Seq(Sent) /\ DialogOK(dialog')
                    /\ dialog'.client => linked
                    /\ Alone /\ linked /\ dialog'.client /\ dialog'.visible =>
                         \/ dialog'.routing = board.routing
                         \/ \E k \in DOMAIN Handle.q : Handle.q[k].op = "read"
<1>5. ASSUME goal PROVE IInv'
  <2>1. /\ WorkOK' /\ worker'.state # "back"
        /\ (\E k \in DOMAIN Handle.q : Handle.q[k].op = "read") => Coming'
    BY <1>1, <1>4, <1>5, Taken
  <2>2. BackOK' /\ LinkOK'
    BY <1>1, <1>5, <2>1 DEF BackOK, LinkOK
  <2>3. ShownOrComing'
    BY <1>1, <1>3, <1>5, <2>1 DEF ShownOrComing
  <2>4. DialogOK(dialog)'
    BY <1>1, <1>5 DEF DialogOK
  <2>. QED  BY <1>2, <2>1, <2>2, <2>3, <2>4 DEF IInv
<1>6. CASE ~worker.ok /\ linked
  <2>1. dialog' = dialog /\ Handle.q = queue
    BY <1>6 DEF Complete, Handle
  <2>2. Alone => worker.cmd.op # "read"
    BY <1>0, <1>6 DEF IInv, BackOK
  <2>3. Alone /\ dialog.client /\ dialog.visible =>
          dialog.routing = board.routing \/ \E k \in DOMAIN queue : queue[k].op = "read"
    BY <1>0, <1>6, <2>2 DEF IInv, ShownOrComing, Coming
  <2>. QED  BY <1>0, <1>5, <1>6, <2>1, <2>3
<1>7. CASE ~worker.ok /\ ~linked
  <2>1. dialog' = [dialog EXCEPT !.client = FALSE] /\ Handle.q = <<>>
    BY <1>7 DEF Complete, Handle, GoOffline
  <2>2. DialogOK(dialog') /\ ~dialog'.client
    BY <1>0, <2>1 DEF DialogOK, Dialogs
  <2>. QED  BY <1>5, <2>1, <2>2
<1>8. CASE worker.ok
  <2>0. dialog.client => linked
    BY <1>0, <1>8 DEF IInv, LinkOK
  <2>1. CASE worker.cmd.op = "read"
    <3>1. dialog' = ApplyState(dialog, board) /\ Handle.q = queue
      BY <1>0, <1>8, <2>1 DEF Complete, Handle
    <3>. QED  BY <1>0, <1>5, <2>0, <3>1, AppliedOK
  <2>2. CASE worker.cmd.op # "read" /\ worker.cmd.from = "dialog" /\ dialog.client
    <3>1. dialog' = dialog /\ Handle.q = Append(queue, Read)
      BY <1>8, <2>2 DEF Complete, Handle
    <3>2. Append(queue, Read) \in Seq(Sent)
      BY <1>0, ReadType, AppendProperties
    <3>3. /\ Len(queue) + 1 \in DOMAIN Append(queue, Read)
          /\ Append(queue, Read)[Len(queue) + 1] = Read
      BY <1>0
    <3>. QED  BY <1>0, <1>5, <2>0, <3>1, <3>2, <3>3, ReadType
  <2>3. CASE worker.cmd.op # "read" /\ worker.cmd.from = "dialog" /\ ~dialog.client
    <3>1. dialog' = [CancelSelection(dialog) EXCEPT !.routing = AllOpen]
          /\ Handle.q = queue
      BY <1>8, <2>3 DEF Complete, Handle
    <3>. QED  BY <1>0, <1>5, <2>3, <3>1, BlankOK
  <2>4. CASE worker.cmd.op # "read" /\ worker.cmd.from # "dialog"
    <3>1. dialog' = dialog /\ Handle.q = queue
      BY <1>8, <2>4 DEF Complete, Handle
    <3>2. ~Alone
      BY <1>0, <1>8, <2>4 DEF IInv, BackOK, Sent, Alone
    <3>. QED  BY <1>0, <1>5, <2>0, <3>1, <3>2
  <2>. QED  BY <2>1, <2>2, <2>3, <2>4
<1>. QED  BY <1>0, <1>6, <1>7, <1>8

-----------------------------------------------------------------------------
LEMMA InitOK == Init => IInv
<1>. SUFFICES ASSUME Init PROVE IInv
  OBVIOUS
<1>1. DialogOK(dialog) /\ BoardOK
  BY AllOpenType DEF Init, DialogOK, Dialogs, BoardOK
<1>2. WorkOK /\ BackOK /\ LinkOK /\ ShownOrComing
  BY DEF Init, WorkOK, BackOK, LinkOK, ShownOrComing, Idle
<1>. QED  BY <1>1, <1>2 DEF Init, IInv

LEMMA Step == IInv /\ [Next]_<<use, vars>> => IInv'
<1>. SUFFICES ASSUME IInv, [Next]_<<use, vars>> PROVE IInv'
  OBVIOUS
<1>1. CASE UNCHANGED <<use, vars>>
  BY <1>1 DEF vars, IInv, BoardOK, DialogOK, WorkOK, BackOK, LinkOK, ShownOrComing,
     Coming, Sent, Alone, WindowActs, Errors
<1>2. CASE User /\ UNCHANGED use
  BY <1>2, UserStep
<1>3. CASE Work /\ UNCHANGED use
  BY <1>3, ExecuteStep, CompleteStep DEF Work
<1>. QED  BY <1>1, <1>2, <1>3 DEF Next

\* In every use of the dialog an output selected for a new route is one it
\* shows as disconnected; and where the dialog is the only one to switch the
\* crossbar and commands fail with the connection only, it shows the crossbar
\* as it is whenever no command is out (afm_schematic.py:14).
THEOREM DialogAlwaysTruthful == Spec => []DialogIsTruthful
<1>1. IInv => DialogIsTruthful
  <2>. SUFFICES ASSUME IInv PROVE DialogIsTruthful
    OBVIOUS
  <2>1. TypeOK
    <3>1. worker.state \in {"idle", "out", "back"}
      BY DEF IInv, WorkOK, Idle
    <3>2. worker.state = "idle" => queue = <<>>
      BY DEF IInv, WorkOK, Idle
    <3>3. /\ dialog.routing \in Routings /\ dialog.seen \in 0 .. board.changes
          /\ {dialog.selecting, dialog.asking} \subseteq Outs \cup {NoOut}
          /\ {dialog.visible, dialog.client} \subseteq BOOLEAN
      BY DEF IInv, DialogOK, Dialogs, BoardOK
    <3>. QED  BY <3>1, <3>2, <3>3 DEF IInv, BoardOK, TypeOK
  <2>2. SelectionIsFree
    BY DEF IInv, DialogOK, SelectionIsFree
  <2>3. Alone => MirrorsBoard
    BY DEF IInv, WorkOK, LinkOK, ShownOrComing, Coming, MirrorsBoard, AtRest, Idle
  <2>. QED  BY <2>1, <2>2, <2>3 DEF DialogIsTruthful
<1>. QED  BY <1>1, InitOK, Step, PTL DEF Spec
=============================================================================
