-------------------------- MODULE GuiSession_proofs --------------------------
(***************************************************************************)
(* Proofs about the main window, for any number of clicks and connections:  *)
(* what it keeps whoever the user is, and what more in the hands of a       *)
(* patient one.                                                             *)
(***************************************************************************)
EXTENDS GuiSession, TLAPS

Queued == [job : Jobs, on : {None}]
Fields ==
  {"client", "shown", "controls", "board", "boardFrom", "measureBtn", "cancelText",
   "cancelling", "worker", "connectWorker", "commandWorker", "workers", "commands",
   "pending", "spectrum", "params", "dialog", "dialogClient", "closing", "made"}
WindowOK(w) ==
  /\ DOMAIN w = Fields
  /\ w.client \in Clients /\ w.boardFrom \in Clients \cup {None}
  /\ w.shown \in {"off", "connecting", "on"}
  /\ {w.controls, w.board, w.measureBtn, w.cancelText, w.cancelling, w.closing} \subseteq BOOLEAN
  /\ {w.worker, w.connectWorker, w.commandWorker, w.pending, w.spectrum, w.params, w.made}
       \cup w.workers \subseteq Nat
  /\ w.commands \in Seq(Queued)
  /\ w.dialog = FALSE /\ w.dialogClient = None
Workers ==
  [id : Nat \ {0}, kind : Kinds, on : Clients \cup {None}, job : Jobs,
   at : {"new", "calling", "winding"}]
Results ==
  [kind : Kinds, id : Nat \ {0}, on : Clients \cup {None}, job : Jobs,
   out : {"ok", "error"}]

\* The invariant is about a window w, its threads ts, the results ev that wait
\* for it and the sockets lk, so that it can be stated of the states a handler
\* goes through as well.

Typed(w, ts, ev, lk) ==
  /\ WindowOK(w) /\ ts \subseteq Workers /\ ev \in Seq(Results)
  /\ lk \in [Clients -> BOOLEAN]

\* Workers are numbered in the order they were made, and the window has their
\* numbers.
Numbered(w, ts) ==
  /\ \A t \in ts : t.id <= w.made
  /\ \A t, u \in ts : t.id = u.id => t = u
  /\ {w.worker, w.connectWorker, w.commandWorker, w.pending, w.spectrum, w.params}
       \cup w.workers \subseteq 0 .. w.made
  /\ w.pending = w.worker /\ w.spectrum = w.params
  /\ \A t \in ts : /\ t.kind = "measure" <=> t.id = w.worker
                   /\ t.kind = "connect" => t.id = w.connectWorker
                   /\ t.kind = "command" => t.id \in w.workers

Active(ts) == {t \in ts : t.at # "winding"}

\* A worker runs, or its result waits to be handled.
Doing(k, ts, ev) ==
  (\E t \in Active(ts) : t.kind = k) \/ (ev # <<>> /\ Head(ev).kind = k)

\* One thing is under way at a time.
OneAtATime(ts, ev) ==
  /\ \A t, u \in Active(ts) : t = u
  /\ Len(ev) <= 1 /\ (ev # <<>> => Active(ts) = {})

\* What the window says goes with what is under way.
Matching(w, ts, ev) ==
  /\ w.closing => ts = {} /\ ev = <<>>
  /\ ~w.closing =>
       /\ w.commandWorker # None <=> Doing("command", ts, ev)
       /\ w.commands # <<>> => w.commandWorker # None
       /\ \A t \in Active(ts) : t.kind = "command" => t.id = w.commandWorker
       /\ w.shown = "connecting" <=> Doing("connect", ts, ev)
       /\ w.cancelling => Doing("measure", ts, ev) /\ w.client < MaxClients
       /\ Doing("measure", ts, ev) =>
            /\ ~w.controls /\ w.shown = "on" /\ \A t \in ts : t.kind = "measure"
            /\ ev # <<>> => Head(ev).id = w.worker
       /\ w.commandWorker # None => w.shown = "on"

\* A call is on the connection there is, which is open until the call fails or
\* is cancelled.
OnItsConnection(w, ts, ev, lk) ==
  /\ \A t \in Active(ts) :
       /\ t.on = w.client \/ (t.kind = "command" /\ t.at = "new" /\ t.on = None)
       /\ t.at = "calling" /\ ~w.cancelling => lk[w.client]
  /\ ev # <<>> =>
       /\ Head(ev).on = w.client
       /\ Head(ev).out = "ok" /\ ~w.cancelling => lk[w.client]
       /\ Head(ev).kind = "connect" /\ Head(ev).out = "error" => ~lk[w.client]
  /\ Active(ts) = {} /\ ev = <<>> /\ ~w.closing => (w.shown = "on" <=> lk[w.client])

Truthful(w) ==
  /\ w.controls \/ w.measureBtn => w.shown = "on"
  /\ w.board => w.boardFrom = w.client /\ w.shown = "on"

InvOf(w, ts, ev, lk) ==
  /\ Typed(w, ts, ev, lk) /\ Numbered(w, ts) /\ OneAtATime(ts, ev)
  /\ Matching(w, ts, ev) /\ OnItsConnection(w, ts, ev, lk) /\ Truthful(w)

Inv == InvOf(win, threads, events, link)

-----------------------------------------------------------------------------
(* The window of any user *)

AnyQueued == [job : Jobs, on : Clients \cup {None}]
AnyWindow(w) ==
  /\ DOMAIN w = Fields
  /\ w.client \in Clients /\ w.dialogClient \in Clients \cup {None}
  /\ w.shown \in {"off", "connecting", "on"}
  /\ w.commands \in Seq(AnyQueued)
  /\ w.made \in Nat
  /\ {w.worker, w.connectWorker, w.commandWorker, w.pending, w.spectrum, w.params}
       \cup w.workers \subseteq 0 .. w.made
  /\ w.cancelling => w.client < MaxClients

\* Workers are told apart by their numbers; one measures at most, and one is
\* the command under way.
AnyThreads(w, ts) ==
  /\ ts \subseteq Workers
  /\ \A t \in ts : t.id <= w.made
  /\ \A t, u \in ts : t.id = u.id => t = u
  /\ \A t \in ts : t.kind = "measure" => t.id = w.worker
  /\ \A t \in Active(ts) : t.kind = "command" => t.id = w.commandWorker

\* The result of a command is the only one, and that of the command under way,
\* which is over.
AnyResults(w, ts, ev) ==
  /\ ev \in Seq(Results)
  /\ \A i \in 1 .. Len(ev) : ev[i].id <= w.made
  /\ \A i, j \in 1 .. Len(ev) : ev[i].kind = "command" /\ ev[j].kind = "command" => i = j
  /\ \A i \in 1 .. Len(ev) : ev[i].kind = "command" =>
       /\ w.commandWorker # None
       /\ \A t \in Active(ts) : t.kind # "command"

\* A measurement that is not overtaken is that of the parameters.
NotOvertaken(w, ev) ==
  "overtake" \notin UserMay =>
    /\ w.spectrum = w.params /\ w.pending = w.worker
    /\ \A i \in 1 .. Len(ev) : ev[i].kind = "measure" => ev[i].id = w.worker

SoundOf(w, ts, ev) ==
  /\ AnyWindow(w) /\ AnyThreads(w, ts) /\ AnyResults(w, ts, ev) /\ NotOvertaken(w, ev)

Sound == SoundOf(win, threads, events) /\ link \in [Clients -> BOOLEAN]

-----------------------------------------------------------------------------
(* What handlers are made of *)

LEMMA Constants ==
  /\ MaxClients \in Nat \ {0} /\ Clients \subseteq Nat \ {0} /\ None \notin Clients
  /\ \A c \in Clients : c < MaxClients => c + 1 \in Clients
BY SessionAssumption DEF SessionAssumption, Clients, None

State(w, ts) == [w |-> w, ts |-> ts]
NewWorker(w, kind, on, job) ==
  [id |-> w.made + 1, kind |-> kind, on |-> on, job |-> job, at |-> "new"]

\* The next command of the queue becomes a worker.
NextCommand(w, ts) ==
  [w EXCEPT !.made = w.made + 1, !.commands = Tail(w.commands),
            !.commandWorker = w.made + 1,
            !.workers = (w.workers \cap Ids(ts)) \cup {w.made + 1}]

LEMMA StateFields ==
  \A w, ts : State(w, ts).w = w /\ State(w, ts).ts = ts
BY DEF State

LEMMA StartNextIs ==
  ASSUME NEW w, DOMAIN w = Fields, NEW ts,
         ~w.closing, w.commandWorker = None, w.commands # <<>>
  PROVE  StartNextCommand(State(w, ts)) =
           State(NextCommand(w, ts),
                 ts \cup {NewWorker(w, "command", Head(w.commands).on, Head(w.commands).job)})
<1>. DEFINE h == Head(w.commands)
            v == [w EXCEPT !.made = w.made + 1]
<1>1. Start(State(w, ts), "command", h.on, h.job)
        = State(v, ts \cup {NewWorker(w, "command", h.on, h.job)})
  BY DEF Start, State, NewWorker
<1>2. v.made = w.made + 1
  BY DEF Fields
<1>3. v.workers = w.workers /\ v.commands = w.commands
  BY DEF Fields
<1>. DEFINE n == Start(State(w, ts), "command", h.on, h.job)
<1>4. n.w = v /\ n.ts = ts \cup {NewWorker(w, "command", h.on, h.job)}
  BY <1>1 DEF State
<1>5. StartNextCommand(State(w, ts))
        = State([n.w EXCEPT !.commands = Tail(@), !.commandWorker = n.w.made,
                            !.workers = (@ \cap Ids(ts)) \cup {n.w.made}], n.ts)
  BY DEF StartNextCommand, Showing, State
<1>. HIDE DEF n
<1>. QED  BY <1>2, <1>4, <1>5 DEF NextCommand

LEMMA StartNextNothing ==
  ASSUME NEW w, NEW ts, w.closing \/ w.commandWorker # None \/ w.commands = <<>>
  PROVE  StartNextCommand(State(w, ts)) = State(w, ts)
BY DEF StartNextCommand, State

\* Nothing is under way, and the next command has not been started.
Paused(w, ts, lk) ==
  /\ Typed(w, ts, <<>>, lk) /\ Numbered(w, ts) /\ Truthful(w)
  /\ Active(ts) = {} /\ ~w.closing /\ ~w.cancelling /\ w.commandWorker = None
  /\ w.shown # "connecting" /\ (w.shown = "on" <=> lk[w.client])
  /\ w.commands # <<>> => w.shown = "on"

\* The window takes commands.
Open(w, ts, lk) ==
  /\ InvOf(w, ts, <<>>, lk)
  /\ ~w.closing /\ w.shown = "on" /\ ~Doing("measure", ts, <<>>)

LEMMA PausedInv ==
  ASSUME NEW w, NEW ts, NEW lk, Paused(w, ts, lk), w.commands = <<>>
  PROVE  InvOf(w, ts, <<>>, lk) /\ ~Doing("measure", ts, <<>>)
BY DEF Paused, InvOf, OneAtATime, Matching, OnItsConnection, Doing

LEMMA PausedStarts ==
  ASSUME NEW w, NEW ts, NEW lk, Paused(w, ts, lk)
  PROVE  LET s == StartNextCommand(State(w, ts))
         IN  /\ s = State(s.w, s.ts) /\ InvOf(s.w, s.ts, <<>>, lk)
             /\ w.shown = "on" => Open(s.w, s.ts, lk)
<1>1. CASE w.commands = <<>>
  BY <1>1, PausedInv, StartNextNothing DEF State, Open, Paused
<1>2. CASE w.commands # <<>>
  <2>. DEFINE c == Head(w.commands)
              x == NewWorker(w, "command", c.on, c.job)
              v == NextCommand(w, ts)
              us == ts \cup {x}
  <2>1. WindowOK(w) /\ ts \subseteq Workers /\ lk \in [Clients -> BOOLEAN] /\ w.shown = "on"
    BY <1>2 DEF Paused, Typed
  <2>2. StartNextCommand(State(w, ts)) = State(v, us)
    BY <1>2, <2>1, StartNextIs DEF Paused, WindowOK
  <2>3. c \in Queued /\ Tail(w.commands) \in Seq(Queued)
    BY <1>2, <2>1 DEF WindowOK
  <2>. HIDE DEF c
  <2>4. x \in Workers /\ x.id = w.made + 1 /\ x.kind = "command" /\ x.at = "new" /\ x.on = None
    <3>1. w.made \in Nat
      BY <2>1 DEF WindowOK
    <3>2. c.job \in Jobs /\ c.on = None
      BY <2>3 DEF Queued
    <3>. QED  BY <3>1, <3>2 DEF NewWorker, Workers, Kinds
  <2>5. /\ v.made = w.made + 1 /\ v.commands = Tail(w.commands) /\ v.commandWorker = w.made + 1
        /\ v.workers = (w.workers \cap Ids(ts)) \cup {w.made + 1}
        /\ v.client = w.client /\ v.shown = "on" /\ v.worker = w.worker
        /\ v.connectWorker = w.connectWorker /\ v.pending = w.pending
        /\ v.spectrum = w.spectrum /\ v.params = w.params
        /\ v.closing = w.closing /\ v.cancelling = w.cancelling
        /\ v.board = w.board /\ v.boardFrom = w.boardFrom
    BY <2>1 DEF WindowOK, Fields, NextCommand
  <2>5a. WindowOK(v)
    <3>1. /\ DOMAIN v = Fields /\ v.controls = w.controls /\ v.measureBtn = w.measureBtn
          /\ v.cancelText = w.cancelText /\ v.dialog = w.dialog
          /\ v.dialogClient = w.dialogClient
      BY <2>1 DEF WindowOK, Fields, NextCommand
    <3>2. v.made \in Nat /\ v.workers \subseteq Nat
      <4>1. w.made \in Nat /\ w.workers \subseteq Nat
        BY <2>1 DEF WindowOK
      <4>. HIDE DEF v
      <4>. QED  BY <2>5, <4>1
    <3>. HIDE DEF v
    <3>. QED  BY <2>1, <2>3, <2>5, <3>1, <3>2 DEF WindowOK
  <2>6. w.made \in Nat /\ w.worker \in Nat /\ w.worker <= w.made
    BY <2>1 DEF Paused, Numbered, WindowOK
  <2>. HIDE DEF x, v
  <2>7. Typed(v, us, <<>>, lk)
    BY <2>1, <2>4, <2>5a DEF Typed
  <2>8. Numbered(v, us)
    <3>1. \A t \in ts : t.id \in Nat /\ t.id <= w.made /\ t.id # x.id
      BY <2>1, <2>4, <2>6 DEF Paused, Numbered, Workers
    <3>2. /\ \A t \in us : t.id <= v.made
          /\ \A t, u \in us : t.id = u.id => t = u
      BY <2>4, <2>5, <2>6, <3>1 DEF Paused, Numbered
    <3>3. {v.worker, v.connectWorker, v.commandWorker, v.pending, v.spectrum, v.params}
            \cup v.workers \subseteq 0 .. v.made
      BY <2>5, <2>6 DEF Paused, Numbered
    <3>4. \A t \in ts : t.id \in Ids(ts)
      BY DEF Ids
    <3>5. \A t \in us : /\ t.kind = "measure" <=> t.id = v.worker
                        /\ t.kind = "connect" => t.id = v.connectWorker
                        /\ t.kind = "command" => t.id \in v.workers
      BY <2>4, <2>5, <2>6, <3>1, <3>4 DEF Paused, Numbered
    <3>. QED  BY <2>5, <3>2, <3>3, <3>5 DEF Paused, Numbered
  <2>9. Active(us) = {x}
    BY <2>4 DEF Paused, Active
  <2>10. OneAtATime(us, <<>>) /\ Doing("command", us, <<>>)
         /\ ~Doing("measure", us, <<>>) /\ ~Doing("connect", us, <<>>)
    BY <2>4, <2>9 DEF OneAtATime, Doing
  <2>11. Matching(v, us, <<>>)
    <3>1. v.commandWorker # None /\ x.id = v.commandWorker
      BY <2>4, <2>5, <2>6 DEF None
    <3>. QED  BY <2>4, <2>5, <2>9, <2>10, <3>1 DEF Matching, Paused
  <2>12. OnItsConnection(v, us, <<>>, lk)
    BY <2>4, <2>5, <2>9 DEF OnItsConnection, Paused
  <2>13. Truthful(v)
    BY <2>5 DEF Truthful, Paused
  <2>14. InvOf(v, us, <<>>, lk) /\ Open(v, us, lk)
    BY <2>5, <2>7, <2>8, <2>10, <2>11, <2>12, <2>13 DEF InvOf, Open, Paused
  <2>15. State(v, us).w = v /\ State(v, us).ts = us
    BY DEF State
  <2>. HIDE DEF us
  <2>. QED  BY <2>2, <2>14, <2>15
<1>. QED  BY <1>1, <1>2

\* A command joins the queue.
Joined(w, job) == [w EXCEPT !.commands = Append(w.commands, [job |-> job, on |-> None])]

LEMMA RunCommandIs ==
  ASSUME NEW w, NEW ts, NEW job
  PROVE  RunCommand(State(w, ts), job, None) = StartNextCommand(State(Joined(w, job), ts))
BY DEF RunCommand, State, Showing, Joined

LEMMA JoinedFields ==
  ASSUME NEW w, WindowOK(w), NEW job \in Jobs
  PROVE  LET v == Joined(w, job)
         IN  /\ WindowOK(v) /\ v.commands # <<>>
             /\ v.made = w.made /\ v.commandWorker = w.commandWorker /\ v.workers = w.workers
             /\ v.client = w.client /\ v.shown = w.shown /\ v.worker = w.worker
             /\ v.connectWorker = w.connectWorker /\ v.pending = w.pending
             /\ v.spectrum = w.spectrum /\ v.params = w.params
             /\ v.closing = w.closing /\ v.cancelling = w.cancelling
             /\ v.board = w.board /\ v.boardFrom = w.boardFrom
             /\ v.controls = w.controls /\ v.measureBtn = w.measureBtn
<1>1. [job |-> job, on |-> None] \in Queued
  BY DEF Queued
<1>2. w.commands \in Seq(Queued)
  BY DEF WindowOK
<1>3. /\ Append(w.commands, [job |-> job, on |-> None]) \in Seq(Queued)
      /\ Append(w.commands, [job |-> job, on |-> None]) # <<>>
  BY <1>1, <1>2
<1>. QED  BY <1>3 DEF WindowOK, Fields, Joined

\* A command of the window runs at once, or waits for the one that runs.
LEMMA PausedRuns ==
  ASSUME NEW w, NEW ts, NEW lk, Paused(w, ts, lk), w.shown = "on", NEW job \in Jobs
  PROVE  LET s == RunCommand(State(w, ts), job, None)
         IN  s = State(s.w, s.ts) /\ Open(s.w, s.ts, lk) /\ s.w.commandWorker # None
<1>. DEFINE v == Joined(w, job)
<1>1. WindowOK(w)
  BY DEF Paused, Typed
<1>2. Paused(v, ts, lk) /\ v.shown = "on" /\ v.commands # <<>>
  BY <1>1, JoinedFields DEF Paused, Typed, Numbered, Truthful
<1>3. StartNextCommand(State(v, ts)).w.commandWorker = v.made + 1 /\ v.made \in Nat
  <2>. HIDE DEF v
  <2>1. StartNextCommand(State(v, ts)).w = NextCommand(v, ts)
    <3>1. \A x, y : State(x, y).w = x
      BY DEF State
    <3>2. WindowOK(v) /\ ~v.closing /\ v.commandWorker = None /\ v.commands # <<>>
      BY <1>2 DEF Paused, Typed
    <3>3. PICK us : StartNextCommand(State(v, ts)) = State(NextCommand(v, ts), us)
      BY <3>2, StartNextIs DEF WindowOK
    <3>. QED  BY <3>1, <3>3
  <2>2. WindowOK(v)
    BY <1>2 DEF Paused, Typed
  <2>. QED  BY <2>1, <2>2 DEF NextCommand, WindowOK, Fields
<1>. HIDE DEF v
<1>. QED  BY <1>2, <1>3, PausedStarts, RunCommandIs DEF None, v

LEMMA OpenRuns ==
  ASSUME NEW w, NEW ts, NEW lk, Open(w, ts, lk), NEW job \in Jobs
  PROVE  LET s == RunCommand(State(w, ts), job, None)
         IN  s = State(s.w, s.ts) /\ Open(s.w, s.ts, lk) /\ s.w.commandWorker # None
<1>1. WindowOK(w)
  BY DEF Open, InvOf, Typed
<1>2. CASE w.commandWorker = None
  <2>1. ~Doing("command", ts, <<>>) /\ ~Doing("connect", ts, <<>>) /\ w.commands = <<>>
        /\ ~w.cancelling
    BY <1>2 DEF Open, InvOf, Matching
  <2>2. Active(ts) = {}
    BY <2>1 DEF Open, InvOf, Typed, Active, Doing, Workers, Kinds
  <2>3. Paused(w, ts, lk)
    BY <1>2, <2>1, <2>2 DEF Paused, Open, InvOf, OnItsConnection
  <2>. QED  BY <2>3, PausedRuns DEF Open
<1>3. CASE w.commandWorker # None
  <2>. DEFINE v == Joined(w, job)
  <2>1. Open(v, ts, lk) /\ v.commandWorker # None
    BY <1>1, <1>3, JoinedFields
    DEF Open, InvOf, Typed, Numbered, Matching, OnItsConnection, Truthful
  <2>2. RunCommand(State(w, ts), job, None) = State(v, ts)
    BY <2>1, RunCommandIs, StartNextNothing
  <2>. HIDE DEF v
  <2>. QED  BY <2>1, <2>2 DEF State
<1>. QED  BY <1>2, <1>3

-----------------------------------------------------------------------------
(* The window of any user stays sound *)

\* What of a window goes with its workers.
SameWorkers(v, w) ==
  /\ v.made = w.made /\ v.worker = w.worker /\ v.connectWorker = w.connectWorker
  /\ v.workers = w.workers /\ v.pending = w.pending
  /\ v.spectrum = w.spectrum /\ v.params = w.params

LEMMA ThreadChangesNothing ==
  ASSUME NEW w, NEW v, NEW ts, NEW ev, SoundOf(w, ts, ev), SameWorkers(v, w), AnyWindow(v),
         v.commandWorker = w.commandWorker
  PROVE  SoundOf(v, ts, ev)
BY DEF SoundOf, SameWorkers, AnyThreads, AnyResults, NotOvertaken

\* A new worker, under the next number.
LEMMA AnyNewWorker ==
  ASSUME NEW w, NEW ts, NEW ev, SoundOf(w, ts, ev),
         NEW v, AnyWindow(v), v.made = w.made + 1,
         v.spectrum = w.spectrum, v.params = w.params,
         NEW x \in Workers, x.id = w.made + 1,
         x.kind = "command" => v.commandWorker = x.id /\ w.commandWorker = None,
         x.kind # "command" => v.commandWorker = w.commandWorker,
         x.kind = "measure" => /\ v.worker = x.id /\ v.pending = x.id
                               /\ \A t \in ts : t.kind # "measure"
                               /\ "overtake" \notin UserMay => ev = <<>>,
         x.kind # "measure" => v.worker = w.worker /\ v.pending = w.pending
  PROVE  SoundOf(v, ts \cup {x}, ev)
<1>1. AnyThreads(w, ts) /\ AnyResults(w, ts, ev) /\ NotOvertaken(w, ev) /\ w.made \in Nat
  BY DEF SoundOf, AnyWindow
<1>2. \A t \in ts : t \in Workers /\ t.id \in Nat \ {0} /\ t.id <= w.made /\ t.id # x.id
  BY <1>1 DEF AnyThreads, Workers
<1>3. AnyThreads(v, ts \cup {x})
  <2>1. /\ ts \cup {x} \subseteq Workers /\ \A t \in ts \cup {x} : t.id <= v.made
        /\ \A t, u \in ts \cup {x} : t.id = u.id => t = u
    BY <1>1, <1>2 DEF AnyThreads
  <2>2. \A t \in ts \cup {x} : t.kind = "measure" => t.id = v.worker
    BY <1>1 DEF AnyThreads
  <2>3. \A t \in Active(ts \cup {x}) : t.kind = "command" => t.id = v.commandWorker
    BY <1>1, <1>2 DEF AnyThreads, Active, None
  <2>. QED  BY <2>1, <2>2, <2>3 DEF AnyThreads
<1>4. AnyResults(v, ts \cup {x}, ev)
  <2>0. \A i \in 1 .. Len(ev) : ev[i].id <= v.made
    <3>. SUFFICES ASSUME NEW i \in 1 .. Len(ev) PROVE ev[i].id <= v.made
      OBVIOUS
    <3>1. ev[i] \in Results /\ ev[i].id <= w.made
      BY <1>1 DEF AnyResults
    <3>2. ev[i].id \in Nat
      BY <3>1 DEF Results
    <3>. QED  BY <1>1, <3>1, <3>2
  <2>1. CASE x.kind = "command"
    BY <1>1, <2>0, <2>1 DEF AnyResults
  <2>2. CASE x.kind # "command"
    BY <1>1, <2>0, <2>2 DEF AnyResults, Active
  <2>. QED  BY <2>1, <2>2
<1>5. NotOvertaken(v, ev)
  <2>1. CASE x.kind = "measure"
    <3>1. ev = <<>> => 1 .. Len(ev) = {}
      OBVIOUS
    <3>. QED  BY <1>1, <2>1, <3>1 DEF NotOvertaken
  <2>2. CASE x.kind # "measure"
    BY <1>1, <2>2 DEF NotOvertaken
  <2>. QED  BY <2>1, <2>2
<1>. QED  BY <1>3, <1>4, <1>5 DEF SoundOf

LEMMA AnyStartNext ==
  ASSUME NEW w, NEW ts, NEW ev, SoundOf(w, ts, ev)
  PROVE  LET s == StartNextCommand(State(w, ts))
         IN  s = State(s.w, s.ts) /\ SoundOf(s.w, s.ts, ev)
<1>1. CASE w.closing \/ w.commandWorker # None \/ w.commands = <<>>
  BY <1>1, StartNextNothing, StateFields
<1>2. CASE ~w.closing /\ w.commandWorker = None /\ w.commands # <<>>
  <2>. DEFINE c == Head(w.commands)
              x == NewWorker(w, "command", c.on, c.job)
              v == NextCommand(w, ts)
              us == ts \cup {x}
  <2>1. AnyWindow(w) /\ w.made \in Nat /\ w.commands \in Seq(AnyQueued)
    BY DEF SoundOf, AnyWindow
  <2>2. StartNextCommand(State(w, ts)) = State(v, us)
    BY <1>2, <2>1, StartNextIs DEF AnyWindow
  <2>3. c \in AnyQueued /\ Tail(w.commands) \in Seq(AnyQueued)
    BY <1>2, <2>1
  <2>. HIDE DEF c
  <2>4. x \in Workers /\ x.id = w.made + 1 /\ x.kind = "command"
    <3>1. c.job \in Jobs /\ c.on \in Clients \cup {None}
      BY <2>3 DEF AnyQueued
    <3>. QED  BY <2>1, <3>1 DEF NewWorker, Workers, Kinds
  <2>5. /\ v.made = w.made + 1 /\ v.commands = Tail(w.commands) /\ v.commandWorker = w.made + 1
        /\ v.workers = (w.workers \cap Ids(ts)) \cup {w.made + 1}
        /\ v.client = w.client /\ v.shown = w.shown /\ v.worker = w.worker
        /\ v.connectWorker = w.connectWorker /\ v.pending = w.pending
        /\ v.spectrum = w.spectrum /\ v.params = w.params /\ v.dialogClient = w.dialogClient
        /\ v.cancelling = w.cancelling /\ DOMAIN v = Fields
    BY <2>1 DEF AnyWindow, Fields, NextCommand
  <2>. HIDE DEF v
  <2>6. AnyWindow(v)
    <3>1. \A i \in 0 .. w.made : i \in 0 .. v.made
      BY <2>1, <2>5
    <3>2. v.made \in Nat /\ v.commandWorker \in 0 .. v.made
      BY <2>1, <2>5
    <3>3. {v.worker, v.connectWorker, v.commandWorker, v.pending, v.spectrum, v.params}
            \cup v.workers \subseteq 0 .. v.made
      BY <2>1, <2>5, <3>1, <3>2 DEF AnyWindow
    <3>. QED  BY <2>1, <2>3, <2>5, <3>2, <3>3 DEF AnyWindow
  <2>. HIDE DEF x
  <2>7. SoundOf(v, us, ev)
    BY <1>2, <2>4, <2>5, <2>6, AnyNewWorker
  <2>. HIDE DEF us
  <2>. QED  BY <2>2, <2>7, StateFields
<1>. QED  BY <1>1, <1>2

LEMMA AnyRunCommand ==
  ASSUME NEW w, NEW ts, NEW ev, SoundOf(w, ts, ev),
         NEW job \in Jobs, NEW on \in Clients \cup {None}
  PROVE  LET s == RunCommand(State(w, ts), job, on)
         IN  s = State(s.w, s.ts) /\ SoundOf(s.w, s.ts, ev)
<1>. DEFINE q == Append(w.commands, [job |-> job, on |-> on])
            v == [w EXCEPT !.commands = q]
<1>1. AnyWindow(w) /\ q \in Seq(AnyQueued)
  <2>1. [job |-> job, on |-> on] \in AnyQueued
    BY DEF AnyQueued
  <2>. QED  BY <2>1 DEF SoundOf, AnyWindow
<1>2. RunCommand(State(w, ts), job, on) = StartNextCommand(State(v, ts))
  BY DEF RunCommand, State, Showing
<1>. HIDE DEF q
<1>3. AnyWindow(v) /\ SameWorkers(v, w) /\ v.commandWorker = w.commandWorker
  BY <1>1 DEF AnyWindow, Fields, SameWorkers
<1>. HIDE DEF v
<1>4. SoundOf(v, ts, ev)
  BY <1>3, ThreadChangesNothing
<1>. QED  BY <1>2, <1>4, AnyStartNext

LEMMA AnyRefreshStatus ==
  ASSUME NEW w, NEW ts, NEW ev, SoundOf(w, ts, ev)
  PROVE  LET s == RefreshStatus(State(w, ts))
         IN  s = State(s.w, s.ts) /\ SoundOf(s.w, s.ts, ev)
<1>1. "status" \in Jobs
  BY DEF Jobs
<1>2. CASE IsConnected
  BY <1>1, <1>2, AnyRunCommand DEF RefreshStatus
<1>3. CASE ~IsConnected
  BY <1>3, StateFields DEF RefreshStatus
<1>. QED  BY <1>2, <1>3

LEMMA AnyDialogRefresh ==
  ASSUME NEW w, NEW ts, NEW ev, SoundOf(w, ts, ev)
  PROVE  LET s == DialogRefresh(State(w, ts))
         IN  s = State(s.w, s.ts) /\ SoundOf(s.w, s.ts, ev)
<1>1. "refresh" \in Jobs /\ w.dialogClient \in Clients \cup {None}
  BY DEF Jobs, SoundOf, AnyWindow
<1>2. CASE w.dialogClient = None
  BY <1>2, StateFields DEF DialogRefresh
<1>3. CASE w.dialogClient # None
  <2>1. DialogRefresh(State(w, ts)) = RunCommand(State(w, ts), "refresh", w.dialogClient)
    BY <1>3, StateFields DEF DialogRefresh
  <2>. QED  BY <1>1, <2>1, AnyRunCommand
<1>. QED  BY <1>2, <1>3

LEMMA AnyConnectionUI ==
  ASSUME NEW w, NEW ts, NEW ev, SoundOf(w, ts, ev), NEW connected \in BOOLEAN
  PROVE  LET s == UpdateConnectionUI(State(w, ts), connected)
         IN  /\ s = State(s.w, s.ts) /\ SoundOf(s.w, s.ts, ev) /\ s.ts = ts
             /\ s.w.client = w.client /\ s.w.cancelling = w.cancelling
<1>. DEFINE shown == IF connected THEN "on" ELSE "off"
            u == [w EXCEPT !.shown = shown, !.controls = connected, !.measureBtn = connected]
            to == IF w.dialog THEN w.client ELSE w.dialogClient
            v == IF connected THEN [u EXCEPT !.dialogClient = to]
                 ELSE [u EXCEPT !.board = FALSE, !.dialogClient = None, !.commands = <<>>]
<1>1. AnyWindow(w) /\ shown \in {"on", "off"} /\ to \in Clients \cup {None}
  BY DEF SoundOf, AnyWindow
<1>2. UpdateConnectionUI(State(w, ts), connected) = State(v, ts)
  <2>1. u = SetControlsEnabled([w EXCEPT !.shown = shown], connected)
    BY DEF SetControlsEnabled
  <2>2. u.dialog = w.dialog /\ u.client = w.client /\ u.dialogClient = w.dialogClient
    BY <1>1 DEF AnyWindow, Fields
  <2>3. [u EXCEPT !.dialogClient = IF u.dialog THEN u.client ELSE @] = [u EXCEPT !.dialogClient = to]
    BY <2>2
  <2>. HIDE DEF u, to
  <2>. QED  BY <2>1, <2>3 DEF UpdateConnectionUI, State, Showing
<1>. HIDE DEF shown, to
<1>3. /\ AnyWindow(v) /\ SameWorkers(v, w) /\ v.commandWorker = w.commandWorker
      /\ v.client = w.client /\ v.cancelling = w.cancelling
  <2>1. CASE connected
    BY <1>1, <2>1 DEF AnyWindow, Fields, SameWorkers
  <2>2. CASE ~connected
    <3>1. <<>> \in Seq(AnyQueued)
      OBVIOUS
    <3>. QED  BY <1>1, <2>2, <3>1 DEF AnyWindow, Fields, SameWorkers
  <2>. QED  BY <2>1, <2>2
<1>. HIDE DEF v
<1>4. SoundOf(v, ts, ev)
  BY <1>3, ThreadChangesNothing
<1>. QED  BY <1>2, <1>3, <1>4, StateFields

LEMMA AnyStartConnect ==
  ASSUME NEW w, NEW ts, NEW ev, SoundOf(w, ts, ev), w.client < MaxClients,
         w.cancelling => w.client + 1 < MaxClients
  PROVE  LET s == StartConnect(State(w, ts)) IN SoundOf(s.w, s.ts, ev)
<1>. DEFINE u == [w EXCEPT !.client = w.client + 1, !.shown = "connecting"]
            x == NewWorker(w, "connect", w.client + 1, "connect")
            us == ts \cup {x}
            v == [u EXCEPT !.made = w.made + 1, !.connectWorker = w.made + 1]
<1>1. AnyWindow(w) /\ w.made \in Nat /\ w.client + 1 \in Clients
  BY Constants DEF SoundOf, AnyWindow
<1>2. StartConnect(State(w, ts)).w = v /\ StartConnect(State(w, ts)).ts = us
  <2>1. u.made = w.made
    BY <1>1 DEF AnyWindow, Fields
  <2>2. Start(State(u, ts), "connect", w.client + 1, "connect")
          = State([u EXCEPT !.made = w.made + 1], us)
    BY <2>1 DEF Start, State, NewWorker
  <2>3. [u EXCEPT !.made = w.made + 1].made = w.made + 1
    BY <1>1 DEF AnyWindow, Fields
  <2>. DEFINE n == Start(State(u, ts), "connect", w.client + 1, "connect")
  <2>4. StartConnect(State(w, ts)) = State([n.w EXCEPT !.connectWorker = n.w.made], n.ts)
    BY DEF StartConnect, Showing, State
  <2>5. n.w = [u EXCEPT !.made = w.made + 1] /\ n.ts = us
    BY <2>2, StateFields
  <2>. HIDE DEF n
  <2>6. [n.w EXCEPT !.connectWorker = n.w.made] = v
    BY <2>3, <2>5
  <2>. QED  BY <2>4, <2>5, <2>6, StateFields
<1>3. x \in Workers /\ x.id = w.made + 1 /\ x.kind = "connect"
  BY <1>1 DEF NewWorker, Workers, Kinds, Jobs
<1>4. /\ v.made = w.made + 1 /\ v.connectWorker = w.made + 1 /\ v.client = w.client + 1
      /\ v.shown = "connecting" /\ v.worker = w.worker /\ v.workers = w.workers
      /\ v.pending = w.pending /\ v.spectrum = w.spectrum /\ v.params = w.params
      /\ v.commands = w.commands /\ v.commandWorker = w.commandWorker
      /\ v.cancelling = w.cancelling /\ v.dialogClient = w.dialogClient /\ DOMAIN v = Fields
  BY <1>1 DEF AnyWindow, Fields
<1>. HIDE DEF u, x, v
<1>5. AnyWindow(v)
  <2>1. \A i \in 0 .. w.made : i \in 0 .. v.made
    BY <1>1, <1>4
  <2>2. v.made \in Nat /\ v.connectWorker \in 0 .. v.made
    BY <1>1, <1>4
  <2>3. {v.worker, v.connectWorker, v.commandWorker, v.pending, v.spectrum, v.params}
          \cup v.workers \subseteq 0 .. v.made
    BY <1>1, <1>4, <2>1, <2>2 DEF AnyWindow
  <2>4. v.commands \in Seq(AnyQueued) /\ v.dialogClient \in Clients \cup {None}
    BY <1>1, <1>4 DEF AnyWindow
  <2>. QED  BY <1>1, <1>4, <2>2, <2>3, <2>4 DEF AnyWindow
<1>6. SoundOf(v, us, ev)
  BY <1>3, <1>4, <1>5, AnyNewWorker
<1>. QED  BY <1>2, <1>6

LEMMA FewerThreads ==
  ASSUME NEW w, NEW ts, NEW ev, SoundOf(w, ts, ev), NEW us \in SUBSET ts
  PROVE  SoundOf(w, us, ev)
BY DEF SoundOf, AnyThreads, AnyResults, Active

LEMMA HandledResult ==
  ASSUME NEW w, NEW ts, NEW ev, SoundOf(w, ts, ev), ev # <<>>
  PROVE  /\ SoundOf(w, ts, Tail(ev)) /\ Head(ev) \in Results
         /\ Head(ev).kind = "command" =>
              /\ \A i \in 1 .. Len(Tail(ev)) : Tail(ev)[i].kind # "command"
              /\ \A t \in Active(ts) : t.kind # "command"
         /\ Head(ev).kind = "measure" /\ "overtake" \notin UserMay => Head(ev).id = w.worker
         /\ Head(ev).id \in 0 .. w.made
<1>1. AnyResults(w, ts, ev) /\ NotOvertaken(w, ev) /\ ev \in Seq(Results)
  BY DEF SoundOf, AnyResults
<1>2. /\ Tail(ev) \in Seq(Results) /\ Head(ev) = ev[1] /\ Head(ev) \in Results
      /\ 1 \in 1 .. Len(ev) /\ Len(ev) \in Nat
      /\ \A i \in 1 .. Len(Tail(ev)) :
           Tail(ev)[i] = ev[i + 1] /\ i + 1 \in 1 .. Len(ev) /\ i + 1 # 1
      /\ \A i, j \in 1 .. Len(Tail(ev)) : i + 1 = j + 1 => i = j
  BY <1>1
<1>. DEFINE rest == Tail(ev)
<1>3. AnyResults(w, ts, rest) /\ NotOvertaken(w, rest)
  <2>. HIDE DEF rest
  <2>1. /\ rest \in Seq(Results)
        /\ \A i \in 1 .. Len(rest) : rest[i] = ev[i + 1] /\ i + 1 \in 1 .. Len(ev)
        /\ \A i, j \in 1 .. Len(rest) : i + 1 = j + 1 => i = j
    BY <1>2 DEF rest
  <2>2. AnyResults(w, ts, rest)
    BY <1>1, <2>1 DEF AnyResults
  <2>3. NotOvertaken(w, rest)
    BY <1>1, <2>1 DEF NotOvertaken
  <2>. QED  BY <2>2, <2>3
<1>. HIDE DEF rest
<1>4. SoundOf(w, ts, rest)
  BY <1>3 DEF SoundOf
<1>5. Head(ev).kind = "command" =>
        /\ \A i \in 1 .. Len(Tail(ev)) : Tail(ev)[i].kind # "command"
        /\ \A t \in Active(ts) : t.kind # "command"
  BY <1>1, <1>2 DEF AnyResults
<1>6. Head(ev).kind = "measure" /\ "overtake" \notin UserMay => Head(ev).id = w.worker
  BY <1>1, <1>2 DEF NotOvertaken
<1>7. Head(ev).id \in 0 .. w.made
  <2>1. Head(ev).id <= w.made /\ Head(ev).id \in Nat /\ w.made \in Nat
    BY <1>1, <1>2 DEF AnyResults, Results, SoundOf, AnyWindow
  <2>. QED  BY <2>1
<1>. QED  BY <1>2, <1>4, <1>5, <1>6, <1>7 DEF rest

\* A worker goes on, and what it posts if it is over.
LEMMA AnyThreadGoesOn ==
  ASSUME Sound, NEW t \in threads, t.at # "winding", NEW u \in Workers,
         u.id = t.id, u.kind = t.kind,
         threads' = (threads \ {t}) \cup {u}, UNCHANGED win,
         \/ UNCHANGED events
         \/ u.at = "winding" /\ \E out \in {"ok", "error"} : Post(u, out)
  PROVE  SoundOf(win', threads', events')
<1>1. AnyThreads(win, threads) /\ AnyResults(win, threads, events) /\ NotOvertaken(win, events)
      /\ AnyWindow(win) /\ t \in Active(threads) /\ t \in Workers
  BY DEF Sound, SoundOf, Active, AnyThreads
<1>2. \A x \in threads' : x = u \/ (x \in threads /\ x # t /\ x.id # t.id)
  BY <1>1 DEF AnyThreads
<1>3. AnyThreads(win, threads')
  <2>1. threads' \subseteq Workers
    BY <1>1 DEF AnyThreads
  <2>2. \A x \in threads' : x.id <= win.made
    BY <1>1, <1>2 DEF AnyThreads
  <2>3. \A x, y \in threads' : x.id = y.id => x = y
    BY <1>1, <1>2 DEF AnyThreads
  <2>4. \A x \in threads' : x.kind = "measure" => x.id = win.worker
    BY <1>1, <1>2 DEF AnyThreads
  <2>5. \A x \in Active(threads') : x.kind = "command" => x.id = win.commandWorker
    BY <1>1, <1>2 DEF AnyThreads, Active
  <2>. QED  BY <2>1, <2>2, <2>3, <2>4, <2>5 DEF AnyThreads
<1>4. CASE UNCHANGED events
  <2>1. (\E x \in Active(threads') : x.kind = "command")
          => \E x \in Active(threads) : x.kind = "command"
    BY <1>1, <1>2 DEF Active
  <2>2. AnyResults(win, threads', events)
    BY <1>1, <2>1 DEF AnyResults
  <2>. QED  BY <1>1, <1>3, <1>4, <2>2 DEF SoundOf
<1>5. CASE u.at = "winding" /\ \E out \in {"ok", "error"} : Post(u, out)
  <2>1. PICK out \in {"ok", "error"} : Post(u, out)
    BY <1>5
  <2>. DEFINE e == [kind |-> u.kind, id |-> u.id, on |-> u.on, job |-> u.job, out |-> out]
              n == Len(events)
  <2>2. e \in Results /\ e.kind = t.kind /\ e.id = t.id
    BY <2>1 DEF Workers, Results
  <2>. HIDE DEF e
  <2>3. events \in Seq(Results) /\ events' = Append(events, e)
    BY <1>1, <2>1 DEF Post, AnyResults, e
  <2>4. /\ events' \in Seq(Results) /\ n \in Nat /\ Len(events') = n + 1
        /\ events'[n + 1] = e /\ \A i \in 1 .. n : events'[i] = events[i]
        /\ \A i \in 1 .. Len(events') : i = n + 1 \/ i \in 1 .. n
    BY <2>2, <2>3
  <2>. HIDE DEF n
  <2>5. t.kind = "command" =>
          /\ \A i \in 1 .. n : events[i].kind # "command"
          /\ win.commandWorker # None
          /\ \A x \in Active(threads') : x.kind # "command"
    <3>. SUFFICES ASSUME t.kind = "command"
                  PROVE  /\ \A i \in 1 .. n : events[i].kind # "command"
                         /\ win.commandWorker # None
                         /\ \A x \in Active(threads') : x.kind # "command"
      OBVIOUS
    <3>1. \A i \in 1 .. n : events[i].kind # "command"
      BY <1>1 DEF AnyResults, n
    <3>2. t.id = win.commandWorker /\ t.id # None
      BY <1>1 DEF AnyThreads, Workers, None
    <3>3. \A x \in Active(threads') : x.kind # "command"
      BY <1>1, <1>2, <1>5, <3>2 DEF Active, AnyThreads
    <3>. QED  BY <3>1, <3>2, <3>3
  <2>6. (\E x \in Active(threads') : x.kind = "command")
          => \E x \in Active(threads) : x.kind = "command"
    BY <1>1, <1>2 DEF Active
  <2>7. AnyResults(win, threads', events')
    <3>1. \A i, j \in 1 .. Len(events') :
            events'[i].kind = "command" /\ events'[j].kind = "command" => i = j
      BY <1>1, <2>2, <2>4, <2>5 DEF AnyResults, n
    <3>2. \A i \in 1 .. Len(events') : events'[i].kind = "command" =>
            /\ win.commandWorker # None
            /\ \A x \in Active(threads') : x.kind # "command"
      BY <1>1, <2>2, <2>4, <2>5, <2>6 DEF AnyResults, n
    <3>3. \A i \in 1 .. Len(events') : events'[i].id <= win.made
      BY <1>1, <2>2, <2>4 DEF AnyResults, AnyThreads, n
    <3>. QED  BY <2>4, <3>1, <3>2, <3>3 DEF AnyResults
  <2>8. NotOvertaken(win, events')
    <3>1. t.kind = "measure" => t.id = win.worker
      BY <1>1 DEF AnyThreads
    <3>. QED  BY <1>1, <2>2, <2>4, <3>1 DEF NotOvertaken, n
  <2>. QED  BY <1>1, <1>3, <2>7, <2>8 DEF SoundOf
<1>. QED  BY <1>4, <1>5

LEMMA AtFields ==
  ASSUME NEW t \in Workers, NEW at \in {"new", "calling", "winding"}
  PROVE  LET u == [t EXCEPT !.at = at]
         IN  /\ u \in Workers /\ u.id = t.id /\ u.kind = t.kind /\ u.on = t.on
             /\ u.job = t.job /\ u.at = at
BY DEF Workers

LEMMA SoundParts ==
  ASSUME Sound
  PROVE  /\ AnyWindow(win) /\ win.client \in Clients /\ threads \subseteq Workers
         /\ \A t \in threads : t \in Workers
         /\ link \in [Clients -> BOOLEAN] /\ SoundOf(win, threads, events)
BY DEF Sound, SoundOf, AnyWindow, AnyThreads

LEMMA ThreadSound ==
  ASSUME Sound, NEW t \in threads, Thread(t)
  PROVE  SoundOf(win', threads', events') /\ link' \in [Clients -> BOOLEAN]
<1>1. t \in Workers /\ win.client \in Clients /\ link \in [Clients -> BOOLEAN]
  BY SoundParts
<1>2. CASE Run(t)
  <2>. DEFINE u == [t EXCEPT !.on = IF t.on = None THEN win.client ELSE t.on]
              x == [u EXCEPT !.at = "winding"]
              y == [u EXCEPT !.at = "calling"]
  <2>1. u \in Workers /\ u.id = t.id /\ u.kind = t.kind
    BY <1>1 DEF Workers
  <2>. HIDE DEF u
  <2>2. /\ x \in Workers /\ x.id = t.id /\ x.kind = t.kind /\ x.at = "winding"
        /\ x.on = u.on /\ x.job = u.job
        /\ y \in Workers /\ y.id = t.id /\ y.kind = t.kind
    BY <2>1, AtFields
  <2>3. /\ \/ threads' = (threads \ {t}) \cup {x} /\ Post(u, "error")
           \/ threads' = (threads \ {t}) \cup {y} /\ UNCHANGED events
        /\ t.at # "winding" /\ UNCHANGED <<win, link>>
    BY <1>2 DEF Run, u
  <2>4. Post(u, "error") => Post(x, "error")
    BY <2>1, <2>2 DEF Post
  <2>. HIDE DEF x, y
  <2>. QED  BY <1>1, <2>2, <2>3, <2>4, AnyThreadGoesOn
<1>3. CASE Return(t) \/ Connected(t) \/ ConnectFails(t)
  <2>. DEFINE u == [t EXCEPT !.at = "winding"]
  <2>1. /\ u \in Workers /\ u.id = t.id /\ u.kind = t.kind /\ u.at = "winding"
        /\ u.on = t.on /\ u.job = t.job
    BY <1>1, AtFields
  <2>2. /\ threads' = (threads \ {t}) \cup {u} /\ UNCHANGED win /\ t.at # "winding"
        /\ \E out \in {"ok", "error"} : Post(t, out)
        /\ link' \in {link, [link EXCEPT ![t.on] = FALSE]}
    BY <1>3 DEF Return, Connected, ConnectFails, At, Calling
  <2>3. \A out : Post(t, out) => Post(u, out)
    BY <2>1 DEF Post
  <2>4. link' \in [Clients -> BOOLEAN]
    BY <1>1, <2>2
  <2>. HIDE DEF u
  <2>. QED  BY <2>1, <2>2, <2>3, <2>4, AnyThreadGoesOn
<1>4. CASE SocketMade(t)
  <2>. DEFINE u == [t EXCEPT !.at = "calling"]
  <2>1. u \in Workers /\ u.id = t.id /\ u.kind = t.kind
    BY <1>1, AtFields
  <2>2. /\ threads' = (threads \ {t}) \cup {u} /\ UNCHANGED <<win, events>> /\ t.at # "winding"
        /\ link' \in [Clients -> BOOLEAN]
    BY <1>1, <1>4 DEF SocketMade, At
  <2>. HIDE DEF u
  <2>. QED  BY <2>1, <2>2, AnyThreadGoesOn
<1>5. CASE Ends(t)
  <2>1. threads' \in SUBSET threads /\ UNCHANGED <<win, events, link>>
    BY <1>5 DEF Ends
  <2>. QED  BY <1>1, <2>1, FewerThreads, SoundParts
<1>. QED  BY <1>2, <1>3, <1>4, <1>5 DEF Thread

LEMMA NowIsState ==
  Now = State(win, threads) /\ \A w : Showing(Now, w) = State(w, threads)
BY DEF Now, State, Showing

LEMMA ButtonSound ==
  ASSUME Sound, OnConnect \/ OnCommand
  PROVE  SoundOf(win', threads', events') /\ link' \in [Clients -> BOOLEAN]
<1>1. /\ SoundOf(win, threads, events) /\ link \in [Clients -> BOOLEAN] /\ UNCHANGED events
      /\ AnyWindow(win) /\ win.client \in Clients
  BY SoundParts DEF OnConnect, OnCommand
<1>2. CASE OnConnect /\ IsConnected
  <2>1. /\ win' = UpdateConnectionUI(State(win, threads), FALSE).w
        /\ threads' = UpdateConnectionUI(State(win, threads), FALSE).ts
        /\ link' = [link EXCEPT ![win.client] = FALSE]
    BY <1>2, NowIsState DEF OnConnect, Becomes
  <2>. QED  BY <1>1, <2>1, AnyConnectionUI
<1>3. CASE OnConnect /\ ~IsConnected
  <2>1. /\ win' = StartConnect(State(win, threads)).w
        /\ threads' = StartConnect(State(win, threads)).ts /\ UNCHANGED link
        /\ win.client + (IF win.cancelling THEN 1 ELSE 0) < MaxClients
    BY <1>3, NowIsState DEF OnConnect, Becomes
  <2>2. win.client < MaxClients /\ (win.cancelling => win.client + 1 < MaxClients)
    <3>1. win.client \in Nat /\ MaxClients \in Nat
      BY <1>1, Constants
    <3>2. CASE win.cancelling
      BY <2>1, <3>1, <3>2
    <3>3. CASE ~win.cancelling
      BY <2>1, <3>1, <3>3
    <3>. QED  BY <3>2, <3>3
  <2>. QED  BY <1>1, <2>1, <2>2, AnyStartConnect
<1>4. CASE OnCommand
  <2>. DEFINE s1 == RunCommand(State(win, threads), "init", None)
              s2 == RunCommand(State(win, threads), "board", None)
              s3 == RefreshStatus(State(win, threads))
              s4 == RefreshStatus(s2)
  <2>1. /\ \/ win' = s1.w /\ threads' = s1.ts
           \/ win' = s2.w /\ threads' = s2.ts
           \/ win' = s3.w /\ threads' = s3.ts
           \/ win' = s4.w /\ threads' = s4.ts
        /\ UNCHANGED link
    BY <1>4, NowIsState DEF OnCommand, Becomes
  <2>2. {"init", "board"} \subseteq Jobs /\ None \in Clients \cup {None}
    BY DEF Jobs
  <2>3. SoundOf(s1.w, s1.ts, events) /\ SoundOf(s3.w, s3.ts, events)
    BY <1>1, <2>2, AnyRunCommand, AnyRefreshStatus
  <2>4. s2 = State(s2.w, s2.ts) /\ SoundOf(s2.w, s2.ts, events)
    BY <1>1, <2>2, AnyRunCommand
  <2>. HIDE DEF s2
  <2>5. SoundOf(s4.w, s4.ts, events)
    BY <2>4, AnyRefreshStatus
  <2>. HIDE DEF s1, s3, s4
  <2>. QED  BY <1>1, <2>1, <2>3, <2>4, <2>5
<1>. QED  BY <1>2, <1>3, <1>4

LEMMA DialogSound ==
  ASSUME Sound, OnOpenSchematic \/ OnDialog
  PROVE  SoundOf(win', threads', events') /\ link' \in [Clients -> BOOLEAN]
<1>1. /\ SoundOf(win, threads, events) /\ link \in [Clients -> BOOLEAN]
      /\ UNCHANGED <<events, link>> /\ AnyWindow(win) /\ win.client \in Clients
  BY SoundParts DEF OnOpenSchematic, OnDialog
<1>2. CASE OnOpenSchematic
  <2>. DEFINE v == [win EXCEPT !.dialog = TRUE, !.dialogClient = win.client]
  <2>1. /\ win' = DialogRefresh(State(v, threads)).w
        /\ threads' = DialogRefresh(State(v, threads)).ts
    BY <1>2, NowIsState DEF OnOpenSchematic, Becomes
  <2>2. AnyWindow(v) /\ SameWorkers(v, win) /\ v.commandWorker = win.commandWorker
    BY <1>1 DEF AnyWindow, Fields, SameWorkers
  <2>. HIDE DEF v
  <2>3. SoundOf(v, threads, events)
    BY <1>1, <2>2, ThreadChangesNothing
  <2>. QED  BY <1>1, <2>1, <2>3, AnyDialogRefresh
<1>3. CASE OnDialog
  <2>1. PICK job \in {"refresh", "route"} :
          /\ win' = RunCommand(State(win, threads), job, win.dialogClient).w
          /\ threads' = RunCommand(State(win, threads), job, win.dialogClient).ts
    BY <1>3, NowIsState DEF OnDialog, Becomes
  <2>2. job \in Jobs /\ win.dialogClient \in Clients \cup {None}
    BY <1>1 DEF Jobs, AnyWindow
  <2>. QED  BY <1>1, <2>1, <2>2, AnyRunCommand
<1>. QED  BY <1>2, <1>3

LEMMA MeasureSound ==
  ASSUME Sound, OnMeasure
  PROVE  SoundOf(win', threads', events') /\ link' \in [Clients -> BOOLEAN]
<1>1. /\ SoundOf(win, threads, events) /\ link \in [Clients -> BOOLEAN]
      /\ UNCHANGED <<events, link>> /\ AnyWindow(win) /\ win.made \in Nat
      /\ win.client \in Clients
  BY SoundParts DEF OnMeasure, AnyWindow
<1>. DEFINE x == NewWorker(win, "measure", win.client, "measure")
            i == win.made + 1
            v == [[win EXCEPT !.made = i] EXCEPT
                    !.controls = FALSE, !.measureBtn = TRUE, !.cancelText = TRUE,
                    !.cancelling = FALSE, !.pending = i, !.worker = i]
            n == Start(Now, "measure", win.client, "measure")
<1>2. win' = v /\ threads' = threads \cup {x}
  <2>1. n = State([win EXCEPT !.made = i], threads \cup {x})
    BY DEF Start, Now, State, NewWorker
  <2>2. n.w = [win EXCEPT !.made = i] /\ n.ts = threads \cup {x}
    BY <2>1, StateFields
  <2>. HIDE DEF i
  <2>3. n.w.made = i
    BY <1>1, <2>2 DEF AnyWindow, Fields
  <2>4. /\ win' = [n.w EXCEPT !.controls = FALSE, !.measureBtn = TRUE,
                              !.cancelText = TRUE, !.cancelling = FALSE,
                              !.pending = n.w.made, !.worker = n.w.made]
        /\ threads' = n.ts
    BY DEF OnMeasure, Becomes, Showing
  <2>. HIDE DEF n, x
  <2>. QED  BY <2>2, <2>3, <2>4
<1>3. x \in Workers /\ x.id = i /\ x.kind = "measure"
  BY <1>1 DEF NewWorker, Workers, Kinds, Jobs
<1>4. /\ v.made = i /\ v.worker = i /\ v.pending = i /\ DOMAIN v = Fields
      /\ v.commands = win.commands /\ v.commandWorker = win.commandWorker
      /\ v.connectWorker = win.connectWorker /\ v.workers = win.workers
      /\ v.spectrum = win.spectrum /\ v.params = win.params
      /\ v.client = win.client /\ v.shown = win.shown /\ v.cancelling = FALSE
      /\ v.dialogClient = win.dialogClient
  <2>. HIDE DEF i
  <2>. QED  BY <1>1 DEF AnyWindow, Fields
<1>. HIDE DEF x, v
<1>5. AnyWindow(v)
  <2>1. \A j \in 0 .. win.made : j \in 0 .. v.made
    BY <1>1, <1>4
  <2>2. v.made \in Nat /\ v.worker \in 0 .. v.made /\ v.pending \in 0 .. v.made
    BY <1>1, <1>4
  <2>. HIDE DEF i
  <2>3. {v.worker, v.connectWorker, v.commandWorker, v.pending, v.spectrum, v.params}
          \cup v.workers \subseteq 0 .. v.made
    BY <1>1, <1>4, <2>1, <2>2 DEF AnyWindow
  <2>4. v.commands \in Seq(AnyQueued) /\ v.dialogClient \in Clients \cup {None}
        /\ v.shown \in {"off", "connecting", "on"}
    BY <1>1, <1>4 DEF AnyWindow
  <2>. QED  BY <1>1, <1>4, <2>2, <2>3, <2>4 DEF AnyWindow
<1>6. \A t \in threads : t.kind # "measure"
  BY SoundParts DEF Sound, SoundOf, AnyThreads, OnMeasure, IsRunning, Ids
<1>7. "overtake" \notin UserMay => events = <<>>
  BY DEF OnMeasure, Click, MayClick
<1>8. SoundOf(v, threads \cup {x}, events)
  BY <1>1, <1>3, <1>4, <1>5, <1>6, <1>7, AnyNewWorker
<1>. QED  BY <1>1, <1>2, <1>8

LEMMA LeaveSound ==
  ASSUME Sound, CancelMeasurement \/ CloseEvent
  PROVE  SoundOf(win', threads', events') /\ link' \in [Clients -> BOOLEAN]
<1>1. /\ SoundOf(win, threads, events) /\ link \in [Clients -> BOOLEAN] /\ AnyWindow(win)
      /\ link' = [link EXCEPT ![win.client] = FALSE] /\ UNCHANGED events
      /\ threads' \in SUBSET threads
  BY SoundParts DEF CancelMeasurement, CloseEvent
<1>2. AnyWindow(win') /\ SameWorkers(win', win) /\ win'.commandWorker = win.commandWorker
  <2>1. CASE CancelMeasurement
    BY <1>1, <2>1 DEF CancelMeasurement, AnyWindow, Fields, SameWorkers
  <2>2. CASE CloseEvent
    BY <1>1, <2>2 DEF CloseEvent, AnyWindow, Fields, SameWorkers
  <2>. QED  BY <2>1, <2>2
<1>3. SoundOf(win', threads, events)
  BY <1>1, <1>2, ThreadChangesNothing
<1>. QED  BY <1>1, <1>3, FewerThreads

LEMMA ConnectedSound ==
  ASSUME Sound, OnConnected
  PROVE  SoundOf(win', threads', events') /\ link' \in [Clients -> BOOLEAN]
<1>1. SoundOf(win, threads, events) /\ link' \in [Clients -> BOOLEAN] /\ events' = Tail(events)
      /\ events # <<>>
  BY SoundParts DEF OnConnected, Handle
<1>2. SoundOf(win, threads, events')
  BY <1>1, HandledResult
<1>3. CASE UNCHANGED <<win, threads>>
  BY <1>1, <1>2, <1>3
<1>4. CASE Becomes(UpdateConnectionUI(Now, FALSE))
  BY <1>1, <1>2, <1>4, NowIsState, AnyConnectionUI DEF Becomes
<1>5. CASE LET s == RefreshStatus(UpdateConnectionUI(Now, TRUE))
           IN Becomes(IF win.dialog THEN DialogRefresh(s) ELSE s)
  <2>. DEFINE u == UpdateConnectionUI(State(win, threads), TRUE)
              s == RefreshStatus(u)
              r == DialogRefresh(s)
  <2>1. \/ win' = s.w /\ threads' = s.ts
        \/ win' = r.w /\ threads' = r.ts
    BY <1>5, NowIsState DEF Becomes
  <2>2. u = State(u.w, u.ts) /\ SoundOf(u.w, u.ts, events')
    <3>1. \A on \in BOOLEAN :
            LET o == UpdateConnectionUI(State(win, threads), on)
            IN  o = State(o.w, o.ts) /\ SoundOf(o.w, o.ts, events')
      BY <1>2, AnyConnectionUI
    <3>. QED  BY <3>1
  <2>. HIDE DEF u
  <2>3. s = State(s.w, s.ts) /\ SoundOf(s.w, s.ts, events')
    BY <2>2, AnyRefreshStatus
  <2>. HIDE DEF s
  <2>4. SoundOf(r.w, r.ts, events')
    BY <2>3, AnyDialogRefresh
  <2>. HIDE DEF r
  <2>. QED  BY <1>1, <2>1, <2>3, <2>4
<1>. QED  BY <1>3, <1>4, <1>5 DEF OnConnected

LEMMA CompletedSound ==
  ASSUME Sound, OnCommandCompleted
  PROVE  SoundOf(win', threads', events') /\ link' \in [Clients -> BOOLEAN]
<1>. DEFINE e == Head(events)
            v == [win EXCEPT !.commandWorker = None]
            s == State(v, threads)
<1>1. /\ SoundOf(win, threads, events) /\ link' \in [Clients -> BOOLEAN]
      /\ events' = Tail(events) /\ events # <<>> /\ e.kind = "command" /\ AnyWindow(win)
  BY SoundParts DEF OnCommandCompleted, Handle
<1>2. /\ SoundOf(win, threads, events') /\ e \in Results
      /\ \A i \in 1 .. Len(events') : events'[i].kind # "command"
      /\ \A t \in Active(threads) : t.kind # "command"
  BY <1>1, HandledResult
<1>3. AnyWindow(v) /\ SameWorkers(v, win)
  <2>1. None \in 0 .. win.made
    BY <1>1 DEF AnyWindow, None
  <2>. QED  BY <1>1, <2>1 DEF AnyWindow, Fields, SameWorkers
<1>. HIDE DEF e, v
<1>4. SoundOf(v, threads, events')
  BY <1>2, <1>3 DEF SoundOf, SameWorkers, AnyThreads, AnyResults, NotOvertaken
<1>5. CASE win.closing
  BY <1>1, <1>4, <1>5 DEF OnCommandCompleted, Showing, v
<1>6. CASE ~win.closing
  <2>1. PICK d \in IF e.out = "ok" THEN OnDone(s, e) ELSE {SyncConnectionUI(s)} :
          win' = StartNextCommand(d).w /\ threads' = StartNextCommand(d).ts
    BY <1>6, NowIsState DEF OnCommandCompleted, Becomes, e, v
  <2>2. d = State(d.w, d.ts) /\ SoundOf(d.w, d.ts, events')
    <3>1. CASE d = s
      BY <1>4, <3>1, StateFields
    <3>2. CASE d = UpdateConnectionUI(s, FALSE)
      BY <1>4, <3>2, AnyConnectionUI
    <3>3. CASE d = RefreshStatus(s)
      BY <1>4, <3>3, AnyRefreshStatus
    <3>4. CASE d = DialogRefresh(s)
      BY <1>4, <3>4, AnyDialogRefresh
    <3>5. ASSUME NEW usable \in BOOLEAN,
                 d = State([v EXCEPT !.board = usable, !.boardFrom = e.on], threads)
          PROVE  d = State(d.w, d.ts) /\ SoundOf(d.w, d.ts, events')
      <4>. DEFINE x == [v EXCEPT !.board = usable, !.boardFrom = e.on]
      <4>1. AnyWindow(x) /\ SameWorkers(x, v) /\ x.commandWorker = v.commandWorker
        BY <1>3 DEF AnyWindow, Fields, SameWorkers
      <4>2. d = State(x, threads)
        BY <3>5
      <4>. HIDE DEF x
      <4>3. SoundOf(x, threads, events')
        BY <1>4, <4>1, ThreadChangesNothing
      <4>. QED  BY <4>2, <4>3, StateFields
    <3>6. /\ d \in OnDone(s, e) =>
               \/ d = s \/ d = RefreshStatus(s) \/ d = DialogRefresh(s)
               \/ \E usable \in BOOLEAN :
                    d = State([v EXCEPT !.board = usable, !.boardFrom = e.on], threads)
          /\ d = SyncConnectionUI(s) => d = s \/ d = UpdateConnectionUI(s, FALSE)
      <4>1. \A w : Showing(s, w) = State(w, threads)
        BY DEF Showing, State
      <4>2. s.w = v
        BY StateFields
      <4>. HIDE DEF s
      <4>. QED  BY <4>1, <4>2 DEF OnDone, SyncConnectionUI
    <3>. QED  BY <2>1, <3>1, <3>2, <3>3, <3>4, <3>5, <3>6
  <2>. QED  BY <1>1, <2>1, <2>2, AnyStartNext
<1>. QED  BY <1>5, <1>6

LEMMA MeasureEndSound ==
  ASSUME Sound, OnMeasureEnd
  PROVE  SoundOf(win', threads', events') /\ link' \in [Clients -> BOOLEAN]
<1>. DEFINE e == Head(events)
<1>1. /\ SoundOf(win, threads, events) /\ link' \in [Clients -> BOOLEAN]
      /\ events' = Tail(events) /\ events # <<>> /\ e.kind = "measure" /\ AnyWindow(win)
      /\ link \in [Clients -> BOOLEAN] /\ win.client \in Clients
  BY SoundParts DEF OnMeasureEnd, Handle
<1>2. /\ SoundOf(win, threads, events') /\ e \in Results /\ e.id \in 0 .. win.made
      /\ "overtake" \notin UserMay => e.id = win.worker
  BY <1>1, HandledResult
<1>3. CASE UNCHANGED <<win, threads>>
  BY <1>1, <1>2, <1>3
<1>4. CASE win.cancelling /\ Becomes(OnMeasureCancelled)
  <2>. DEFINE v == [win EXCEPT !.cancelling = FALSE, !.cancelText = FALSE]
              s == UpdateConnectionUI(State(v, threads), FALSE)
  <2>1. win' = StartConnect(s).w /\ threads' = StartConnect(s).ts
    BY <1>4, NowIsState DEF OnMeasureCancelled, Becomes
  <2>2. /\ AnyWindow(v) /\ SameWorkers(v, win) /\ v.commandWorker = win.commandWorker
        /\ v.client = win.client /\ ~v.cancelling
    BY <1>1 DEF AnyWindow, Fields, SameWorkers
  <2>. HIDE DEF v
  <2>3. SoundOf(v, threads, events')
    BY <1>2, <2>2, ThreadChangesNothing
  <2>4. /\ s = State(s.w, s.ts) /\ SoundOf(s.w, s.ts, events')
        /\ s.w.client = v.client /\ s.w.cancelling = v.cancelling
    BY <2>3, AnyConnectionUI
  <2>. HIDE DEF s
  <2>5. s.w.client < MaxClients /\ ~s.w.cancelling
    BY <1>1, <1>4, <2>2, <2>4 DEF AnyWindow
  <2>. QED  BY <1>1, <2>1, <2>4, <2>5, AnyStartConnect
<1>5. CASE win' = RefreshStatus(State(SetControlsEnabled(
               [win EXCEPT !.spectrum = e.id, !.params = win.pending, !.cancelText = FALSE],
               TRUE), threads)).w
        /\ threads' = RefreshStatus(State(SetControlsEnabled(
               [win EXCEPT !.spectrum = e.id, !.params = win.pending, !.cancelText = FALSE],
               TRUE), threads)).ts
  <2>. DEFINE i == e.id
              j == win.pending
              v == [win EXCEPT !.spectrum = i, !.params = j, !.cancelText = FALSE,
                               !.controls = TRUE, !.measureBtn = TRUE]
  <2>. HIDE DEF i, j, e
  <2>1. v = SetControlsEnabled([win EXCEPT !.spectrum = i, !.params = j, !.cancelText = FALSE],
                               TRUE)
    BY DEF SetControlsEnabled
  <2>2. /\ win' = RefreshStatus(State(v, threads)).w
        /\ threads' = RefreshStatus(State(v, threads)).ts
    BY <1>5, <2>1 DEF i, j
  <2>3. /\ i \in 0 .. win.made /\ j \in 0 .. win.made
        /\ "overtake" \notin UserMay => i = win.worker /\ j = win.worker
    BY <1>1, <1>2 DEF i, j, AnyWindow, SoundOf, NotOvertaken
  <2>4. /\ AnyWindow(v) /\ v.made = win.made /\ v.worker = win.worker
        /\ v.pending = win.pending /\ v.commandWorker = win.commandWorker
        /\ v.spectrum = i /\ v.params = j
    BY <1>1, <2>3 DEF AnyWindow, Fields
  <2>. HIDE DEF v
  <2>5. SoundOf(v, threads, events')
    BY <1>2, <2>3, <2>4 DEF SoundOf, AnyThreads, AnyResults, NotOvertaken
  <2>. QED  BY <1>1, <2>2, <2>5, AnyRefreshStatus
<1>6. CASE \E connected \in BOOLEAN :
             LET s == UpdateConnectionUI(State([win EXCEPT !.cancelText = FALSE], threads),
                                         connected)
             IN win' = s.w /\ threads' = s.ts
  <2>. DEFINE v == [win EXCEPT !.cancelText = FALSE]
  <2>1. AnyWindow(v) /\ SameWorkers(v, win) /\ v.commandWorker = win.commandWorker
    BY <1>1 DEF AnyWindow, Fields, SameWorkers
  <2>2. PICK connected \in BOOLEAN :
          /\ win' = UpdateConnectionUI(State(v, threads), connected).w
          /\ threads' = UpdateConnectionUI(State(v, threads), connected).ts
    BY <1>6
  <2>. HIDE DEF v
  <2>3. SoundOf(v, threads, events')
    BY <1>2, <2>1, ThreadChangesNothing
  <2>. QED  BY <1>1, <2>2, <2>3, AnyConnectionUI
<1>. HIDE DEF e
<1>7. IsConnected \in BOOLEAN
  BY <1>1 DEF IsConnected
<1>. QED  BY <1>3, <1>4, <1>5, <1>6, <1>7, NowIsState DEF OnMeasureEnd, Becomes, e

LEMMA SoundStep == Sound /\ [Next]_<<user, vars>> => Sound'
<1>. SUFFICES ASSUME Sound, [Next]_<<user, vars>> PROVE Sound'
  OBVIOUS
<1>1. UserMay' = UserMay
  BY DEF Next, UserMay
<1>2. SoundOf(win', threads', events') /\ link' \in [Clients -> BOOLEAN]
  <2>1. CASE UNCHANGED <<user, vars>>
    BY <2>1 DEF vars, Sound
  <2>2. CASE User
    BY <2>2, ButtonSound, DialogSound, MeasureSound, LeaveSound DEF User
  <2>3. CASE \E t \in threads : Thread(t)
    BY <2>3, ThreadSound
  <2>4. CASE EventLoop
    BY <2>4, ConnectedSound, CompletedSound, MeasureEndSound DEF EventLoop
  <2>. QED  BY <2>1, <2>2, <2>3, <2>4 DEF Next
<1>. QED
  BY <1>1, <1>2 DEF Sound, SoundOf, AnyWindow, AnyThreads, AnyResults, NotOvertaken, Active

LEMMA InitSound == Init => Sound
<1>. SUFFICES ASSUME Init PROVE Sound
  OBVIOUS
<1>1. 1 \in Clients
  BY Constants DEF Clients
<1>2. AnyWindow(win)
  BY <1>1 DEF Init, AnyWindow, Fields, None
<1>3. link \in [Clients -> BOOLEAN]
  BY DEF Init
<1>4. /\ events \in Seq(Results) /\ 1 .. Len(events) = {} /\ threads = {}
      /\ win.spectrum = win.params /\ win.pending = win.worker
  BY DEF Init, None
<1>. QED  BY <1>2, <1>3, <1>4 DEF Sound, SoundOf, AnyThreads, AnyResults, NotOvertaken, Active

(* Whoever the user is, and however he hurries, the window and its threads    *)
(* keep their types: connections are numbered within bounds, workers by the   *)
(* threads made so far, and the command under way is that of _command_worker. *)
(* Unless the user overtakes the window, the spectrum it shows and saves is   *)
(* scaled by the parameters it was measured with (_on_measure_done).          *)
THEOREM WindowSound == Spec => []WindowIsSound
<1>1. Sound => WindowIsSound
  <2>. SUFFICES ASSUME Sound PROVE WindowIsSound
    OBVIOUS
  <2>1. AnyWindow(win) /\ AnyThreads(win, threads) /\ NotOvertaken(win, events)
    BY DEF Sound, SoundOf
  <2>2. \A t \in threads : /\ t.id \in 1 .. win.made /\ t.kind \in Kinds /\ t.job \in Jobs
                           /\ t.on \in Clients \cup {None}
                           /\ t.at \in {"new", "calling", "winding"}
    BY <2>1 DEF AnyWindow, AnyThreads, Workers
  <2>3. \A t \in threads : t.kind = "command" /\ t.at # "winding" => t.id = win.commandWorker
    BY <2>1 DEF AnyThreads, Active
  <2>4. TypeOK
    BY <2>1, <2>2, <2>3 DEF TypeOK, Sound, AnyWindow
  <2>. QED  BY <2>1, <2>4 DEF WindowIsSound, NotOvertaken, SpectrumHasItsParams
<1>. QED  BY <1>1, InitSound, SoundStep, PTL DEF Spec

-----------------------------------------------------------------------------
(* The worker threads *)

LEMMA InitInv == Init => Inv
<1>. SUFFICES ASSUME Init PROVE Inv
  OBVIOUS
<1>1. 1 \in Clients
  BY Constants DEF Clients
<1>2. Typed(win, threads, events, link)
  BY <1>1 DEF Init, Typed, WindowOK, Fields, None
<1>3. Active(threads) = {} /\ events = <<>> /\ Len(events) = 0
  BY DEF Init, Active
<1>4. Numbered(win, threads)
  BY DEF Init, Numbered, None
<1>. QED
  BY <1>1, <1>2, <1>3, <1>4
  DEF Init, Inv, InvOf, OneAtATime, Matching, Doing, OnItsConnection, Truthful

LEMMA InvParts ==
  ASSUME Inv
  PROVE  /\ WindowOK(win) /\ threads \subseteq Workers /\ events \in Seq(Results)
         /\ link \in [Clients -> BOOLEAN] /\ win.client \in Clients
         /\ \A t \in threads : t \in Workers
BY DEF Inv, InvOf, Typed, WindowOK

\* A worker goes on: the one under way stays under way.
LEMMA GoesOn ==
  ASSUME Inv, NEW t \in threads, t.at # "winding", NEW u \in Workers,
         u.id = t.id, u.kind = t.kind, u.at = "calling", u.on = win.client,
         ~win.cancelling => link'[win.client],
         threads' = (threads \ {t}) \cup {u}, UNCHANGED <<win, events>>,
         link' \in [Clients -> BOOLEAN]
  PROVE  Inv'
<1>1. Active(threads) = {t} /\ events = <<>>
  BY DEF Inv, InvOf, OneAtATime, Active
<1>2. Active(threads') = {u}
  BY <1>1 DEF Active
<1>3. Typed(win', threads', events', link')
  BY DEF Inv, InvOf, Typed
<1>4. Numbered(win', threads')
  BY DEF Inv, InvOf, Numbered
<1>5. OneAtATime(threads', events')
  BY <1>1, <1>2 DEF Inv, InvOf, OneAtATime
<1>6. \A k : Doing(k, threads', events') <=> Doing(k, threads, events)
  BY <1>1, <1>2 DEF Doing
<1>7. Matching(win', threads', events')
  BY <1>1, <1>2, <1>6 DEF Inv, InvOf, Matching
<1>8. OnItsConnection(win', threads', events', link')
  BY <1>1, <1>2 DEF OnItsConnection
<1>9. Truthful(win')
  BY DEF Inv, InvOf, Truthful
<1>. QED  BY <1>3, <1>4, <1>5, <1>7, <1>8, <1>9 DEF Inv, InvOf

\* A worker posts its result and is left to end.
LEMMA WindsUp ==
  ASSUME Inv, NEW t \in threads, t.at # "winding", NEW u \in Workers,
         u.id = t.id, u.kind = t.kind, u.at = "winding", u.on = win.client,
         threads' = (threads \ {t}) \cup {u}, NEW out \in {"ok", "error"},
         Post(u, out), UNCHANGED win, link' \in [Clients -> BOOLEAN],
         out = "ok" /\ ~win.cancelling => link'[win.client],
         u.kind = "connect" /\ out = "error" => ~link'[win.client]
  PROVE  Inv'
<1>1. Active(threads) = {t} /\ events = <<>>
  BY DEF Inv, InvOf, OneAtATime, Active
<1>2. Active(threads') = {}
  BY <1>1 DEF Active
<1>. DEFINE e == [kind |-> u.kind, id |-> u.id, on |-> u.on, job |-> u.job, out |-> out]
<1>3. e \in Results
  BY DEF Workers, Results
<1>4. events' = <<e>>
  BY <1>1, <1>3 DEF Post
<1>5. /\ events' \in Seq(Results) /\ events' # <<>> /\ Len(events') = 1 /\ Head(events') = e
      /\ e.kind = t.kind /\ e.id = t.id /\ e.on = win.client /\ e.out = out
  BY <1>3, <1>4
<1>. HIDE DEF e
<1>6. Typed(win', threads', events', link')
  BY <1>5 DEF Inv, InvOf, Typed
<1>7. Numbered(win', threads')
  BY DEF Inv, InvOf, Numbered
<1>8. OneAtATime(threads', events')
  <2>1. Len(events') <= 1
    BY <1>5
  <2>. QED  BY <1>2, <2>1 DEF OneAtATime
<1>9. \A k : Doing(k, threads', events') <=> Doing(k, threads, events)
  BY <1>1, <1>2, <1>5 DEF Doing
<1>10. t.kind = "measure" <=> t.id = win.worker
  BY DEF Inv, InvOf, Numbered
<1>11. Matching(win', threads', events')
  BY <1>1, <1>2, <1>5, <1>9, <1>10 DEF Inv, InvOf, Matching, Doing
<1>12. OnItsConnection(win', threads', events', link')
  BY <1>2, <1>5 DEF OnItsConnection
<1>13. Truthful(win')
  BY DEF Inv, InvOf, Truthful
<1>. QED  BY <1>6, <1>7, <1>8, <1>11, <1>12, <1>13 DEF Inv, InvOf

LEMMA RunInv ==
  ASSUME Inv, NEW t \in threads, Run(t)
  PROVE  Inv'
<1>. DEFINE u == [t EXCEPT !.on = IF t.on = None THEN win.client ELSE t.on]
<1>1. t \in Workers /\ t.at = "new" /\ t \in Active(threads) /\ UNCHANGED <<win, link>>
  BY InvParts DEF Run, Active
<1>2. t.on = win.client \/ t.on = None
  BY <1>1 DEF Inv, InvOf, OnItsConnection
<1>3. /\ u.on = win.client /\ u.id = t.id /\ u.kind = t.kind /\ u.job = t.job
      /\ [u EXCEPT !.at = "winding"] \in Workers /\ [u EXCEPT !.at = "calling"] \in Workers
  BY <1>1, <1>2, InvParts, Constants DEF Workers
<1>4. ~\E v \in threads : Calling(v) /\ v.kind # "connect" /\ v.on = u.on
  BY <1>1 DEF Inv, InvOf, OneAtATime, Active, Calling
<1>. DEFINE x == [u EXCEPT !.at = "winding"]
            y == [u EXCEPT !.at = "calling"]
<1>5. /\ x.on = win.client /\ x.id = t.id /\ x.kind = t.kind /\ x.at = "winding"
      /\ y.on = win.client /\ y.id = t.id /\ y.kind = t.kind /\ y.at = "calling"
      /\ x.job = u.job /\ x.kind # "connect"
  BY <1>1, <1>3 DEF Workers, Run
<1>6. CASE link[u.on]
  <2>1. threads' = (threads \ {t}) \cup {y} /\ UNCHANGED events
    BY <1>4, <1>6 DEF Run
  <2>. HIDE DEF u, y
  <2>. QED  BY <1>1, <1>3, <1>5, <1>6, <2>1, GoesOn, InvParts DEF u, y
<1>7. CASE ~link[u.on]
  <2>1. threads' = (threads \ {t}) \cup {x} /\ Post(u, "error")
    BY <1>4, <1>7 DEF Run
  <2>2. Post(x, "error")
    BY <1>3, <1>5, <2>1 DEF Post
  <2>. QED  BY <1>1, <1>3, <1>5, <2>1, <2>2, WindsUp, InvParts
<1>. QED  BY <1>6, <1>7

LEMMA ReturnInv ==
  ASSUME Inv, NEW t \in threads, Return(t)
  PROVE  Inv'
<1>. DEFINE u == [t EXCEPT !.at = "winding"]
<1>1. /\ t \in Workers /\ t \in Active(threads) /\ t.at = "calling" /\ t.kind # "connect"
      /\ threads' = (threads \ {t}) \cup {u} /\ UNCHANGED win
  BY InvParts DEF Return, Active, Calling, At
<1>2. t.on = win.client /\ (~win.cancelling => link[win.client])
  BY <1>1 DEF Inv, InvOf, OnItsConnection
<1>3. /\ u \in Workers /\ u.id = t.id /\ u.kind = t.kind /\ u.on = t.on /\ u.job = t.job
      /\ u.at = "winding"
  BY <1>1, AtFields
<1>4. link' \in [Clients -> BOOLEAN]
  BY InvParts DEF Return
<1>5. \/ Post(u, "ok") /\ UNCHANGED link
      \/ Post(u, "error")
  BY <1>3 DEF Return, Post
<1>. HIDE DEF u
<1>. QED  BY <1>1, <1>2, <1>3, <1>4, <1>5, WindsUp

LEMMA ConnectingInv ==
  ASSUME Inv, NEW t \in threads, SocketMade(t) \/ Connected(t) \/ ConnectFails(t)
  PROVE  Inv'
<1>1. t \in Workers /\ t \in Active(threads) /\ t.kind = "connect" /\ UNCHANGED win
  BY InvParts DEF SocketMade, Connected, ConnectFails, Active, Calling
<1>2. t.on = win.client /\ win.client \in Clients
  BY <1>1, InvParts DEF Inv, InvOf, OnItsConnection
<1>3. CASE SocketMade(t)
  <2>. DEFINE u == [t EXCEPT !.at = "calling"]
  <2>1. /\ u \in Workers /\ u.id = t.id /\ u.kind = t.kind /\ u.on = t.on /\ u.at = "calling"
    BY <1>1, AtFields
  <2>2. /\ threads' = (threads \ {t}) \cup {u} /\ UNCHANGED events /\ t.at = "new"
        /\ link' \in [Clients -> BOOLEAN] /\ link'[win.client]
    BY <1>2, <1>3, InvParts DEF SocketMade, At
  <2>. HIDE DEF u
  <2>. QED  BY <1>1, <1>2, <2>1, <2>2, GoesOn
<1>4. CASE Connected(t) \/ ConnectFails(t)
  <2>. DEFINE u == [t EXCEPT !.at = "winding"]
  <2>1. /\ u \in Workers /\ u.id = t.id /\ u.kind = t.kind /\ u.on = t.on /\ u.at = "winding"
        /\ u.job = t.job
    BY <1>1, AtFields
  <2>2. threads' = (threads \ {t}) \cup {u} /\ t.at # "winding"
    BY <1>4 DEF Connected, ConnectFails, At, Calling
  <2>3. CASE Connected(t)
    <3>1. ~win.cancelling => link[win.client]
      BY <1>1, <2>3 DEF Inv, InvOf, OnItsConnection, Connected, Calling
    <3>2. Post(u, "ok") /\ UNCHANGED link
      BY <2>1, <2>3 DEF Connected, Post
    <3>. HIDE DEF u
    <3>. QED  BY <1>1, <1>2, <2>1, <2>2, <3>1, <3>2, WindsUp, InvParts
  <2>4. CASE ConnectFails(t)
    <3>1. Post(u, "error")
      BY <2>1, <2>4 DEF ConnectFails, Post
    <3>2. link' \in [Clients -> BOOLEAN] /\ ~link'[win.client]
      BY <1>2, <2>4, InvParts DEF ConnectFails
    <3>. HIDE DEF u
    <3>. QED  BY <1>1, <1>2, <2>1, <2>2, <3>1, <3>2, WindsUp
  <2>. QED  BY <1>4, <2>3, <2>4
<1>. QED  BY <1>3, <1>4

LEMMA EndsInv ==
  ASSUME Inv, NEW t \in threads, Ends(t)
  PROVE  Inv'
<1>1. threads' = threads \ {t} /\ UNCHANGED <<win, events, link>> /\ t.at = "winding"
  BY DEF Ends
<1>2. Active(threads') = Active(threads)
  BY <1>1 DEF Active
<1>3. \A k : Doing(k, threads', events') <=> Doing(k, threads, events)
  BY <1>1, <1>2 DEF Doing
<1>4. Numbered(win', threads')
  BY <1>1 DEF Inv, InvOf, Numbered
<1>5. Matching(win', threads', events')
  BY <1>1, <1>2, <1>3 DEF Inv, InvOf, Matching
<1>. QED
  BY <1>1, <1>2, <1>4, <1>5 DEF Inv, InvOf, Typed, OneAtATime, OnItsConnection, Truthful

-----------------------------------------------------------------------------
(* The user, who waits for what is under way *)

LEMMA ClickFacts ==
  ASSUME Patience, Inv, MayClick
  PROVE  /\ events = <<>> /\ ~win.closing
         /\ \A t \in threads : t.at = "calling" \/ (t.kind = "connect" /\ t.at = "new")
         /\ Active(threads) = threads
BY DEF Patience, MayClick, Calling, Active

\* Nothing is under way.
LEMMA Resting ==
  ASSUME Inv, Active(threads) = {}, events = <<>>, ~win.closing
  PROVE  Paused(win, threads, link) /\ win.commands = <<>>
<1>1. \A k : ~Doing(k, threads, events)
  BY DEF Doing
<1>. QED  BY <1>1 DEF Inv, InvOf, Matching, OnItsConnection, Paused

LEMMA OfflineUI ==
  ASSUME NEW w, WindowOK(w), NEW ts
  PROVE  LET s == UpdateConnectionUI(State(w, ts), FALSE)
         IN  /\ s = State(s.w, ts) /\ WindowOK(s.w) /\ SameWorkers(s.w, w)
             /\ s.w.shown = "off" /\ ~s.w.controls /\ ~s.w.measureBtn /\ ~s.w.board
             /\ s.w.commands = <<>> /\ s.w.commandWorker = w.commandWorker
             /\ s.w.client = w.client /\ s.w.closing = w.closing
             /\ s.w.cancelling = w.cancelling
<1>. DEFINE v == [w EXCEPT !.shown = "off", !.controls = FALSE, !.measureBtn = FALSE,
                           !.board = FALSE, !.dialogClient = None, !.commands = <<>>]
<1>1. UpdateConnectionUI(State(w, ts), FALSE) = State(v, ts)
  BY DEF UpdateConnectionUI, SetControlsEnabled, State, Showing
<1>2. <<>> \in Seq(Queued)
  OBVIOUS
<1>3. /\ WindowOK(v) /\ SameWorkers(v, w)
      /\ v.shown = "off" /\ ~v.controls /\ ~v.measureBtn /\ ~v.board
      /\ v.commands = <<>> /\ v.commandWorker = w.commandWorker
      /\ v.client = w.client /\ v.closing = w.closing /\ v.cancelling = w.cancelling
  BY <1>2 DEF WindowOK, Fields, SameWorkers
<1>. HIDE DEF v
<1>4. UpdateConnectionUI(State(w, ts), FALSE).w = v
  BY <1>1, StateFields
<1>. QED  BY <1>1, <1>3, <1>4

LEMMA OnlineUI ==
  ASSUME NEW w, WindowOK(w), NEW ts
  PROVE  LET s == UpdateConnectionUI(State(w, ts), TRUE)
         IN  /\ s = State(s.w, ts) /\ WindowOK(s.w) /\ SameWorkers(s.w, w)
             /\ s.w.shown = "on" /\ s.w.board = w.board /\ s.w.boardFrom = w.boardFrom
             /\ s.w.commands = w.commands /\ s.w.commandWorker = w.commandWorker
             /\ s.w.client = w.client /\ s.w.closing = w.closing
             /\ s.w.cancelling = w.cancelling
<1>. DEFINE v == [w EXCEPT !.shown = "on", !.controls = TRUE, !.measureBtn = TRUE,
                           !.dialogClient = None]
<1>1. UpdateConnectionUI(State(w, ts), TRUE) = State(v, ts)
  <2>. DEFINE u == SetControlsEnabled([w EXCEPT !.shown = "on"], TRUE)
  <2>1. u.dialog = FALSE /\ u.dialogClient = None
    BY DEF SetControlsEnabled, WindowOK, Fields
  <2>2. [u EXCEPT !.dialogClient = IF u.dialog THEN u.client ELSE @] = v
    BY <2>1 DEF SetControlsEnabled
  <2>. QED  BY <2>2 DEF UpdateConnectionUI, State, Showing
<1>2. /\ WindowOK(v) /\ SameWorkers(v, w)
      /\ v.shown = "on" /\ v.board = w.board /\ v.boardFrom = w.boardFrom
      /\ v.commands = w.commands /\ v.commandWorker = w.commandWorker
      /\ v.client = w.client /\ v.closing = w.closing /\ v.cancelling = w.cancelling
  BY DEF WindowOK, Fields, SameWorkers
<1>. HIDE DEF v
<1>3. UpdateConnectionUI(State(w, ts), TRUE).w = v
  BY <1>1, StateFields
<1>. QED  BY <1>1, <1>2, <1>3

\* A connection is begun where nothing else is.
LEMMA ConnectStarts ==
  ASSUME NEW w, NEW ts, NEW lk, Typed(w, ts, <<>>, lk), Numbered(w, ts), Truthful(w),
         Active(ts) = {}, \A t \in ts : t.kind # "connect",
         ~w.closing, ~w.cancelling, w.commandWorker = None, w.commands = <<>>,
         w.shown # "on", w.client < MaxClients
  PROVE  LET s == StartConnect(State(w, ts)) IN InvOf(s.w, s.ts, <<>>, lk)
<1>. DEFINE u == [w EXCEPT !.client = w.client + 1, !.shown = "connecting"]
            x == NewWorker(w, "connect", w.client + 1, "connect")
            us == ts \cup {x}
            v == [u EXCEPT !.made = w.made + 1, !.connectWorker = w.made + 1]
<1>1. WindowOK(w) /\ ts \subseteq Workers /\ w.made \in Nat /\ w.client + 1 \in Clients
  BY Constants DEF Typed, WindowOK
<1>2. StartConnect(State(w, ts)).w = v /\ StartConnect(State(w, ts)).ts = us
  <2>1. u.made = w.made
    BY <1>1 DEF WindowOK, Fields
  <2>2. Start(State(u, ts), "connect", w.client + 1, "connect")
          = State([u EXCEPT !.made = w.made + 1], us)
    BY <2>1 DEF Start, State, NewWorker
  <2>3. [u EXCEPT !.made = w.made + 1].made = w.made + 1
    BY <1>1 DEF WindowOK, Fields
  <2>. DEFINE n == Start(State(u, ts), "connect", w.client + 1, "connect")
  <2>4. StartConnect(State(w, ts)) = State([n.w EXCEPT !.connectWorker = n.w.made], n.ts)
    BY DEF StartConnect, Showing, State
  <2>5. n.w = [u EXCEPT !.made = w.made + 1] /\ n.ts = us
    BY <2>2, StateFields
  <2>. HIDE DEF n
  <2>6. [n.w EXCEPT !.connectWorker = n.w.made] = v
    BY <2>3, <2>5
  <2>. QED  BY <2>4, <2>5, <2>6, StateFields
<1>3. x \in Workers /\ x.id = w.made + 1 /\ x.kind = "connect" /\ x.at = "new"
      /\ x.on = w.client + 1
  BY <1>1 DEF NewWorker, Workers, Kinds, Jobs
<1>4. /\ v.made = w.made + 1 /\ v.connectWorker = w.made + 1 /\ v.client = w.client + 1
      /\ v.shown = "connecting" /\ v.worker = w.worker /\ v.workers = w.workers
      /\ v.pending = w.pending /\ v.spectrum = w.spectrum /\ v.params = w.params
      /\ v.commands = <<>> /\ v.commandWorker = None /\ v.closing = w.closing
      /\ v.cancelling = w.cancelling /\ v.board = w.board
      /\ v.controls = w.controls /\ v.measureBtn = w.measureBtn
  BY <1>1 DEF WindowOK, Fields
<1>5. WindowOK(v)
  <2>1. /\ DOMAIN v = Fields /\ v.cancelText = w.cancelText /\ v.dialog = w.dialog
        /\ v.dialogClient = w.dialogClient /\ v.boardFrom = w.boardFrom
    BY <1>1 DEF WindowOK, Fields
  <2>2. v.made \in Nat /\ v.connectWorker \in Nat /\ v.client \in Clients
    BY <1>1, <1>4
  <2>3. v.commands = w.commands
    BY <1>4
  <2>. HIDE DEF v
  <2>. QED  BY <1>1, <1>4, <2>1, <2>2, <2>3 DEF WindowOK
<1>. HIDE DEF u, x, v
<1>6. Active(us) = {x}
  BY <1>3 DEF Active
<1>7. Typed(v, us, <<>>, lk)
  BY <1>1, <1>3, <1>5 DEF Typed
<1>8. Numbered(v, us)
  <2>1. \A t \in ts : t.id \in Nat /\ t.id <= w.made /\ t.id # x.id
    BY <1>1, <1>3 DEF Numbered, Workers
  <2>2. w.worker \in Nat /\ w.worker <= w.made
    BY <1>1 DEF Numbered, WindowOK
  <2>3. /\ \A t \in us : t.id <= v.made
        /\ \A t, y \in us : t.id = y.id => t = y
    BY <1>1, <1>3, <1>4, <2>1 DEF Numbered
  <2>4. {v.worker, v.connectWorker, v.commandWorker, v.pending, v.spectrum, v.params}
          \cup v.workers \subseteq 0 .. v.made
    <3>1. \A i \in 0 .. w.made : i \in 0 .. v.made
      BY <1>1, <1>4
    <3>2. {w.worker, w.commandWorker, w.pending, w.spectrum, w.params} \cup w.workers
            \subseteq 0 .. w.made
      BY DEF Numbered
    <3>3. v.connectWorker \in 0 .. v.made
      BY <1>1, <1>4
    <3>. QED  BY <1>4, <3>1, <3>2, <3>3
  <2>5. \A t \in us : /\ t.kind = "measure" <=> t.id = v.worker
                      /\ t.kind = "connect" => t.id = v.connectWorker
                      /\ t.kind = "command" => t.id \in v.workers
    BY <1>1, <1>3, <1>4, <2>1, <2>2 DEF Numbered
  <2>. QED  BY <1>4, <2>3, <2>4, <2>5 DEF Numbered
<1>9. OneAtATime(us, <<>>)
  <2>1. Len(<<>>) <= 1
    OBVIOUS
  <2>. QED  BY <1>6, <2>1 DEF OneAtATime
<1>10. Matching(v, us, <<>>)
  BY <1>3, <1>4, <1>6 DEF Matching, Doing
<1>11. OnItsConnection(v, us, <<>>, lk)
  BY <1>3, <1>4, <1>6 DEF OnItsConnection
<1>12. Truthful(v)
  BY <1>4 DEF Truthful
<1>. QED  BY <1>2, <1>7, <1>8, <1>9, <1>10, <1>11, <1>12 DEF InvOf

\* SameWorkers is what Numbered is about.
LEMMA NumberedSame ==
  ASSUME NEW v, NEW w, NEW ts, SameWorkers(v, w), Numbered(w, ts),
         v.commandWorker \in {w.commandWorker, None}, WindowOK(w)
  PROVE  Numbered(v, ts)
<1>1. w.made \in Nat
  BY DEF WindowOK
<1>2. v.commandWorker \in 0 .. v.made
  BY <1>1 DEF SameWorkers, Numbered, None
<1>. QED  BY <1>2 DEF SameWorkers, Numbered

LEMMA OnConnectInv ==
  ASSUME Patience, Inv, OnConnect
  PROVE  Inv'
<1>1. /\ events = <<>> /\ ~win.closing /\ Active(threads) = threads
      /\ win.shown # "connecting" /\ \A t \in threads : ~Calling(t)
  BY ClickFacts DEF OnConnect, Click, Patience
<1>2. threads = {}
  <2>1. \A t \in threads : t.kind = "connect"
    BY <1>1, ClickFacts DEF OnConnect, Click, Calling
  <2>. QED  BY <1>1, <2>1 DEF Inv, InvOf, Matching, Doing
<1>3. Paused(win, threads, link) /\ win.commands = <<>>
  BY <1>1, <1>2, Resting
<1>4. CASE IsConnected
  <2>. DEFINE s == UpdateConnectionUI(State(win, threads), FALSE)
  <2>1. win' = s.w /\ threads' = s.ts /\ events' = <<>>
        /\ link' = [link EXCEPT ![win.client] = FALSE]
    BY <1>1, <1>4, NowIsState DEF OnConnect, Becomes
  <2>2. /\ s = State(s.w, threads) /\ WindowOK(s.w) /\ SameWorkers(s.w, win)
        /\ s.w.shown = "off" /\ ~s.w.controls /\ ~s.w.measureBtn /\ ~s.w.board
        /\ s.w.commands = <<>> /\ s.w.commandWorker = win.commandWorker
        /\ s.w.client = win.client /\ s.w.closing = win.closing
        /\ s.w.cancelling = win.cancelling
    BY InvParts, OfflineUI
  <2>. HIDE DEF s
  <2>3. s.ts = threads
    BY <2>2, StateFields
  <2>4. link' \in [Clients -> BOOLEAN] /\ ~link'[win.client]
    BY <2>1, InvParts
  <2>5. Paused(s.w, threads, link')
    BY <1>3, <2>2, <2>4, InvParts, NumberedSame DEF Paused, Typed, Truthful
  <2>. QED  BY <2>1, <2>2, <2>3, <2>5, PausedInv DEF Inv
<1>5. CASE ~IsConnected
  <2>. DEFINE s == StartConnect(State(win, threads))
  <2>1. win' = s.w /\ threads' = s.ts /\ events' = <<>> /\ UNCHANGED link
    BY <1>1, <1>5, NowIsState DEF OnConnect, Becomes
  <2>2. win.client < MaxClients
    <3>1. win.client + (IF win.cancelling THEN 1 ELSE 0) < MaxClients
      BY <1>5 DEF OnConnect
    <3>2. ~win.cancelling /\ win.client \in Nat
      BY <1>3, InvParts, Constants DEF Paused
    <3>. QED  BY <3>1, <3>2
  <2>3. win.shown # "on"
    BY <1>3, <1>5 DEF Paused, IsConnected
  <2>4. InvOf(s.w, s.ts, <<>>, link)
    BY <1>2, <1>3, <2>2, <2>3, ConnectStarts DEF Paused
  <2>. HIDE DEF s
  <2>. QED  BY <2>1, <2>4 DEF Inv
<1>. QED  BY <1>4, <1>5

\* The window takes commands while its controls are enabled.
LEMMA ControlsOpen ==
  ASSUME Patience, Inv, MayClick, win.controls
  PROVE  Open(win, threads, link) /\ events = <<>>
BY ClickFacts DEF Inv, Open, InvOf, Matching, Truthful

LEMMA RefreshIs ==
  ASSUME NEW w, NEW ts, NEW lk, Open(w, ts, lk)
  PROVE  LET s == RefreshStatus(State(w, ts)) IN s = State(s.w, s.ts) /\ Open(s.w, s.ts, lk)
<1>1. "status" \in Jobs
  BY DEF Jobs
<1>2. CASE IsConnected
  BY <1>1, <1>2, OpenRuns DEF RefreshStatus
<1>3. CASE ~IsConnected
  BY <1>3, StateFields DEF RefreshStatus
<1>. QED  BY <1>2, <1>3

LEMMA OnCommandInv ==
  ASSUME Patience, Inv, OnCommand
  PROVE  Inv'
<1>1. Open(win, threads, link) /\ events' = <<>> /\ UNCHANGED link
  BY ControlsOpen DEF OnCommand, Click
<1>2. {"init", "board"} \subseteq Jobs
  BY DEF Jobs
<1>. DEFINE s1 == RunCommand(State(win, threads), "init", None)
            s2 == RunCommand(State(win, threads), "board", None)
            s3 == RefreshStatus(State(win, threads))
            s4 == RefreshStatus(s2)
<1>3. \/ win' = s1.w /\ threads' = s1.ts
      \/ win' = s2.w /\ threads' = s2.ts
      \/ win' = s3.w /\ threads' = s3.ts
      \/ win' = s4.w /\ threads' = s4.ts
  BY NowIsState DEF OnCommand, Becomes
<1>4. Open(s1.w, s1.ts, link) /\ Open(s2.w, s2.ts, link) /\ s2 = State(s2.w, s2.ts)
  BY <1>1, <1>2, OpenRuns
<1>5. Open(s3.w, s3.ts, link)
  BY <1>1, RefreshIs
<1>. HIDE DEF s1, s2, s3
<1>6. Open(s4.w, s4.ts, link)
  BY <1>4, RefreshIs
<1>. HIDE DEF s4
<1>. QED  BY <1>1, <1>3, <1>4, <1>5, <1>6 DEF Open, Inv

LEMMA OnMeasureInv ==
  ASSUME Patience, Inv, OnMeasure
  PROVE  Inv'
<1>1. events = <<>> /\ ~win.closing /\ Active(threads) = threads
  BY ClickFacts DEF OnMeasure, Click
<1>2. win.shown = "on" /\ ~IsRunning(win.worker) /\ win.commandWorker = None
  BY DEF OnMeasure, Inv, InvOf, Truthful
<1>3. threads = {}
  <2>1. ~Doing("connect", threads, events) /\ ~Doing("command", threads, events)
    BY <1>1, <1>2 DEF Inv, InvOf, Matching
  <2>2. \A t \in threads : t.kind = "measure"
    BY <1>1, <2>1, InvParts DEF Doing, Workers, Kinds
  <2>. QED  BY <1>2, <2>2 DEF Inv, InvOf, Numbered, IsRunning, Ids
<1>4. Paused(win, threads, link) /\ win.commands = <<>>
  BY <1>1, <1>3, Resting
<1>5. WindowOK(win) /\ win.made \in Nat /\ win.client \in Clients
  BY InvParts DEF WindowOK
<1>. DEFINE x == NewWorker(win, "measure", win.client, "measure")
            v == [[win EXCEPT !.made = win.made + 1] EXCEPT
                    !.controls = FALSE, !.measureBtn = TRUE, !.cancelText = TRUE,
                    !.cancelling = FALSE, !.pending = win.made + 1, !.worker = win.made + 1]
            n == Start(Now, "measure", win.client, "measure")
<1>6. n = State([win EXCEPT !.made = win.made + 1], threads \cup {x})
  BY DEF Start, Now, State, NewWorker
<1>7. win' = v /\ threads' = {x} /\ events' = <<>> /\ UNCHANGED link
  <2>1. n.w = [win EXCEPT !.made = win.made + 1] /\ n.ts = threads \cup {x}
    BY <1>6, StateFields
  <2>2. n.w.made = win.made + 1
    BY <1>5, <2>1 DEF WindowOK, Fields
  <2>3. /\ win' = [n.w EXCEPT !.controls = FALSE, !.measureBtn = TRUE,
                              !.cancelText = TRUE, !.cancelling = FALSE,
                              !.pending = n.w.made, !.worker = n.w.made]
        /\ threads' = n.ts
    BY DEF OnMeasure, Becomes, Showing
  <2>. HIDE DEF n, x
  <2>. QED  BY <1>1, <1>3, <2>1, <2>2, <2>3 DEF OnMeasure
<1>8. x \in Workers /\ x.id = win.made + 1 /\ x.kind = "measure" /\ x.at = "new"
      /\ x.on = win.client
  BY <1>5 DEF NewWorker, Workers, Kinds, Jobs
<1>9. /\ v.made = win.made + 1 /\ v.worker = win.made + 1 /\ v.pending = win.made + 1
      /\ v.commands = win.commands /\ v.commandWorker = win.commandWorker
      /\ v.connectWorker = win.connectWorker /\ v.workers = win.workers
      /\ v.spectrum = win.spectrum /\ v.params = win.params
      /\ v.client = win.client /\ v.shown = win.shown /\ v.closing = win.closing
      /\ ~v.cancelling /\ ~v.controls /\ v.board = win.board
      /\ v.boardFrom = win.boardFrom
  BY <1>5 DEF WindowOK, Fields
<1>10. WindowOK(v)
  <2>1. /\ DOMAIN v = Fields /\ v.cancelText = TRUE /\ v.measureBtn = TRUE
        /\ v.controls = FALSE /\ v.cancelling = FALSE
        /\ v.dialog = win.dialog /\ v.dialogClient = win.dialogClient
    BY <1>5 DEF WindowOK, Fields
  <2>2. v.made \in Nat /\ v.worker \in Nat /\ v.pending \in Nat
    BY <1>5, <1>9
  <2>. HIDE DEF v
  <2>3. v.client \in Clients /\ v.boardFrom \in Clients \cup {None}
        /\ v.shown \in {"off", "connecting", "on"}
    BY <1>5, <1>9 DEF WindowOK
  <2>4. {v.controls, v.board, v.measureBtn, v.cancelText, v.cancelling, v.closing} \subseteq BOOLEAN
    <3>1. v.board \in BOOLEAN /\ v.closing \in BOOLEAN
      BY <1>5, <1>9 DEF WindowOK
    <3>. QED  BY <2>1, <3>1
  <2>5. {v.worker, v.connectWorker, v.commandWorker, v.pending, v.spectrum, v.params, v.made}
          \cup v.workers \subseteq Nat
    BY <1>5, <1>9, <2>2 DEF WindowOK
  <2>6. v.commands \in Seq(Queued) /\ v.dialog = FALSE /\ v.dialogClient = None
    BY <1>5, <1>9, <2>1 DEF WindowOK
  <2>. QED  BY <2>1, <2>3, <2>4, <2>5, <2>6 DEF WindowOK
<1>. HIDE DEF x, v
<1>11. Active({x}) = {x}
  BY <1>8 DEF Active
<1>12. Typed(v, {x}, <<>>, link)
  BY <1>8, <1>10, InvParts DEF Typed
<1>13. Numbered(v, {x})
  <2>1. {win.connectWorker, win.commandWorker, win.spectrum, win.params} \cup win.workers
          \subseteq 0 .. win.made
    BY DEF Inv, InvOf, Numbered
  <2>2. v.made \in 0 .. v.made /\ \A i \in 0 .. win.made : i \in 0 .. v.made
    BY <1>5, <1>9
  <2>3. {v.worker, v.connectWorker, v.commandWorker, v.pending, v.spectrum, v.params}
          \cup v.workers \subseteq 0 .. v.made
    <3>1. v.worker \in 0 .. v.made /\ v.pending \in 0 .. v.made
      BY <1>9, <2>2
    <3>2. {v.connectWorker, v.commandWorker, v.spectrum, v.params} \cup v.workers
            \subseteq 0 .. win.made
      BY <1>9, <2>1
    <3>. HIDE DEF v
    <3>. QED  BY <2>2, <3>1, <3>2
  <2>. QED  BY <1>5, <1>8, <1>9, <2>3 DEF Numbered, Inv, InvOf
<1>14. OneAtATime({x}, <<>>)
  <2>1. Len(<<>>) <= 1
    OBVIOUS
  <2>. QED  BY <1>11, <2>1 DEF OneAtATime
<1>15. Matching(v, {x}, <<>>)
  BY <1>1, <1>2, <1>4, <1>8, <1>9, <1>11 DEF Matching, Doing
<1>16. OnItsConnection(v, {x}, <<>>, link)
  BY <1>8, <1>9, <1>11 DEF OnItsConnection
<1>17. Truthful(v)
  BY <1>2, <1>9 DEF Inv, InvOf, Truthful
<1>. QED  BY <1>7, <1>12, <1>13, <1>14, <1>15, <1>16, <1>17 DEF Inv, InvOf

LEMMA CancelInv ==
  ASSUME Patience, Inv, CancelMeasurement
  PROVE  Inv'
<1>1. events = <<>> /\ ~win.closing /\ Active(threads) = threads
  BY ClickFacts DEF CancelMeasurement, Click
<1>2. UNCHANGED <<threads, events>> /\ link' = [link EXCEPT ![win.client] = FALSE]
      /\ win.client < MaxClients
  BY DEF CancelMeasurement
<1>3. PICK t \in threads : t.kind = "measure"
  BY DEF CancelMeasurement, IsRunning, Ids, Inv, InvOf, Numbered
<1>4. Doing("measure", threads, events)
  BY <1>1, <1>3 DEF Doing
<1>5. /\ WindowOK(win') /\ SameWorkers(win', win) /\ win'.cancelling /\ ~win'.measureBtn
      /\ win'.commandWorker = win.commandWorker /\ win'.commands = win.commands
      /\ win'.client = win.client /\ win'.shown = win.shown /\ win'.closing = win.closing
      /\ win'.controls = win.controls /\ win'.board = win.board
      /\ win'.boardFrom = win.boardFrom
  BY InvParts DEF CancelMeasurement, WindowOK, Fields, SameWorkers
<1>6. link' \in [Clients -> BOOLEAN]
  BY <1>2, InvParts
<1>7. Typed(win', threads', events', link')
  BY <1>2, <1>5, <1>6, InvParts DEF Typed
<1>8. Numbered(win', threads')
  BY <1>2, <1>5, NumberedSame, InvParts DEF Inv, InvOf
<1>9. Matching(win', threads', events')
  BY <1>1, <1>2, <1>4, <1>5 DEF Inv, InvOf, Matching, SameWorkers
<1>10. OnItsConnection(win', threads', events', link')
  BY <1>1, <1>2, <1>3, <1>5 DEF Inv, InvOf, OnItsConnection
<1>11. Truthful(win')
  BY <1>4, <1>1, <1>5 DEF Inv, InvOf, Truthful, Matching
<1>. QED  BY <1>2, <1>7, <1>8, <1>9, <1>10, <1>11 DEF Inv, InvOf, OneAtATime

LEMMA CloseInv ==
  ASSUME Patience, Inv, CloseEvent
  PROVE  Inv'
<1>1. events' = <<>> /\ ~win.closing /\ Active(threads) = threads
  BY ClickFacts DEF CloseEvent, Click
<1>2. \A t \in threads : t.id \in {win.worker, win.connectWorker} \cup win.workers
  BY InvParts DEF Inv, InvOf, Numbered, Workers, Kinds
<1>3. threads' = {} /\ Active(threads') = {}
  BY <1>2 DEF CloseEvent, Active
<1>4. /\ WindowOK(win') /\ SameWorkers(win', win) /\ win'.closing
      /\ win'.commandWorker = win.commandWorker
      /\ win'.client = win.client /\ win'.shown = win.shown
      /\ win'.controls = win.controls /\ win'.board = win.board
      /\ win'.boardFrom = win.boardFrom /\ win'.measureBtn = win.measureBtn
  BY InvParts DEF CloseEvent, WindowOK, Fields, SameWorkers
<1>5. link' \in [Clients -> BOOLEAN]
  BY InvParts DEF CloseEvent
<1>6. Typed(win', threads', events', link')
  BY <1>1, <1>3, <1>4, <1>5 DEF Typed
<1>7. Numbered(win', threads')
  <2>1. Numbered(win, threads')
    BY <1>3 DEF Inv, InvOf, Numbered
  <2>. QED  BY <1>4, <2>1, NumberedSame, InvParts
<1>8. OneAtATime(threads', events')
  <2>1. Len(<<>>) <= 1
    OBVIOUS
  <2>. QED  BY <1>1, <1>3, <2>1 DEF OneAtATime
<1>9. Matching(win', threads', events') /\ OnItsConnection(win', threads', events', link')
  BY <1>1, <1>3, <1>4 DEF Matching, OnItsConnection
<1>10. Truthful(win')
  BY <1>4 DEF Inv, InvOf, Truthful
<1>. QED  BY <1>6, <1>7, <1>8, <1>9, <1>10 DEF Inv, InvOf

-----------------------------------------------------------------------------
(* The handlers of results *)

\* A result is handled when nothing else is under way.
LEMMA HandleFacts ==
  ASSUME Inv, NEW k, Handle(k)
  PROVE  /\ ~win.closing /\ Active(threads) = {} /\ events' = <<>>
         /\ events # <<>> /\ Head(events).kind = k /\ Head(events) \in Results
         /\ Head(events).on = win.client
         /\ \A j : Doing(j, threads, events) <=> j = k
<1>1. events \in Seq(Results) /\ events # <<>> /\ Len(events) <= 1 /\ Head(events).kind = k
      /\ Active(threads) = {}
  BY DEF Handle, Inv, InvOf, Typed, OneAtATime
<1>2. Head(events) \in Results /\ Tail(events) = <<>>
  BY <1>1
<1>3. ~win.closing
  BY <1>1 DEF Inv, InvOf, Matching
<1>. QED  BY <1>1, <1>2, <1>3 DEF Handle, Doing, Inv, InvOf, OnItsConnection

\* Where the connection stands, the window is shown as connected ...
LEMMA ShownOnline ==
  ASSUME NEW w, NEW ts, NEW lk, Typed(w, ts, <<>>, lk), Numbered(w, ts),
         Active(ts) = {}, ~w.closing, ~w.cancelling, w.commandWorker = None,
         w.commands = <<>>, w.board => w.boardFrom = w.client, lk[w.client]
  PROVE  LET s == UpdateConnectionUI(State(w, ts), TRUE)
         IN  s = State(s.w, ts) /\ Paused(s.w, ts, lk) /\ Open(s.w, ts, lk)
<1>. DEFINE s == UpdateConnectionUI(State(w, ts), TRUE)
<1>1. WindowOK(w)
  BY DEF Typed
<1>2. /\ s = State(s.w, ts) /\ WindowOK(s.w) /\ SameWorkers(s.w, w)
      /\ s.w.shown = "on" /\ s.w.board = w.board /\ s.w.boardFrom = w.boardFrom
      /\ s.w.commands = w.commands /\ s.w.commandWorker = w.commandWorker
      /\ s.w.client = w.client /\ s.w.closing = w.closing
      /\ s.w.cancelling = w.cancelling
  BY <1>1, OnlineUI
<1>. HIDE DEF s
<1>3. Paused(s.w, ts, lk)
  BY <1>1, <1>2, NumberedSame DEF Paused, Typed, Truthful
<1>4. Open(s.w, ts, lk)
  BY <1>2, <1>3, PausedInv DEF Open
<1>. QED  BY <1>2, <1>3, <1>4 DEF s

\* ... and as not connected where it does not.
LEMMA ShownOffline ==
  ASSUME NEW w, NEW ts, NEW lk, Typed(w, ts, <<>>, lk), Numbered(w, ts),
         Active(ts) = {}, ~w.closing, ~w.cancelling, w.commandWorker = None,
         ~lk[w.client]
  PROVE  LET s == UpdateConnectionUI(State(w, ts), FALSE)
         IN  s = State(s.w, ts) /\ Paused(s.w, ts, lk) /\ s.w.commands = <<>>
<1>. DEFINE s == UpdateConnectionUI(State(w, ts), FALSE)
<1>1. WindowOK(w)
  BY DEF Typed
<1>2. /\ s = State(s.w, ts) /\ WindowOK(s.w) /\ SameWorkers(s.w, w)
      /\ s.w.shown = "off" /\ ~s.w.controls /\ ~s.w.measureBtn /\ ~s.w.board
      /\ s.w.commands = <<>> /\ s.w.commandWorker = w.commandWorker
      /\ s.w.client = w.client /\ s.w.closing = w.closing
      /\ s.w.cancelling = w.cancelling
  BY <1>1, OfflineUI
<1>. HIDE DEF s
<1>3. Paused(s.w, ts, lk)
  BY <1>1, <1>2, NumberedSame DEF Paused, Typed, Truthful
<1>. QED  BY <1>2, <1>3 DEF s

LEMMA OnConnectedInv ==
  ASSUME Inv, OnConnected
  PROVE  Inv'
<1>1. /\ ~win.closing /\ Active(threads) = {} /\ events' = <<>> /\ UNCHANGED link
      /\ Head(events).kind = "connect" /\ Head(events) \in Results
      /\ events # <<>> /\ Head(events).on = win.client
      /\ \A j : Doing(j, threads, events) <=> j = "connect"
  BY HandleFacts DEF OnConnected
<1>2. /\ Typed(win, threads, <<>>, link) /\ Numbered(win, threads)
      /\ ~win.cancelling /\ win.commandWorker = None /\ win.commands = <<>> /\ ~win.board
  <2>1. <<>> \in Seq(Results)
    OBVIOUS
  <2>2. Typed(win, threads, <<>>, link) /\ Numbered(win, threads)
    BY <2>1 DEF Inv, InvOf, Typed
  <2>3. /\ Doing("connect", threads, events)
        /\ ~Doing("command", threads, events) /\ ~Doing("measure", threads, events)
    BY <1>1
  <2>4. ~win.cancelling /\ win.commandWorker = None /\ win.commands = <<>>
        /\ win.shown = "connecting"
    BY <1>1, <2>3 DEF Inv, InvOf, Matching
  <2>5. ~win.board
    BY <2>4 DEF Inv, InvOf, Truthful
  <2>. QED  BY <2>2, <2>4, <2>5
<1>3. CASE Head(events).out = "error"
  <2>. DEFINE s == UpdateConnectionUI(State(win, threads), FALSE)
  <2>1. win' = s.w /\ threads' = s.ts
    BY <1>1, <1>3, NowIsState DEF OnConnected, Becomes
  <2>2. ~link[win.client]
    BY <1>1, <1>3 DEF Inv, InvOf, OnItsConnection
  <2>3. s = State(s.w, threads) /\ Paused(s.w, threads, link) /\ s.w.commands = <<>>
    BY <1>1, <1>2, <2>2, ShownOffline
  <2>. HIDE DEF s
  <2>4. s.ts = threads
    BY <2>3, StateFields
  <2>. QED  BY <1>1, <2>1, <2>3, <2>4, PausedInv DEF Inv
<1>4. CASE Head(events).out # "error"
  <2>. DEFINE s == UpdateConnectionUI(State(win, threads), TRUE)
              r == RefreshStatus(s)
  <2>1. win' = r.w /\ threads' = r.ts
    <3>1. win.dialog = FALSE
      BY InvParts DEF WindowOK
    <3>. QED  BY <1>1, <1>4, <3>1, NowIsState DEF OnConnected, Becomes
  <2>2. link[win.client]
    BY <1>1, <1>2, <1>4 DEF Inv, InvOf, OnItsConnection, Results
  <2>3. s = State(s.w, threads) /\ Open(s.w, threads, link)
    BY <1>1, <1>2, <2>2, ShownOnline
  <2>. HIDE DEF s
  <2>4. Open(r.w, r.ts, link)
    BY <2>3, RefreshIs
  <2>. HIDE DEF r
  <2>. QED  BY <1>1, <2>1, <2>4 DEF Inv, Open
<1>. QED  BY <1>3, <1>4

\* The next command, or nothing, is started from a window that is paused.
LEMMA PausedGoesOn ==
  ASSUME NEW s, s = State(s.w, s.ts), NEW lk, Paused(s.w, s.ts, lk)
  PROVE  LET r == StartNextCommand(s) IN InvOf(r.w, r.ts, <<>>, lk)
BY PausedStarts

\* The handler of a command that was answered.
LEMMA DoneGoesOn ==
  ASSUME NEW w, NEW ts, Paused(w, ts, link), w.shown = "on", w.client = win.client,
         NEW e \in Results, e.on = w.client, NEW d \in OnDone(State(w, ts), e)
  PROVE  LET r == StartNextCommand(d) IN InvOf(r.w, r.ts, <<>>, link)
<1>1. WindowOK(w) /\ State(w, ts).w = w /\ State(w, ts).ts = ts
  BY StateFields DEF Paused, Typed
<1>2. CASE e.job = "status"
  <2>1. PICK usable \in BOOLEAN :
          d = Showing(State(w, ts), [w EXCEPT !.board = usable, !.boardFrom = e.on])
    BY <1>1, <1>2 DEF OnDone
  <2>. DEFINE v == [w EXCEPT !.board = usable, !.boardFrom = e.on]
  <2>2. d = State(v, ts)
    BY <1>1, <2>1 DEF Showing, State
  <2>3. /\ WindowOK(v) /\ SameWorkers(v, w) /\ v.boardFrom = v.client
        /\ v.client = w.client /\ v.shown = w.shown /\ v.closing = w.closing
        /\ v.cancelling = w.cancelling /\ v.commandWorker = w.commandWorker
        /\ v.commands = w.commands
    <3>1. e.on \in Clients
      BY <1>1 DEF WindowOK
    <3>2. w.boardFrom \in Clients \cup {None}
      BY <1>1 DEF WindowOK
    <3>. QED  BY <1>1, <3>1, <3>2 DEF WindowOK, Fields, SameWorkers
  <2>. HIDE DEF v
  <2>4. Paused(v, ts, link)
    BY <1>1, <2>3, NumberedSame DEF Paused, Typed, Truthful
  <2>5. d.w = v /\ d.ts = ts
    BY <2>2, StateFields
  <2>. QED  BY <2>2, <2>4, <2>5, PausedGoesOn
<1>3. CASE e.job = "init"
  <2>. DEFINE r == RunCommand(State(w, ts), "status", None)
  <2>1. d = r
    <3>1. d = RefreshStatus(State(w, ts))
      BY <1>3 DEF OnDone
    <3>2. IsConnected
      BY DEF Paused, IsConnected
    <3>. QED  BY <3>1, <3>2 DEF RefreshStatus
  <2>2. "status" \in Jobs
    BY DEF Jobs
  <2>3. r = State(r.w, r.ts) /\ Open(r.w, r.ts, link) /\ r.w.commandWorker # None
    BY <2>2, PausedRuns
  <2>. HIDE DEF r
  <2>4. StartNextCommand(r) = r
    BY <2>3, StartNextNothing
  <2>. QED  BY <2>1, <2>3, <2>4 DEF Open
<1>4. CASE e.job \notin {"status", "init"}
  <2>1. DialogRefresh(State(w, ts)) = State(w, ts)
    BY <1>1 DEF DialogRefresh, WindowOK
  <2>2. d = State(w, ts)
    BY <1>4, <2>1 DEF OnDone
  <2>. QED  BY <1>1, <2>2, PausedGoesOn
<1>. QED  BY <1>2, <1>3, <1>4

LEMMA OnCommandCompletedInv ==
  ASSUME Inv, OnCommandCompleted
  PROVE  Inv'
<1>. DEFINE e == Head(events)
            v == [win EXCEPT !.commandWorker = None]
            s == State(v, threads)
<1>1. /\ ~win.closing /\ Active(threads) = {} /\ events' = <<>> /\ UNCHANGED link
      /\ e \in Results /\ events # <<>> /\ e.on = win.client
      /\ \A j : Doing(j, threads, events) <=> j = "command"
  BY HandleFacts DEF OnCommandCompleted
<1>2. PICK d \in IF e.out = "ok" THEN OnDone(s, e) ELSE {SyncConnectionUI(s)} :
        win' = StartNextCommand(d).w /\ threads' = StartNextCommand(d).ts
  BY <1>1, NowIsState DEF OnCommandCompleted, Becomes
<1>3. /\ Typed(win, threads, <<>>, link) /\ Numbered(win, threads) /\ Truthful(win)
      /\ ~win.cancelling /\ win.shown = "on"
  <2>1. <<>> \in Seq(Results)
    OBVIOUS
  <2>2. Typed(win, threads, <<>>, link) /\ Numbered(win, threads) /\ Truthful(win)
    BY <2>1 DEF Inv, InvOf, Typed
  <2>3. Doing("command", threads, events) /\ ~Doing("measure", threads, events)
    BY <1>1
  <2>4. ~win.cancelling /\ win.shown = "on"
    BY <1>1, <2>3 DEF Inv, InvOf, Matching
  <2>. QED  BY <2>2, <2>4
<1>4. WindowOK(win)
  BY InvParts
<1>5. /\ WindowOK(v) /\ SameWorkers(v, win) /\ v.commandWorker = None
      /\ v.client = win.client /\ v.shown = "on" /\ v.closing = win.closing
      /\ v.cancelling = win.cancelling /\ v.board = win.board
      /\ v.boardFrom = win.boardFrom
  BY <1>3, <1>4 DEF WindowOK, Fields, SameWorkers, None
<1>. HIDE DEF v, e
<1>6. Typed(v, threads, <<>>, link) /\ Numbered(v, threads) /\ Truthful(v)
  BY <1>3, <1>4, <1>5, NumberedSame DEF Typed, Truthful
<1>7. IsConnected => Paused(v, threads, link)
  BY <1>1, <1>3, <1>5, <1>6 DEF Paused, IsConnected
<1>8. CASE e.out = "ok"
  <2>1. IsConnected
    BY <1>1, <1>3, <1>8 DEF Inv, InvOf, OnItsConnection, IsConnected, e
  <2>2. d \in OnDone(State(v, threads), e)
    BY <1>2, <1>8
  <2>3. Paused(v, threads, link) /\ e.on = v.client
    BY <1>1, <1>5, <1>7, <2>1
  <2>4. InvOf(StartNextCommand(d).w, StartNextCommand(d).ts, <<>>, link)
    BY <1>1, <1>5, <2>2, <2>3, DoneGoesOn
  <2>. QED  BY <1>1, <1>2, <2>4 DEF Inv
<1>9. CASE e.out # "ok"
  <2>1. d = SyncConnectionUI(s)
    BY <1>2, <1>9
  <2>2. d = State(d.w, d.ts) /\ Paused(d.w, d.ts, link)
    <3>1. CASE IsConnected
      BY <1>7, <2>1, <3>1, StateFields DEF SyncConnectionUI
    <3>2. CASE ~IsConnected
      <4>. DEFINE r == UpdateConnectionUI(State(v, threads), FALSE)
      <4>1. d = r
        BY <2>1, <3>2 DEF SyncConnectionUI
      <4>2. ~link[v.client]
        BY <1>5, <3>2 DEF IsConnected
      <4>3. r = State(r.w, threads) /\ Paused(r.w, threads, link)
        BY <1>1, <1>3, <1>5, <1>6, <4>2, ShownOffline
      <4>. HIDE DEF r
      <4>4. r.ts = threads
        BY <4>3, StateFields
      <4>. QED  BY <4>1, <4>3, <4>4
    <3>. QED  BY <3>1, <3>2
  <2>3. InvOf(StartNextCommand(d).w, StartNextCommand(d).ts, <<>>, link)
    BY <2>2, PausedGoesOn
  <2>. QED  BY <1>1, <1>2, <2>3 DEF Inv
<1>. QED  BY <1>8, <1>9

LEMMA OnMeasureEndInv ==
  ASSUME Inv, OnMeasureEnd
  PROVE  Inv'
<1>. DEFINE e == Head(events)
<1>1. /\ ~win.closing /\ Active(threads) = {} /\ events' = <<>> /\ UNCHANGED link
      /\ e \in Results /\ events # <<>> /\ e.on = win.client
      /\ \A j : Doing(j, threads, events) <=> j = "measure"
  BY HandleFacts DEF OnMeasureEnd
<1>2. /\ Doing("measure", threads, events)
      /\ ~Doing("command", threads, events) /\ ~Doing("connect", threads, events)
  BY <1>1
<1>3. WindowOK(win) /\ threads \subseteq Workers /\ link \in [Clients -> BOOLEAN]
  BY InvParts
<1>4. /\ win.commandWorker = None /\ win.commands = <<>> /\ win.shown = "on"
      /\ \A t \in threads : t.kind = "measure"
      /\ e.id = win.worker /\ win.pending = win.worker
      /\ win.cancelling => win.client < MaxClients
      /\ win.board => win.boardFrom = win.client
      /\ Numbered(win, threads)
  <2>1. /\ win.commandWorker = None /\ win.commands = <<>> /\ win.shown = "on"
        /\ \A t \in threads : t.kind = "measure"
        /\ e.id = win.worker /\ (win.cancelling => win.client < MaxClients)
    BY <1>1, <1>2 DEF Inv, InvOf, Matching
  <2>2. Numbered(win, threads) /\ win.pending = win.worker
    BY DEF Inv, InvOf, Numbered
  <2>3. win.board => win.boardFrom = win.client
    BY DEF Inv, InvOf, Truthful
  <2>. QED  BY <2>1, <2>2, <2>3
<1>5. CASE win.cancelling
  <2>. DEFINE v == [win EXCEPT !.cancelling = FALSE, !.cancelText = FALSE]
              s == UpdateConnectionUI(State(v, threads), FALSE)
              r == StartConnect(s)
  <2>1. win' = r.w /\ threads' = r.ts
    BY <1>1, <1>5, NowIsState DEF OnMeasureEnd, OnMeasureCancelled, Becomes
  <2>2. /\ WindowOK(v) /\ SameWorkers(v, win) /\ v.commandWorker = None
        /\ v.client = win.client /\ v.closing = win.closing /\ ~v.cancelling
    BY <1>3, <1>4 DEF WindowOK, Fields, SameWorkers
  <2>. HIDE DEF v
  <2>3. /\ s = State(s.w, threads) /\ WindowOK(s.w) /\ SameWorkers(s.w, v)
        /\ s.w.shown = "off" /\ ~s.w.controls /\ ~s.w.measureBtn /\ ~s.w.board
        /\ s.w.commands = <<>> /\ s.w.commandWorker = v.commandWorker
        /\ s.w.client = v.client /\ s.w.closing = v.closing
        /\ s.w.cancelling = v.cancelling
    BY <2>2, OfflineUI
  <2>. HIDE DEF s
  <2>4. SameWorkers(s.w, win)
    BY <2>2, <2>3 DEF SameWorkers
  <2>5. Numbered(s.w, threads)
    BY <1>3, <1>4, <2>2, <2>3, <2>4, NumberedSame
  <2>6. Typed(s.w, threads, <<>>, link) /\ Truthful(s.w)
    BY <1>3, <2>3 DEF Typed, Truthful
  <2>7. InvOf(r.w, r.ts, <<>>, link)
    BY <1>1, <1>4, <1>5, <2>2, <2>3, <2>5, <2>6, ConnectStarts
  <2>. HIDE DEF r
  <2>. QED  BY <1>1, <2>1, <2>7 DEF Inv
<1>6. CASE ~win.cancelling /\ e.out = "ok"
  <2>. DEFINE u == [win EXCEPT !.spectrum = e.id, !.params = win.pending, !.cancelText = FALSE]
              v == SetControlsEnabled(u, TRUE)
              r == RefreshStatus(State(v, threads))
  <2>1. win' = r.w /\ threads' = r.ts
    BY <1>1, <1>6, NowIsState DEF OnMeasureEnd, Becomes
  <2>2. /\ WindowOK(v) /\ v.commandWorker = None /\ v.commands = <<>>
        /\ v.client = win.client /\ v.closing = win.closing /\ v.cancelling = win.cancelling
        /\ v.shown = "on" /\ v.board = win.board /\ v.boardFrom = win.boardFrom
        /\ v.made = win.made /\ v.worker = win.worker /\ v.connectWorker = win.connectWorker
        /\ v.workers = win.workers /\ v.pending = win.pending
        /\ v.spectrum = e.id /\ v.params = win.pending
    <3>1. e.id \in Nat
      BY <1>1 DEF Results
    <3>2. win.pending \in Nat
      BY <1>3 DEF WindowOK
    <3>. DEFINE i == e.id
                j == win.pending
                z == [win EXCEPT !.spectrum = i, !.params = j, !.cancelText = FALSE,
                                 !.controls = TRUE, !.measureBtn = TRUE]
    <3>. HIDE DEF e, i
    <3>3. v = z
      BY DEF SetControlsEnabled, i
    <3>. HIDE DEF v, j
    <3>4. /\ z.commandWorker = None /\ z.commands = <<>>
          /\ z.client = win.client /\ z.closing = win.closing /\ z.cancelling = win.cancelling
          /\ z.shown = "on" /\ z.board = win.board /\ z.boardFrom = win.boardFrom
          /\ z.made = win.made /\ z.worker = win.worker
          /\ z.connectWorker = win.connectWorker
          /\ z.workers = win.workers /\ z.pending = win.pending
          /\ z.spectrum = i /\ z.params = j
      BY <1>3, <1>4 DEF WindowOK, Fields
    <3>5. WindowOK(z)
      <4>1. i \in Nat /\ j \in Nat
        BY <3>1, <3>2 DEF i, j
      <4>. QED  BY <1>3, <4>1 DEF WindowOK, Fields
    <3>. HIDE DEF z
    <3>. QED  BY <3>3, <3>4, <3>5 DEF i, j
  <2>. HIDE DEF v
  <2>3. Numbered(v, threads)
    BY <1>4, <2>2 DEF Numbered
  <2>4. link[win.client]
    BY <1>1, <1>6 DEF Inv, InvOf, OnItsConnection
  <2>5. Paused(v, threads, link)
    BY <1>1, <1>3, <1>4, <1>6, <2>2, <2>3, <2>4 DEF Paused, Typed, Truthful
  <2>6. Open(v, threads, link)
    BY <2>2, <2>5, PausedInv DEF Open, Paused
  <2>7. Open(r.w, r.ts, link)
    BY <2>6, RefreshIs
  <2>. HIDE DEF r
  <2>. QED  BY <1>1, <2>1, <2>7 DEF Inv, Open
<1>7. CASE ~win.cancelling /\ e.out # "ok"
  <2>. DEFINE v == [win EXCEPT !.cancelText = FALSE]
              s == UpdateConnectionUI(State(v, threads), IsConnected)
  <2>1. win' = s.w /\ threads' = s.ts
    BY <1>1, <1>7, NowIsState DEF OnMeasureEnd, Becomes
  <2>2. /\ WindowOK(v) /\ SameWorkers(v, win) /\ v.commandWorker = None
        /\ v.commands = <<>> /\ v.client = win.client /\ v.closing = win.closing
        /\ v.cancelling = win.cancelling
        /\ v.board = win.board /\ v.boardFrom = win.boardFrom
    BY <1>3, <1>4 DEF WindowOK, Fields, SameWorkers
  <2>. HIDE DEF v
  <2>3. Typed(v, threads, <<>>, link) /\ Numbered(v, threads)
    BY <1>3, <1>4, <2>2, NumberedSame DEF Typed
  <2>4. IsConnected \in BOOLEAN
    BY InvParts DEF IsConnected
  <2>5. s = State(s.w, threads) /\ Paused(s.w, threads, link) /\ s.w.commands = <<>>
    <3>1. CASE IsConnected = TRUE
      <4>. DEFINE r == UpdateConnectionUI(State(v, threads), TRUE)
      <4>1. s = r /\ link[v.client]
        BY <2>2, <3>1 DEF IsConnected
      <4>2. r = State(r.w, threads) /\ Paused(r.w, threads, link)
        BY <1>1, <1>4, <1>7, <2>2, <2>3, <4>1, ShownOnline
      <4>3. r.w.commands = v.commands
        BY <2>2, OnlineUI
      <4>. HIDE DEF r, s
      <4>. QED  BY <2>2, <4>1, <4>2, <4>3
    <3>2. CASE IsConnected = FALSE
      <4>. DEFINE r == UpdateConnectionUI(State(v, threads), FALSE)
      <4>1. s = r /\ ~link[v.client]
        BY <2>2, <3>2 DEF IsConnected
      <4>2. r = State(r.w, threads) /\ Paused(r.w, threads, link) /\ r.w.commands = <<>>
        BY <1>1, <1>7, <2>2, <2>3, <4>1, ShownOffline
      <4>. HIDE DEF r, s
      <4>. QED  BY <4>1, <4>2
    <3>. QED  BY <2>4, <3>1, <3>2
  <2>. HIDE DEF s
  <2>6. s.ts = threads
    BY <2>5, StateFields
  <2>. QED  BY <1>1, <2>1, <2>5, <2>6, PausedInv DEF Inv
<1>. QED  BY <1>5, <1>6, <1>7

-----------------------------------------------------------------------------

PatientInv == Patience => Inv

LEMMA StepInv == PatientInv /\ [Next]_<<user, vars>> => PatientInv'
<1>. SUFFICES ASSUME PatientInv, [Next]_<<user, vars>>, Patience' PROVE Inv'
  BY DEF PatientInv
<1>0. Patience /\ Inv
  BY DEF PatientInv, Patience, Next, UserMay, Dialog
<1>1. CASE UNCHANGED vars
  BY <1>0, <1>1 DEF vars, Inv, InvOf, Typed, Numbered, OneAtATime, Matching, OnItsConnection,
                    Truthful, Doing, Active, WindowOK
<1>2. CASE User
  <2>1. ~OnOpenSchematic
    BY <1>0 DEF Patience, OnOpenSchematic
  <2>2. ~OnDialog
    BY <1>0, InvParts DEF OnDialog, WindowOK
  <2>. QED
    BY <1>0, <1>2, <2>1, <2>2, OnConnectInv, OnCommandInv, OnMeasureInv, CancelInv, CloseInv
    DEF User
<1>3. CASE \E t \in threads : Thread(t)
  BY <1>0, <1>3, RunInv, ReturnInv, ConnectingInv, EndsInv DEF Thread
<1>4. CASE EventLoop
  BY <1>0, <1>4, OnConnectedInv, OnCommandCompletedInv, OnMeasureEndInv DEF EventLoop
<1>. QED  BY <1>1, <1>2, <1>3, <1>4 DEF Next

LEMMA InvAlways == Spec => []PatientInv
<1>1. Init => PatientInv
  BY InitInv DEF PatientInv
<1>. QED  BY <1>1, StepInv, PTL DEF Spec

\* However often a patient user clicks and reconnects, no call is made on a
\* client that has one under way or still connects, and every worker that has
\* not ended is one the window refers to.
THEOREM CallsNeverOverlap == Spec => []PatientCallsAreAlone
<1>1. Inv => NoCallOverlaps /\ NoCallWhileConnecting
  BY DEF Inv, InvOf, OneAtATime, Active, NoCallOverlaps, NoCallWhileConnecting, Underway
<1>2. Inv => ThreadsAreKept
  BY InvParts DEF Inv, InvOf, Numbered, ThreadsAreKept, Ids, Workers, Kinds
<1>3. PatientInv => PatientCallsAreAlone
  BY <1>1, <1>2 DEF PatientInv, PatientCallsAreAlone
<1>. QED  BY <1>3, InvAlways, PTL

\* To a patient user the window never shows more than it has: nothing to press
\* while it is not connected, no board panel without a status of this
\* connection, and at rest the true state of the socket.
THEOREM WindowTruthful == Spec => []PatientWindowIsTruthful
<1>1. Inv => NothingEnabledOffline /\ BoardEnabledByItsStatus
  BY DEF Inv, InvOf, Truthful, NothingEnabledOffline, BoardEnabledByItsStatus
<1>2. Inv => ShownAtRest
  BY DEF Inv, InvOf, OnItsConnection, Active, ShownAtRest
<1>3. PatientInv => PatientWindowIsTruthful
  BY <1>1, <1>2 DEF PatientInv, PatientWindowIsTruthful
<1>. QED  BY <1>3, InvAlways, PTL
=============================================================================
