----------------------------- MODULE AfmClient -----------------------------
(***************************************************************************)
(* One AFMClient object, the threads that call it, and the server it talks *)
(* to: connect, disconnect from another thread, the command lock, the       *)
(* flush before each request, and the reading of a reply line by line or in *)
(* one block, at the steps where another thread can come between.           *)
(*                                                                          *)
(* A reply is a sequence of lines, the first of which says what follows.    *)
(* Each carries its connection and the request it answers, which the real   *)
(* lines do not.                                                            *)
(***************************************************************************)
EXTENDS Integers, Sequences

CONSTANTS
  Threads, NoThread, NoConn,
  Ops,              \* client calls made, among OpKinds
  Server,           \* how the server answers, among ServerKinds
  MaxConns,         \* bound on the connections of a behaviour
  MaxRequests       \* bound on its requests

OpKinds == {"command", "status", "measure"}

ServerKinds ==
  {"framed",      \* announces the length of what it sends (2.8.0 and later)
   "legacy",      \* rows without a byte count, status up to a separator
   "garbled"}     \* a line of a status block is not ASCII

ClientAssumption ==
  /\ NoThread \notin Threads
  /\ MaxConns \in Nat /\ MaxRequests \in Nat
  /\ NoConn \notin 1 .. MaxConns
  /\ Ops \subseteq OpKinds /\ Server \subseteq ServerKinds

ASSUME ClientAssumption

VARIABLES
  sock,      \* self._socket
  buf,       \* self._recv_buffer, in whole lines
  lock,      \* the thread that holds self._lock
  pc,        \* where each thread is
  job,       \* its call
  result,    \* what its last call returned or raised
  clearing,  \* disconnect() has closed the socket, not yet cleared the buffer
  conns,     \* sockets made
  requests,  \* requests made
  net        \* the sockets: both ends, and what travels

client == <<sock, buf, lock, pc, job, result, clearing, conns, requests>>
vars == <<client, net>>

Conns == 1 .. MaxConns

\* The replies the server may give to each call, as the forms of their lines.
Replies(op) ==
  LET framed == [command |-> {<<"ok">>, <<"lines", "body", "body">>,
                              <<"data", "body", "body">>},
                 status  |-> {<<"lines", "body", "body">>},
                 measure |-> {<<"data", "body", "body">>}]
      legacy == [command |-> {<<"ok">>, <<"rows", "body", "body">>},
                 status  |-> {<<"ok", "body", "end">>},
                 measure |-> {<<"rows", "body", "body">>}]
      garbled == [command |-> {}, status |-> {<<"lines", "bad", "body">>}, measure |-> {}]
  IN {<<"err">>}
       \cup (IF "framed" \in Server THEN framed[op] ELSE {})
       \cup (IF "legacy" \in Server THEN legacy[op] ELSE {})
       \cup (IF "garbled" \in Server THEN garbled[op] ELSE {})

Line(c, req, form) == [on |-> c, req |-> req, form |-> form]
Lines(c, req, forms) == [i \in DOMAIN forms |-> Line(c, req, forms[i])]

NoJob == [op |-> "none", req |-> 0, at |-> NoConn, via |-> NoConn,
          phase |-> "header", left |-> 0, got |-> <<>>]
NoResult == [is |-> "none", op |-> "none", req |-> 0, at |-> NoConn, got |-> <<>>]

Init ==
  /\ sock = NoConn /\ buf = <<>> /\ lock = NoThread /\ clearing = FALSE
  /\ pc = [t \in Threads |-> "idle"]
  /\ job = [t \in Threads |-> NoJob]
  /\ result = [t \in Threads |-> NoResult]
  /\ conns = 0 /\ requests = 0
  /\ net = [open |-> [c \in Conns |-> FALSE],      \* the client's end is open
            eof |-> [c \in Conns |-> FALSE],       \* the server's end is closed
            asked |-> [c \in Conns |-> <<>>],      \* requests on their way
            sent |-> [c \in Conns |-> <<>>],       \* lines on their way back
            accepted |-> 0, serving |-> NoConn]

-----------------------------------------------------------------------------
(* Steps that several calls share *)

Goto(t, at) == pc' = [pc EXCEPT ![t] = at]

\* The client's end is closed: what was under way can no longer be read.
Closed(c) ==
  [net EXCEPT !.open[c] = FALSE, !.asked[c] = <<>>, !.sent[c] = <<>>]

\* disconnect() as a call makes it: it closes whatever self._socket is now.
CloseCurrent ==
  /\ sock' = NoConn
  /\ buf' = IF sock = NoConn THEN buf ELSE <<>>
  /\ net' = IF sock = NoConn THEN net ELSE Closed(sock)

KeepConnection == UNCHANGED <<sock, buf, net>>

\* The call ends, with the lines it got where they come out, as a value or in
\* the text of an AFMCommandError, and leaves the lock it holds.
Finish(t, is, got) ==
  /\ result' = [result EXCEPT ![t] =
       [is |-> is, op |-> job[t].op, req |-> job[t].req, at |-> job[t].at, got |-> got]]
  /\ job' = [job EXCEPT ![t] = NoJob]
  /\ Goto(t, "idle")
  /\ lock' = IF lock = t THEN NoThread ELSE lock
  /\ UNCHANGED <<clearing, conns, requests>>

\* A failure that closes the connection.
FailClosed(t, is) ==
  /\ CloseCurrent
  /\ Finish(t, IF job[t].op = "connect" THEN "connection" ELSE is, <<>>)

-----------------------------------------------------------------------------
(* connect and disconnect *)

\* connect() is called on a client nobody else is using: the GUI and the
\* shell make a new one for every connection, and use it when it is there
\* (GuiSession, NoCallWhileConnecting).
Quiet == ~clearing /\ \A t \in Threads : pc[t] = "idle"

Connecting(t) == pc[t] # "idle" /\ job[t].op = "connect"

\* The socket connects; the welcome is read next.
Connect(t) ==
  /\ pc[t] = "idle" /\ sock = NoConn /\ conns < MaxConns
  /\ Quiet
  /\ conns' = conns + 1
  /\ sock' = conns + 1 /\ buf' = <<>>
  /\ net' = [net EXCEPT !.open[conns + 1] = TRUE]
  /\ job' = [job EXCEPT ![t] = [NoJob EXCEPT !.op = "connect", !.at = conns + 1]]
  /\ result' = [result EXCEPT ![t] = NoResult]
  /\ Goto(t, "check")
  /\ UNCHANGED <<lock, clearing, requests>>

\* Mutant: the socket is closed before it is taken away.
Disconnect_CloseFirst ==
  /\ sock # NoConn
  /\ net' = Closed(sock)
  /\ clearing' = TRUE
  /\ UNCHANGED <<sock, buf, lock, pc, job, result, conns, requests>>

\* disconnect() from another thread, up to the close of the socket ...
Disconnect ==
  /\ sock # NoConn
  /\ sock' = NoConn
  /\ net' = Closed(sock)
  /\ clearing' = TRUE
  /\ UNCHANGED <<buf, lock, pc, job, result, conns, requests>>

\* ... and what it does after it.
DisconnectClear ==
  /\ clearing
  /\ buf' = <<>> /\ clearing' = FALSE
  /\ UNCHANGED <<sock, lock, pc, job, result, conns, requests, net>>

-----------------------------------------------------------------------------
(* A call: _transaction, _flush_buffer, _send *)

\* Mutant: the lock is not looked at.
Begin_Unlocked(t, op) ==
  /\ pc[t] = "idle" /\ requests < MaxRequests
  /\ \A u \in Threads : ~Connecting(u)
  /\ lock' = t
  /\ requests' = requests + 1
  /\ job' = [job EXCEPT ![t] =
               [NoJob EXCEPT !.op = op, !.req = requests + 1, !.at = sock]]
  /\ result' = [result EXCEPT ![t] = NoResult]
  /\ Goto(t, "flush")
  /\ UNCHANGED <<sock, buf, clearing, conns, net>>

Begin(t, op) ==
  /\ pc[t] = "idle" /\ lock = NoThread /\ requests < MaxRequests
  /\ \A u \in Threads : ~Connecting(u)
  /\ lock' = t
  /\ requests' = requests + 1
  /\ job' = [job EXCEPT ![t] =
               [NoJob EXCEPT !.op = op, !.req = requests + 1, !.at = sock]]
  /\ result' = [result EXCEPT ![t] = NoResult]
  /\ Goto(t, "flush")
  /\ UNCHANGED <<sock, buf, clearing, conns, net>>

Busy(t, op) ==
  /\ pc[t] = "idle" /\ lock # NoThread
  /\ result' = [result EXCEPT ![t] = [NoResult EXCEPT !.is = "busy"]]
  /\ UNCHANGED <<sock, buf, lock, pc, job, clearing, conns, requests, net>>

\* Clears the buffer and drops the lines that have arrived by now.
Flush(t) ==
  /\ pc[t] = "flush"
  /\ buf' = <<>>
  /\ IF sock = NoConn THEN UNCHANGED net
     ELSE \E n \in 0 .. Len(net.sent[sock]) :
            net' = [net EXCEPT !.sent[sock] = SubSeq(@, n + 1, Len(@))]
  /\ Goto(t, "send")
  /\ UNCHANGED <<sock, lock, job, result, clearing, conns, requests>>

Send(t) ==
  /\ pc[t] = "send"
  /\ sock # NoConn
  /\ net' = [net EXCEPT !.asked[sock] = Append(@, [op |-> job[t].op, req |-> job[t].req])]
  /\ Goto(t, "check")
  /\ UNCHANGED <<sock, buf, lock, job, result, clearing, conns, requests>>

\* Not connected, or the server has closed its end.
SendFails(t) ==
  /\ pc[t] = "send"
  /\ sock # NoConn => net.eof[sock]
  /\ FailClosed(t, "connection")

-----------------------------------------------------------------------------
(* _read_line and _read_exact *)

\* if not self._socket: raise AFMConnectionError
Check(t) ==
  /\ pc[t] = "check"
  /\ IF sock = NoConn
     THEN FailClosed(t, "connection")
     ELSE Goto(t, "bind")
          /\ UNCHANGED <<sock, buf, lock, job, result, clearing, conns, requests, net>>

\* sock = self._socket; prev_timeout = sock.gettimeout()
Bind(t) ==
  /\ pc[t] = "bind"
  /\ IF sock = NoConn
     THEN KeepConnection /\ Finish(t, "unexpected", <<>>)
     ELSE /\ job' = [job EXCEPT ![t].via = sock]
          /\ Goto(t, "recv")
          /\ UNCHANGED <<sock, buf, lock, result, clearing, conns, requests, net>>

Need(t) == IF job[t].phase = "exact" THEN job[t].left ELSE 1

\* Any part of what the server has sent has arrived.
Recv(t) ==
  LET c == job[t].via
  IN /\ pc[t] = "recv" /\ Len(buf) < Need(t)
     /\ net.open[c]
     /\ \E n \in 1 .. Len(net.sent[c]) :
          /\ buf' = buf \o SubSeq(net.sent[c], 1, n)
          /\ net' = [net EXCEPT !.sent[c] = SubSeq(@, n + 1, Len(@))]
     /\ UNCHANGED <<sock, lock, pc, job, result, clearing, conns, requests>>

\* Mutant: the close of the own end is not noticed.
RecvClosed_ByPeerOnly(t) ==
  LET c == job[t].via
  IN /\ pc[t] = "recv" /\ Len(buf) < Need(t)
     /\ net.open[c] /\ net.eof[c] /\ net.sent[c] = <<>>
     /\ FailClosed(t, "connection")

RecvClosed(t) ==
  LET c == job[t].via
  IN /\ pc[t] = "recv" /\ Len(buf) < Need(t)
     /\ net.open[c] => net.eof[c] /\ net.sent[c] = <<>>
     /\ FailClosed(t, "connection")

\* Mutant: a time-out leaves the connection open.
RecvTimeout_KeepsConnection(t) ==
  LET c == job[t].via
  IN /\ pc[t] = "recv" /\ Len(buf) < Need(t)
     /\ net.open[c]
     /\ KeepConnection
     /\ Finish(t, IF job[t].op = "connect" THEN "connection" ELSE "timeout", <<>>)

RecvTimeout(t) ==
  LET c == job[t].via
  IN /\ pc[t] = "recv" /\ Len(buf) < Need(t)
     /\ net.open[c]
     /\ FailClosed(t, "timeout")

RecvEnough(t) ==
  /\ pc[t] = "recv" /\ Len(buf) >= Need(t)
  /\ Goto(t, "split")
  /\ UNCHANGED <<sock, buf, lock, job, result, clearing, conns, requests, net>>

-----------------------------------------------------------------------------
(* What a line read is taken for *)

BodyLines == 2   \* the rows or lines a header announces

\* What the header makes the call do next: end, or read more and how.
AfterHeader(op, form) ==
  CASE form = "bad"     -> "protocol"
    [] form = "err"     -> "command"
    [] op = "connect"   -> "value"
    [] op = "command" /\ form \in {"ok", "welcome"}    -> "value"
    [] op = "command" /\ form \in {"body", "end"}      -> "command"
    [] op \in {"command", "status"} /\ form = "lines"  -> "lines"
    [] op \in {"command", "measure"} /\ form = "data"  -> "exact"
    [] op \in {"command", "measure"} /\ form = "rows"  -> "lines"
    [] op = "status" /\ form \in {"ok", "data", "rows"} -> "until"
    [] OTHER            -> "protocol"

\* A raw command answered by a spectrum is read to its end, then refused.
Whole(t, got) ==
  IF job[t].op = "command" /\ got[1].form \in {"data", "rows"} THEN "protocol" ELSE "value"

\* What follows n lines read: an end, or what to read next.
Taken(t, n) ==
  LET read == SubSeq(buf, 1, n)
      got  == job[t].got \o read
      form == read[1].form
      ph   == job[t].phase
      next == IF ph = "header" THEN AfterHeader(job[t].op, form) ELSE ph
      left == IF ph = "header" THEN BodyLines ELSE job[t].left - n
  IN [got |-> got, left |-> left,
      to |-> IF ph = "header" THEN next
             ELSE IF \E i \in 1 .. n : read[i].form = "bad" THEN "protocol"
             ELSE IF ph = "until"
                  THEN IF form = "err" THEN "command" ELSE IF form = "end" THEN "value" ELSE "until"
             ELSE IF left = 0 THEN Whole(t, got) ELSE ph]

Ends == {"value", "command", "protocol"}

Split(t) ==
  LET n == Need(t)
      k == Taken(t, n)
  IN /\ pc[t] = "split" /\ Len(buf) >= n
     /\ IF k.to \in Ends
        THEN IF job[t].op = "connect" /\ k.to # "value"
             THEN CloseCurrent /\ Finish(t, "connection", <<>>)
             ELSE /\ buf' = SubSeq(buf, n + 1, Len(buf))
                  /\ UNCHANGED <<sock, net>>
                  /\ Finish(t, k.to, IF k.to = "protocol" THEN <<>> ELSE k.got)
        ELSE /\ buf' = SubSeq(buf, n + 1, Len(buf))
             /\ job' = [job EXCEPT ![t].got = k.got, ![t].left = k.left,
                                   ![t].phase = k.to]
             /\ Goto(t, "check")
             /\ UNCHANGED <<sock, lock, result, clearing, conns, requests, net>>

\* The buffer was cleared since it was looked at: there is no line to split
\* off, and a payload comes out short of its rows.
SplitCleared(t) ==
  /\ pc[t] = "split" /\ Len(buf) < Need(t)
  /\ KeepConnection
  /\ Finish(t, IF job[t].phase = "exact" THEN "protocol" ELSE "unexpected", <<>>)

-----------------------------------------------------------------------------
(* The server and the network *)

\* One client at a time, in the order they connected.
Accept ==
  LET c == net.accepted + 1
  IN /\ net.serving = NoConn /\ c <= conns
     /\ net' = [net EXCEPT !.accepted = c, !.serving = c,
                           !.sent[c] = IF net.open[c] THEN <<Line(c, 0, "welcome")>> ELSE @]
     /\ UNCHANGED client

Answer ==
  LET c == net.serving
  IN /\ c # NoConn /\ net.asked[c] # <<>>
     /\ \E forms \in Replies(Head(net.asked[c]).op) :
          net' = [net EXCEPT !.asked[c] = Tail(@),
                             !.sent[c] = @ \o Lines(c, Head(net.asked[c]).req, forms)]
     /\ UNCHANGED client

\* The server sees that its client has gone, or drops it.
Leave ==
  LET c == net.serving
  IN /\ c # NoConn
     /\ net' = [net EXCEPT !.serving = NoConn, !.eof[c] = TRUE, !.asked[c] = <<>>]
     /\ UNCHANGED client

-----------------------------------------------------------------------------
Reads(t) ==
  \/ Check(t) \/ Bind(t) \/ RecvEnough(t) \/ Split(t) \/ SplitCleared(t)
  \/ Recv(t) \/ RecvClosed(t) \/ RecvTimeout(t)

Calls(t) == Flush(t) \/ Send(t) \/ SendFails(t) \/ Reads(t)

Next ==
  \/ \E t \in Threads :
       \/ Connect(t) \/ Calls(t)
       \/ \E op \in Ops : Begin(t, op) \/ Busy(t, op)
  \/ Disconnect \/ DisconnectClear
  \/ Accept \/ Answer \/ Leave

\* Every recv has a timeout, so a thread that has begun a call goes on.
Fairness == \A t \in Threads : WF_vars(Calls(t))

Spec == Init /\ [][Next]_vars /\ Fairness

-----------------------------------------------------------------------------
(* Properties *)

LineSet == [on : Conns, req : 0 .. MaxRequests,
            form : {"welcome", "ok", "err", "lines", "data", "rows", "body", "end", "bad"}]

\* The variables keep their types: the socket is one of those made and is
\* open, the buffers hold lines, and only a thread holds the lock.
TypeOK ==
  /\ sock \in 1 .. conns \cup {NoConn}
  /\ buf \in Seq(LineSet)
  /\ lock \in Threads \cup {NoThread}
  /\ pc \in [Threads -> {"idle", "flush", "send", "check", "bind", "recv", "split"}]
  /\ \A t \in Threads : job[t].via \in Conns \cup {NoConn} /\ job[t].got \in Seq(LineSet)
  /\ conns \in 0 .. MaxConns /\ requests \in 0 .. MaxRequests
  /\ sock # NoConn => net.open[sock]

Forms(lines) == [i \in DOMAIN lines |-> lines[i].form]

\* A call that returns a value returns all of the server's reply to its own
\* request, and connect() the welcome of the connection it made: timeouts,
\* late replies and disconnect() from another thread included.
AnsweredByOwnReply ==
  \A t \in Threads : result[t].is = "value" =>
    LET r == result[t]
    IN /\ \A i \in DOMAIN r.got : r.got[i].req = r.req /\ r.got[i].on = r.at
       /\ IF r.op = "connect" THEN Forms(r.got) = <<"welcome">>
          ELSE Forms(r.got) \in Replies(r.op)

\* The flush before a request prevents "leftover data ... from being
\* interpreted as the response to the next command": neither a value nor an
\* AFMCommandError is made of lines that answer another request.
LeftoverNotTaken ==
  \A t \in Threads : \A i \in DOMAIN result[t].got : result[t].got[i].req = result[t].req

Sends(t) == pc[t] = "send" /\ pc'[t] = "check"

\* Every call comes back, whatever the server does, and leaves the lock.
CallsReturn ==
  \A t \in Threads : pc[t] # "idle" ~> pc[t] = "idle" /\ lock # t

\* disconnect() from another thread "aborts any in-flight read by closing the
\* socket, which surfaces there as AFMConnectionError": no call ends in an
\* error that is not one of the client's.
AbortIsAClientError ==
  \A t \in Threads : result[t].is # "unexpected"

Session == INSTANCE ClientSession WITH
  link <- sock,
  opened <- conns,
  call <- [t \in Threads |->
             IF lock = t THEN [req |-> job[t].req, on |-> job[t].at]
             ELSE [req |-> 0, on |-> NoConn]],
  outcome <- [t \in Threads |->
             IF result[t].is = "value"
             THEN [is |-> "value", req |-> Head(result[t].got).req,
                   on |-> Head(result[t].got).on]
             ELSE [is |-> result[t].is, req |-> result[t].req, on |-> result[t].at]]

\* The client keeps the promise of ClientSession.
ImplementsSession == Session!Spec
=============================================================================
