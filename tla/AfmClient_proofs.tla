-------------------------- MODULE AfmClient_proofs --------------------------
(***************************************************************************)
(* Proofs about the client, for any threads, calls, connections and         *)
(* requests, of a server whose text is ASCII.                               *)
(***************************************************************************)
EXTENDS AfmClient, TLAPS

NotGarbled == "garbled" \notin Server

OpNames == OpKinds \cup {"none", "connect"}
Phases == {"header", "lines", "exact", "until"}
Places == {"idle", "flush", "send", "check", "bind", "recv", "split"}
Verdicts == {"none", "value", "command", "protocol", "connection", "timeout",
             "unexpected", "busy"}

Jobs == [op : OpNames, req : 0 .. MaxRequests, at : Conns \cup {NoConn},
         via : Conns \cup {NoConn}, phase : Phases, left : 0 .. BodyLines,
         got : Seq(LineSet)]
Results == [is : Verdicts, op : OpNames, req : 0 .. MaxRequests, at : Conns \cup {NoConn},
            got : Seq(LineSet)]
Asked == [op : OpKinds, req : 0 .. MaxRequests]
Nets == [open : [Conns -> BOOLEAN], eof : [Conns -> BOOLEAN],
         asked : [Conns -> Seq(Asked)], sent : [Conns -> Seq(LineSet)],
         accepted : 0 .. MaxConns, serving : Conns \cup {NoConn}]

Typed ==
  /\ sock \in Conns \cup {NoConn} /\ buf \in Seq(LineSet)
  /\ lock \in Threads \cup {NoThread} /\ clearing \in BOOLEAN
  /\ pc \in [Threads -> Places] /\ job \in [Threads -> Jobs]
  /\ result \in [Threads -> Results]
  /\ conns \in 0 .. MaxConns /\ requests \in 0 .. MaxRequests
  /\ net \in Nets

\* One thread at a time is in a call, and has the lock unless it connects.
Alone ==
  /\ \A t, u \in Threads : pc[t] # "idle" /\ pc[u] # "idle" => t = u
  /\ \A t \in Threads : lock = t <=> pc[t] # "idle" /\ job[t].op # "connect"
  /\ \A t \in Threads : pc[t] = "idle" => job[t] = NoJob
  /\ \A t \in Threads : pc[t] # "idle" => job[t].op \in OpKinds \cup {"connect"}
  /\ \A t \in Threads : pc[t] \in {"flush", "send"} =>
       job[t].op # "connect" /\ job[t].got = <<>> /\ job[t].phase = "header"

\* Only the socket of the client is open, nothing travels on one that is not,
\* and the call under way is one on it.
Sockets ==
  /\ sock # NoConn => sock = conns /\ net.open[sock]
  /\ \A c \in Conns : net.open[c] => c = sock
  /\ \A c \in Conns : ~net.open[c] => net.asked[c] = <<>> /\ net.sent[c] = <<>>
  /\ clearing => sock = NoConn
  /\ \A t \in Threads : pc[t] # "idle" /\ sock # NoConn => job[t].at = sock
  /\ \A t \in Threads : pc[t] \in {"recv", "split"} => job[t].via = job[t].at
  /\ \A t \in Threads : job[t].via # NoConn => job[t].via = job[t].at
  /\ \A t \in Threads : pc[t] \in {"recv", "split"} => job[t].via # NoConn

Reading == {t \in Threads : pc[t] \in {"check", "bind", "recv", "split"}}

\* A connection nobody reads from has nothing to read, and was accepted.
AtRest ==
  sock # NoConn =>
    /\ Reading = {} => buf = <<>> /\ net.sent[sock] = <<>> /\ net.asked[sock] = <<>>
    /\ net.accepted < sock => net.asked[sock] = <<>> /\ net.sent[sock] = <<>>
    /\ net.accepted < sock =>
         \E t \in Reading : /\ job[t].op = "connect" /\ job[t].req = 0
                            /\ job[t].got = <<>> /\ buf = <<>>

Answers(op) == IF op = "connect" THEN {<<"welcome">>} ELSE Replies(op)

\* Nothing of the answer has come.
Unanswered(t) ==
  /\ buf = <<>> /\ job[t].got = <<>> /\ job[t].phase = "header"
  /\ sock # NoConn =>
       /\ net.sent[sock] = <<>>
       /\ \/ net.asked[sock] = <<>>
          \/ /\ job[t].op # "connect"
             /\ net.asked[sock] = <<[op |-> job[t].op, req |-> job[t].req]>>

\* What the call has read, the buffer and the socket hold the answer, in this
\* order; once the socket is closed, what is left of it.
Answered(t, forms) ==
  LET LineAt(i) == Line(job[t].at, job[t].req, forms[i])
      read == Len(job[t].got)
  IN /\ read + Len(buf) <= Len(forms)
     /\ \A i \in 1 .. read : job[t].got[i] = LineAt(i)
     /\ \A i \in 1 .. Len(buf) : buf[i] = LineAt(read + i)
     /\ sock # NoConn =>
          /\ net.asked[sock] = <<>>
          /\ read + Len(buf) + Len(net.sent[sock]) = Len(forms)
          /\ \A i \in 1 .. Len(net.sent[sock]) :
               net.sent[sock][i] = LineAt(read + Len(buf) + i)
     /\ \/ job[t].phase = "header" /\ read = 0
        \/ /\ job[t].phase = AfterHeader(job[t].op, forms[1])
           /\ job[t].left \in 1 .. BodyLines /\ read = 1 + BodyLines - job[t].left
           /\ job[t].phase = "exact" => job[t].left = BodyLines

\* Where a call that reads stands.
Progress ==
  \A t \in Reading :
    /\ Unanswered(t) \/ \E forms \in Answers(job[t].op) : Answered(t, forms)
    /\ pc[t] = "split" /\ sock # NoConn => Len(buf) >= Need(t)

Inv == Typed /\ Alone /\ Sockets /\ AtRest /\ Progress /\ AnsweredByOwnReply

-----------------------------------------------------------------------------
(* Types of what is put together *)

LEMMA Constants ==
  /\ NoThread \notin Threads /\ NoConn \notin Conns
  /\ MaxConns \in Nat /\ MaxRequests \in Nat
  /\ Ops \subseteq OpKinds /\ BodyLines = 2
BY ClientAssumption DEF ClientAssumption, Conns, BodyLines

LEMMA NoneTyped == NoJob \in Jobs /\ NoResult \in Results /\ NoJob.op = "none"
<1>1. <<>> \in Seq(LineSet)
  OBVIOUS
<1>. QED
  BY <1>1, Constants DEF NoJob, NoResult, Jobs, Results, OpNames, Phases, Verdicts

LEMMA InitInv == Init => Inv
<1>. SUFFICES ASSUME Init PROVE Inv
  OBVIOUS
<1>1. <<>> \in Seq(LineSet) /\ <<>> \in Seq(Asked)
  OBVIOUS
<1>2. Typed
  <2>1. net \in Nets
    BY <1>1, Constants DEF Init, Nets
  <2>2. "idle" \in Places
    BY DEF Places
  <2>3. /\ pc \in [Threads -> Places] /\ job \in [Threads -> Jobs]
        /\ result \in [Threads -> Results]
    BY <2>2, NoneTyped DEF Init
  <2>4. conns \in 0 .. MaxConns /\ requests \in 0 .. MaxRequests
    BY Constants DEF Init
  <2>. QED  BY <1>1, <2>1, <2>3, <2>4 DEF Init, Typed
<1>3. Alone
  BY Constants DEF Init, Alone
<1>4. Sockets
  BY Constants DEF Init, Sockets, NoJob
<1>5. AtRest /\ Progress
  BY DEF Init, AtRest, Progress, Reading
<1>6. AnsweredByOwnReply
  BY DEF Init, AnsweredByOwnReply, NoResult
<1>. QED  BY <1>2, <1>3, <1>4, <1>5, <1>6 DEF Inv

-----------------------------------------------------------------------------
(* Calls that fail *)

LEMMA CloseCurrentCloses ==
  ASSUME Inv, CloseCurrent
  PROVE  /\ sock' = NoConn /\ buf' \in Seq(LineSet) /\ net' \in Nets
         /\ \A c \in Conns : ~net'.open[c]
         /\ \A c \in Conns : net'.asked[c] = <<>> /\ net'.sent[c] = <<>>
<1>1. /\ sock \in Conns \cup {NoConn} /\ buf \in Seq(LineSet) /\ net \in Nets
      /\ <<>> \in Seq(LineSet) /\ <<>> \in Seq(Asked)
  BY DEF Inv, Typed
<1>2. CASE sock = NoConn
  BY <1>1, <1>2, Constants DEF CloseCurrent, Inv, Sockets
<1>3. CASE sock # NoConn
  <2>1. net' = Closed(sock) /\ buf' = <<>> /\ sock' = NoConn
    BY <1>3 DEF CloseCurrent
  <2>2. net' \in Nets
    BY <1>1, <1>3, <2>1 DEF Closed, Nets
  <2>3. /\ ~net'.open[sock] /\ net'.asked[sock] = <<>> /\ net'.sent[sock] = <<>>
        /\ \A c \in Conns \ {sock} : /\ net'.open[c] = net.open[c]
                                     /\ net'.asked[c] = net.asked[c]
                                     /\ net'.sent[c] = net.sent[c]
    BY <1>1, <1>3, <2>1 DEF Closed, Nets
  <2>. QED  BY <1>1, <2>1, <2>2, <2>3 DEF Inv, Sockets
<1>. QED  BY <1>2, <1>3

LEMMA FinishEnds ==
  ASSUME Inv, NEW t \in Threads, pc[t] # "idle", NEW is \in Verdicts,
         NEW got \in Seq(LineSet), Finish(t, is, got)
  PROVE  /\ result' \in [Threads -> Results] /\ job' \in [Threads -> Jobs]
         /\ pc' \in [Threads -> Places] /\ lock' \in Threads \cup {NoThread}
         /\ UNCHANGED <<clearing, conns, requests>>
         /\ Alone' /\ Reading' = {} /\ \A u \in Threads : pc'[u] = "idle" /\ job'[u] = NoJob
         /\ result'[t] = [is |-> is, op |-> job[t].op, req |-> job[t].req,
                          at |-> job[t].at, got |-> got]
         /\ \A u \in Threads \ {t} : result'[u] = result[u]
<1>1. /\ result \in [Threads -> Results] /\ job \in [Threads -> Jobs]
      /\ pc \in [Threads -> Places] /\ lock \in Threads \cup {NoThread}
  BY DEF Inv, Typed
<1>2. /\ result' = [result EXCEPT ![t] = [is |-> is, op |-> job[t].op, req |-> job[t].req,
                                          at |-> job[t].at, got |-> got]]
      /\ job' = [job EXCEPT ![t] = NoJob]
      /\ pc' = [pc EXCEPT ![t] = "idle"]
      /\ lock' = IF lock = t THEN NoThread ELSE lock
      /\ UNCHANGED <<clearing, conns, requests>>
  BY DEF Finish, Goto
<1>3. [is |-> is, op |-> job[t].op, req |-> job[t].req, at |-> job[t].at, got |-> got] \in Results
  BY <1>1 DEF Results, Jobs
<1>4. \A u \in Threads : pc'[u] = "idle" /\ job'[u] = NoJob
  BY <1>1, <1>2 DEF Inv, Alone
<1>5. Reading' = {}
  BY <1>4 DEF Reading
<1>6. lock' = NoThread
  BY <1>1, <1>2 DEF Inv, Alone
<1>7. Alone'
  BY <1>4, <1>6, Constants DEF Alone
<1>8. "idle" \in Places
  BY DEF Places
<1>. QED  BY <1>1, <1>2, <1>3, <1>4, <1>5, <1>6, <1>7, <1>8, NoneTyped

\* A call that ends without a value, and leaves no connection behind.
LEMMA FailInv ==
  ASSUME Inv, NEW t \in Threads, pc[t] # "idle", NEW is \in Verdicts \ {"value"},
         Finish(t, is, <<>>), sock' = NoConn, buf' \in Seq(LineSet), net' \in Nets,
         \A c \in Conns : ~net'.open[c] /\ net'.asked[c] = <<>> /\ net'.sent[c] = <<>>
  PROVE  Inv'
<1>0. <<>> \in Seq(LineSet)
  OBVIOUS
<1>1. /\ result' \in [Threads -> Results] /\ job' \in [Threads -> Jobs]
      /\ pc' \in [Threads -> Places] /\ lock' \in Threads \cup {NoThread}
      /\ UNCHANGED <<clearing, conns, requests>>
      /\ Alone' /\ Reading' = {} /\ \A u \in Threads : pc'[u] = "idle" /\ job'[u] = NoJob
      /\ result'[t] = [is |-> is, op |-> job[t].op, req |-> job[t].req,
                       at |-> job[t].at, got |-> <<>>]
      /\ \A u \in Threads \ {t} : result'[u] = result[u]
  <2>1. is \in Verdicts
    OBVIOUS
  <2>. QED  BY <1>0, <2>1, FinishEnds
<1>2. Typed'
  BY <1>1 DEF Inv, Typed
<1>3. Sockets'
  BY <1>1 DEF Sockets, NoJob
<1>4. AtRest' /\ Progress'
  BY <1>1 DEF AtRest, Progress
<1>5. AnsweredByOwnReply'
  BY <1>1 DEF Inv, AnsweredByOwnReply
<1>. QED  BY <1>1, <1>2, <1>3, <1>4, <1>5 DEF Inv

LEMMA FailClosedInv ==
  ASSUME Inv, NEW t \in Threads, pc[t] # "idle", NEW is \in {"connection", "timeout"},
         FailClosed(t, is)
  PROVE  Inv'
<1>1. PICK v \in {"connection", "timeout"} : CloseCurrent /\ Finish(t, v, <<>>)
  BY DEF FailClosed
<1>2. v \in Verdicts \ {"value"}
  BY DEF Verdicts
<1>. QED  BY <1>1, <1>2, CloseCurrentCloses, FailInv

LEMMA CutShortInv ==
  ASSUME Inv, NEW t \in Threads, pc[t] # "idle", NEW is \in {"protocol", "unexpected"},
         sock = NoConn, KeepConnection, Finish(t, is, <<>>)
  PROVE  Inv'
<1>1. is \in Verdicts \ {"value"}
  BY DEF Verdicts
<1>2. sock' = NoConn /\ buf' \in Seq(LineSet) /\ net' \in Nets
  BY DEF KeepConnection, Inv, Typed
<1>3. \A c \in Conns : ~net'.open[c] /\ net'.asked[c] = <<>> /\ net'.sent[c] = <<>>
  BY Constants DEF KeepConnection, Inv, Sockets
<1>. QED  BY <1>1, <1>2, <1>3, FailInv
-----------------------------------------------------------------------------
(* Connecting and disconnecting *)

LEMMA ConnectInv ==
  ASSUME Inv, NEW t \in Threads, Connect(t)
  PROVE  Inv'
<1>1. /\ \A u \in Threads : pc[u] = "idle"
      /\ sock = NoConn /\ ~clearing /\ conns < MaxConns
      /\ conns' = conns + 1 /\ sock' = conns + 1 /\ buf' = <<>>
      /\ net' = [net EXCEPT !.open[conns + 1] = TRUE]
      /\ job' = [job EXCEPT ![t] = [NoJob EXCEPT !.op = "connect", !.at = conns + 1]]
      /\ result' = [result EXCEPT ![t] = NoResult]
      /\ pc' = [pc EXCEPT ![t] = "check"]
      /\ UNCHANGED <<lock, clearing, requests>>
  BY DEF Connect, Quiet, Goto
<1>2. Typed
  BY DEF Inv
<1>3. conns + 1 \in Conns /\ conns + 1 \in 0 .. MaxConns /\ conns \in Nat
  BY <1>1, <1>2, Constants DEF Typed, Conns
<1>4. [NoJob EXCEPT !.op = "connect", !.at = conns + 1] \in Jobs
  BY <1>3, NoneTyped DEF Jobs, OpNames
<1>5. /\ net' \in Nets /\ net'.open[conns + 1] /\ net'.accepted = net.accepted
      /\ net'.asked = net.asked /\ net'.sent = net.sent
      /\ \A c \in Conns \ {conns + 1} : net'.open[c] = net.open[c]
  BY <1>1, <1>2, <1>3 DEF Typed, Nets
<1>6. Typed'
  BY <1>1, <1>2, <1>3, <1>4, <1>5, NoneTyped DEF Typed, Places
<1>7. /\ pc'[t] = "check" /\ job'[t].op = "connect" /\ job'[t].at = conns + 1
      /\ job'[t].via = NoConn /\ job'[t].got = <<>> /\ job'[t].phase = "header"
      /\ job'[t].req = 0
      /\ \A u \in Threads \ {t} : pc'[u] = "idle" /\ job'[u] = job[u]
  BY <1>1, <1>2 DEF Typed, NoJob
<1>8. Alone'
  BY <1>1, <1>2, <1>7, Constants DEF Inv, Alone, Typed
<1>9. /\ \A c \in Conns : ~net.open[c]
      /\ \A c \in Conns : net'.asked[c] = <<>> /\ net'.sent[c] = <<>>
  BY <1>1, <1>5, Constants DEF Inv, Sockets
<1>10. Sockets'
  BY <1>1, <1>3, <1>5, <1>7, <1>9, Constants DEF Inv, Alone, Sockets, NoJob
<1>11. t \in Reading'
  BY <1>7 DEF Reading
<1>12. AtRest'
  BY <1>1, <1>3, <1>7, <1>9, <1>11 DEF AtRest
<1>13. Progress'
  <2>1. Unanswered(t)'
    BY <1>1, <1>3, <1>7, <1>9 DEF Unanswered
  <2>. QED  BY <1>7, <2>1 DEF Progress, Reading
<1>14. AnsweredByOwnReply'
  BY <1>1, <1>2 DEF Inv, Typed, AnsweredByOwnReply, NoResult
<1>. QED  BY <1>6, <1>8, <1>10, <1>12, <1>13, <1>14 DEF Inv

\* disconnect() from another thread closes the socket under a call, which keeps
\* what it has read so far.
LEMMA DisconnectInv ==
  ASSUME Inv, Disconnect
  PROVE  Inv'
<1>1. /\ sock # NoConn /\ sock' = NoConn /\ net' = Closed(sock) /\ clearing' = TRUE
      /\ UNCHANGED <<buf, lock, pc, job, result, conns, requests>>
  BY DEF Disconnect
<1>2. Typed /\ <<>> \in Seq(LineSet) /\ <<>> \in Seq(Asked)
  BY DEF Inv
<1>3. sock \in Conns
  BY <1>1, <1>2 DEF Typed
<1>4. net' \in Nets
  BY <1>1, <1>2, <1>3 DEF Typed, Closed, Nets
<1>5. /\ ~net'.open[sock] /\ net'.asked[sock] = <<>> /\ net'.sent[sock] = <<>>
      /\ \A c \in Conns \ {sock} : /\ net'.open[c] = net.open[c]
                                   /\ net'.asked[c] = net.asked[c]
                                   /\ net'.sent[c] = net.sent[c]
  BY <1>1, <1>2, <1>3 DEF Typed, Closed, Nets
<1>6. Typed'
  BY <1>1, <1>2, <1>4 DEF Typed
<1>7. Alone' /\ AnsweredByOwnReply' /\ Reading' = Reading
  BY <1>1 DEF Inv, Alone, AnsweredByOwnReply, Reading
<1>8. Sockets'
  BY <1>1, <1>3, <1>5 DEF Inv, Sockets
<1>9. AtRest'
  BY <1>1 DEF AtRest
<1>10. Progress'
  <2>. SUFFICES ASSUME NEW t \in Reading
                PROVE  Unanswered(t)' \/ \E forms \in Answers(job[t].op) : Answered(t, forms)'
    BY <1>1, <1>7 DEF Progress
  <2>1. Unanswered(t) \/ \E forms \in Answers(job[t].op) : Answered(t, forms)
    BY DEF Inv, Progress
  <2>2. Unanswered(t) => Unanswered(t)'
    BY <1>1 DEF Unanswered
  <2>3. ASSUME NEW forms, Answered(t, forms) PROVE Answered(t, forms)'
    BY <1>1, <2>3 DEF Answered
  <2>. QED  BY <2>1, <2>2, <2>3
<1>. QED  BY <1>6, <1>7, <1>8, <1>9, <1>10 DEF Inv

LEMMA DisconnectClearInv ==
  ASSUME Inv, DisconnectClear
  PROVE  Inv'
<1>1. /\ sock = NoConn /\ buf' = <<>> /\ clearing' = FALSE
      /\ UNCHANGED <<sock, lock, pc, job, result, conns, requests, net>>
  BY DEF DisconnectClear, Inv, Sockets
<1>2. Typed'
  <2>1. <<>> \in Seq(LineSet)
    OBVIOUS
  <2>. QED  BY <1>1, <2>1 DEF Inv, Typed
<1>3. Alone' /\ AnsweredByOwnReply' /\ Sockets' /\ AtRest' /\ Reading' = Reading
  BY <1>1 DEF Inv, Alone, AnsweredByOwnReply, Reading, Sockets, AtRest
<1>4. Progress'
  <2>. SUFFICES ASSUME NEW t \in Reading
                PROVE  Unanswered(t)' \/ \E forms \in Answers(job[t].op) : Answered(t, forms)'
    BY <1>1, <1>3 DEF Progress
  <2>1. Unanswered(t) \/ \E forms \in Answers(job[t].op) : Answered(t, forms)
    BY DEF Inv, Progress
  <2>2. Unanswered(t) => Unanswered(t)'
    BY <1>1 DEF Unanswered
  <2>3. ASSUME NEW forms, Answered(t, forms) PROVE Answered(t, forms)'
    <3>1. Len(buf) \in Nat /\ Len(buf') = 0 /\ Len(job[t].got) \in Nat
      BY <1>1 DEF Inv, Typed, Jobs, Reading
    <3>2. Len(job[t].got) + Len(buf') <= Len(forms)
      <4>1. Len(job[t].got) + Len(buf) <= Len(forms)
        BY <2>3 DEF Answered
      <4>. QED  BY <3>1, <4>1
    <3>. QED  BY <1>1, <2>3, <3>1, <3>2 DEF Answered
  <2>. QED  BY <2>1, <2>2, <2>3
<1>. QED  BY <1>2, <1>3, <1>4 DEF Inv
-----------------------------------------------------------------------------
(* The request *)

LEMMA BeginInv ==
  ASSUME Inv, NEW t \in Threads, NEW op \in Ops, Begin(t, op)
  PROVE  Inv'
<1>1. /\ lock = NoThread /\ requests < MaxRequests /\ \A u \in Threads : ~Connecting(u)
      /\ lock' = t /\ requests' = requests + 1
      /\ job' = [job EXCEPT ![t] = [NoJob EXCEPT !.op = op, !.req = requests + 1, !.at = sock]]
      /\ result' = [result EXCEPT ![t] = NoResult]
      /\ pc' = [pc EXCEPT ![t] = "flush"]
      /\ UNCHANGED <<sock, buf, clearing, conns, net>>
  BY DEF Begin, Goto
<1>2. Typed /\ op \in OpKinds
  BY Constants DEF Inv
<1>3. \A u \in Threads : pc[u] = "idle" /\ job[u] = NoJob
  BY <1>1, Constants DEF Inv, Alone, Connecting
<1>4. requests + 1 \in 0 .. MaxRequests
  BY <1>1, <1>2, Constants DEF Typed
<1>5. [NoJob EXCEPT !.op = op, !.req = requests + 1, !.at = sock] \in Jobs
  BY <1>2, <1>4, NoneTyped DEF Jobs, OpNames, Typed
<1>6. Typed'
  BY <1>1, <1>2, <1>4, <1>5, NoneTyped DEF Typed, Places
<1>7. /\ pc'[t] = "flush" /\ job'[t].op = op /\ job'[t].at = sock
      /\ job'[t].via = NoConn /\ job'[t].got = <<>> /\ job'[t].phase = "header"
      /\ \A u \in Threads \ {t} : pc'[u] = "idle" /\ job'[u] = NoJob
  BY <1>1, <1>2, <1>3 DEF Typed, NoJob
<1>8. op # "connect"
  BY <1>2 DEF OpKinds
<1>9. Alone'
  BY <1>1, <1>2, <1>7, <1>8, Constants DEF Alone
<1>10. Sockets'
  BY <1>1, <1>7 DEF Inv, Sockets, NoJob
<1>11. Reading' = {} /\ Reading = {}
  BY <1>3, <1>7 DEF Reading
<1>12. AtRest' /\ Progress'
  BY <1>1, <1>11 DEF Inv, AtRest, Progress
<1>13. AnsweredByOwnReply'
  BY <1>1, <1>2 DEF Inv, Typed, AnsweredByOwnReply, NoResult
<1>. QED  BY <1>6, <1>9, <1>10, <1>12, <1>13 DEF Inv

\* What the answer of a call is does not change by what leaves it alone.
LEMMA StandsStill ==
  ASSUME NEW t, UNCHANGED <<sock, buf, net>>,
         job'[t].op = job[t].op, job'[t].req = job[t].req, job'[t].at = job[t].at,
         job'[t].phase = job[t].phase, job'[t].left = job[t].left, job'[t].got = job[t].got,
         Unanswered(t) \/ \E forms \in Answers(job[t].op) : Answered(t, forms)
  PROVE  Unanswered(t)' \/ \E forms \in Answers(job[t].op) : Answered(t, forms)'
<1>1. Unanswered(t) => Unanswered(t)'
  BY DEF Unanswered
<1>2. ASSUME NEW forms, Answered(t, forms) PROVE Answered(t, forms)'
  BY <1>2 DEF Answered
<1>. QED  BY <1>1, <1>2

LEMMA BusyInv ==
  ASSUME Inv, NEW t \in Threads, NEW op \in Ops, Busy(t, op)
  PROVE  Inv'
<1>1. /\ result' = [result EXCEPT ![t] = [NoResult EXCEPT !.is = "busy"]]
      /\ UNCHANGED <<sock, buf, lock, pc, job, clearing, conns, requests, net>>
  BY DEF Busy
<1>2. Typed'
  <2>1. [NoResult EXCEPT !.is = "busy"] \in Results
    BY NoneTyped DEF Results, Verdicts
  <2>. QED  BY <1>1, <2>1 DEF Inv, Typed
<1>3. AnsweredByOwnReply'
  BY <1>1 DEF Inv, Typed, AnsweredByOwnReply, NoResult
<1>4. Alone' /\ Sockets' /\ Reading' = Reading
  BY <1>1 DEF Inv, Alone, Sockets, Reading
<1>5. AtRest'
  BY <1>1, <1>4 DEF Inv, AtRest
<1>6. Progress'
  <2>. SUFFICES ASSUME NEW u \in Reading
                PROVE  /\ Unanswered(u)' \/ \E forms \in Answers(job[u].op) : Answered(u, forms)'
                       /\ pc[u] = "split" /\ sock # NoConn => Len(buf) >= Need(u)
    BY <1>1, <1>4 DEF Progress, Need
  <2>. QED  BY <1>1, StandsStill DEF Inv, Progress
<1>. QED  BY <1>2, <1>3, <1>4, <1>5, <1>6 DEF Inv

\* No other thread reads while one is in a call.
LEMMA NobodyElse ==
  ASSUME Inv, NEW t \in Threads, pc[t] # "idle"
  PROVE  \A u \in Threads \ {t} : pc[u] = "idle"
BY DEF Inv, Alone

\* What the steps of a call need that change nothing but where it is.
LEMMA PlacesKeep ==
  ASSUME Inv, NEW t \in Threads, pc[t] # "idle",
         NEW at \in Places \ {"idle", "flush", "send"}, Goto(t, at),
         UNCHANGED <<lock, job>>
  PROVE  /\ pc' \in [Threads -> Places] /\ Alone'
         /\ Reading' = {t} /\ pc'[t] = at
         /\ \A u \in Threads \ {t} : pc'[u] = "idle"
<1>1. pc' = [pc EXCEPT ![t] = at] /\ pc \in [Threads -> Places]
  BY DEF Goto, Inv, Typed
<1>2. pc'[t] = at /\ \A u \in Threads \ {t} : pc'[u] = pc[u] /\ pc[u] = "idle"
  BY <1>1, NobodyElse
<1>3. Reading' = {t}
  BY <1>2 DEF Reading, Places
<1>4. Alone'
  BY <1>2 DEF Inv, Alone
<1>. QED  BY <1>1, <1>2, <1>3, <1>4

LEMMA FlushInv ==
  ASSUME Inv, NEW t \in Threads, Flush(t)
  PROVE  Inv'
<1>1. /\ pc[t] = "flush" /\ buf' = <<>> /\ pc' = [pc EXCEPT ![t] = "send"]
      /\ UNCHANGED <<sock, lock, job, result, clearing, conns, requests>>
  BY DEF Flush, Goto
<1>2. Typed /\ \A u \in Threads \ {t} : pc[u] = "idle"
  BY <1>1, NobodyElse DEF Inv
<1>3. Reading = {}
  BY <1>1, <1>2 DEF Reading
<1>4. net' = net
  <2>1. CASE sock = NoConn
    BY <2>1 DEF Flush
  <2>2. CASE sock # NoConn
    <3>1. PICK n \in 0 .. Len(net.sent[sock]) :
            net' = [net EXCEPT !.sent[sock] = SubSeq(@, n + 1, Len(@))]
      BY <2>2 DEF Flush
    <3>2. net.sent[sock] = <<>>
      BY <1>3, <2>2 DEF Inv, AtRest
    <3>3. SubSeq(<<>>, n + 1, Len(<<>>)) = <<>>
      BY <3>2
    <3>4. net \in Nets /\ sock \in Conns
      BY <1>2, <2>2 DEF Typed
    <3>. QED  BY <3>1, <3>2, <3>3, <3>4 DEF Nets
  <2>. QED  BY <2>1, <2>2
<1>5. Typed'
  <2>1. <<>> \in Seq(LineSet)
    OBVIOUS
  <2>. QED  BY <1>1, <1>2, <1>4, <2>1 DEF Typed, Places
<1>6. pc'[t] = "send" /\ \A u \in Threads \ {t} : pc'[u] = "idle"
  BY <1>1, <1>2 DEF Typed
<1>7. Alone'
  BY <1>1, <1>6 DEF Inv, Alone
<1>8. Sockets'
  BY <1>1, <1>4, <1>6 DEF Inv, Sockets
<1>9. Reading' = {}
  BY <1>6 DEF Reading
<1>10. AtRest' /\ Progress'
  BY <1>1, <1>3, <1>4, <1>9 DEF Inv, AtRest, Progress
<1>11. AnsweredByOwnReply'
  BY <1>1 DEF Inv, AnsweredByOwnReply
<1>. QED  BY <1>5, <1>7, <1>8, <1>10, <1>11 DEF Inv

LEMMA SendInv ==
  ASSUME Inv, NEW t \in Threads, Send(t)
  PROVE  Inv'
<1>. DEFINE request == [op |-> job[t].op, req |-> job[t].req]
<1>1. /\ pc[t] = "send" /\ sock # NoConn
      /\ net' = [net EXCEPT !.asked[sock] = Append(@, request)]
      /\ Goto(t, "check")
      /\ UNCHANGED <<sock, buf, lock, job, result, clearing, conns, requests>>
  BY DEF Send
<1>2. Typed /\ sock \in Conns /\ \A u \in Threads \ {t} : pc[u] = "idle"
  BY <1>1, NobodyElse DEF Inv, Typed
<1>3. buf = <<>> /\ net.sent[sock] = <<>> /\ net.asked[sock] = <<>> /\ net.accepted >= sock
  <2>1. Reading = {}
    BY <1>1, <1>2 DEF Reading
  <2>2. ~(net.accepted < sock)
    BY <1>1, <2>1 DEF Inv, AtRest
  <2>3. net.accepted \in Nat /\ sock \in Nat
    BY <1>2, Constants DEF Typed, Nets, Conns
  <2>. QED  BY <1>1, <2>1, <2>2, <2>3 DEF Inv, AtRest
<1>4. request \in Asked /\ job[t].op # "connect" /\ job[t].got = <<>> /\ job[t].phase = "header"
  BY <1>1, <1>2 DEF Inv, Alone, Typed, Jobs, Asked
<1>. HIDE DEF request
<1>5. Append(<<>>, request) = <<request>> /\ <<request>> \in Seq(Asked)
  BY <1>4
<1>6. /\ net' \in Nets /\ net'.open = net.open /\ net'.sent = net.sent
      /\ net'.accepted = net.accepted /\ net'.asked[sock] = <<request>>
      /\ \A c \in Conns \ {sock} : net'.asked[c] = net.asked[c]
  <2>1. net' = [net EXCEPT !.asked[sock] = <<request>>]
    BY <1>1, <1>3, <1>5
  <2>2. net \in Nets
    BY <1>2 DEF Typed
  <2>. QED  BY <1>2, <1>5, <2>1, <2>2 DEF Nets
<1>7. /\ pc' \in [Threads -> Places] /\ Alone' /\ Reading' = {t} /\ pc'[t] = "check"
      /\ \A u \in Threads \ {t} : pc'[u] = "idle"
  BY <1>1, PlacesKeep DEF Places
<1>8. Typed'
  BY <1>1, <1>2, <1>6, <1>7 DEF Typed
<1>9. Sockets'
  BY <1>1, <1>2, <1>6, <1>7 DEF Inv, Sockets
<1>10. AtRest'
  BY <1>1, <1>2, <1>3, <1>6, <1>7, Constants DEF AtRest, Typed, Conns, Nets
<1>11. Progress'
  <2>1. Unanswered(t)'
    BY <1>1, <1>3, <1>4, <1>6 DEF Unanswered, request
  <2>. QED  BY <1>7, <2>1 DEF Progress
<1>12. AnsweredByOwnReply'
  BY <1>1 DEF Inv, AnsweredByOwnReply
<1>. QED  BY <1>7, <1>8, <1>9, <1>10, <1>11, <1>12 DEF Inv

LEMMA SendFailsInv ==
  ASSUME Inv, NEW t \in Threads, SendFails(t)
  PROVE  Inv'
BY FailClosedInv DEF SendFails
-----------------------------------------------------------------------------
(* Reading *)

LEMMA CheckInv ==
  ASSUME Inv, NEW t \in Threads, Check(t)
  PROVE  Inv'
<1>1. CASE sock = NoConn
  BY <1>1, FailClosedInv DEF Check
<1>2. CASE sock # NoConn
  <2>1. /\ pc[t] = "check" /\ Goto(t, "bind")
        /\ UNCHANGED <<sock, buf, lock, job, result, clearing, conns, requests, net>>
    BY <1>2 DEF Check
  <2>2. /\ pc' \in [Threads -> Places] /\ Alone' /\ Reading' = {t} /\ pc'[t] = "bind"
        /\ \A u \in Threads \ {t} : pc'[u] = "idle"
    BY <2>1, PlacesKeep DEF Places
  <2>3. Reading = {t}
    BY <2>1, NobodyElse DEF Reading
  <2>4. Typed' /\ AnsweredByOwnReply'
    BY <2>1, <2>2 DEF Inv, Typed, AnsweredByOwnReply
  <2>5. Sockets'
    BY <2>1, <2>2 DEF Inv, Sockets
  <2>6. AtRest'
    BY <2>1, <2>2, <2>3 DEF Inv, AtRest
  <2>7. Progress'
    <3>1. Unanswered(t)' \/ \E forms \in Answers(job[t].op) : Answered(t, forms)'
      BY <2>1, <2>3, StandsStill DEF Inv, Progress
    <3>. QED  BY <2>1, <2>2, <3>1 DEF Progress
  <2>. QED  BY <2>2, <2>4, <2>5, <2>6, <2>7 DEF Inv
<1>. QED  BY <1>1, <1>2

LEMMA BindInv ==
  ASSUME Inv, NEW t \in Threads, Bind(t)
  PROVE  Inv'
<1>1. CASE sock = NoConn
  BY <1>1, CutShortInv DEF Bind
<1>2. CASE sock # NoConn
  <2>1. /\ pc[t] = "bind" /\ job' = [job EXCEPT ![t].via = sock] /\ pc' = [pc EXCEPT ![t] = "recv"]
        /\ UNCHANGED <<sock, buf, lock, result, clearing, conns, requests, net>>
    BY <1>2 DEF Bind, Goto
  <2>2. Typed /\ \A u \in Threads \ {t} : pc[u] = "idle"
    BY <2>1, NobodyElse DEF Inv
  <2>3. /\ pc'[t] = "recv" /\ job'[t] = [job[t] EXCEPT !.via = sock] /\ job[t] \in Jobs
        /\ \A u \in Threads \ {t} : pc'[u] = "idle" /\ job'[u] = job[u]
    BY <2>1, <2>2 DEF Typed
  <2>4. /\ job'[t] \in Jobs /\ job'[t].via = sock
        /\ job'[t].op = job[t].op /\ job'[t].req = job[t].req /\ job'[t].at = job[t].at
        /\ job'[t].phase = job[t].phase /\ job'[t].left = job[t].left /\ job'[t].got = job[t].got
    BY <2>2, <2>3 DEF Jobs, Typed
  <2>5. Typed'
    <3>1. job' \in [Threads -> Jobs] /\ pc' \in [Threads -> Places]
      BY <2>1, <2>2, <2>3, <2>4 DEF Typed, Places
    <3>. QED  BY <2>1, <2>2, <3>1 DEF Typed
  <2>6. Alone'
    BY <2>1, <2>2, <2>3, <2>4 DEF Inv, Alone
  <2>7. Sockets'
    BY <1>2, <2>1, <2>2, <2>3, <2>4 DEF Inv, Sockets
  <2>8. Reading = {t} /\ Reading' = {t}
    BY <2>1, <2>2, <2>3 DEF Reading
  <2>9. AtRest'
    BY <2>1, <2>4, <2>8 DEF Inv, AtRest
  <2>10. Progress'
    <3>1. Unanswered(t)' \/ \E forms \in Answers(job[t].op) : Answered(t, forms)'
      BY <2>1, <2>4, <2>8, StandsStill DEF Inv, Progress
    <3>. QED  BY <2>3, <2>4, <2>8, <3>1 DEF Progress
  <2>11. AnsweredByOwnReply'
    BY <2>1 DEF Inv, AnsweredByOwnReply
  <2>. QED  BY <2>5, <2>6, <2>7, <2>9, <2>10, <2>11 DEF Inv
<1>. QED  BY <1>1, <1>2

LEMMA RecvEnoughInv ==
  ASSUME Inv, NEW t \in Threads, RecvEnough(t)
  PROVE  Inv'
<1>1. /\ pc[t] = "recv" /\ Len(buf) >= Need(t) /\ Goto(t, "split")
      /\ UNCHANGED <<sock, buf, lock, job, result, clearing, conns, requests, net>>
  BY DEF RecvEnough
<1>2. /\ pc' \in [Threads -> Places] /\ Alone' /\ Reading' = {t} /\ pc'[t] = "split"
      /\ \A u \in Threads \ {t} : pc'[u] = "idle"
  BY <1>1, PlacesKeep DEF Places
<1>3. Reading = {t}
  BY <1>1, NobodyElse DEF Reading
<1>4. Typed' /\ AnsweredByOwnReply'
  BY <1>1, <1>2 DEF Inv, Typed, AnsweredByOwnReply
<1>5. Sockets'
  BY <1>1, <1>2 DEF Inv, Sockets
<1>6. AtRest'
  BY <1>1, <1>2, <1>3 DEF Inv, AtRest
<1>7. Progress'
  <2>1. Unanswered(t)' \/ \E forms \in Answers(job[t].op) : Answered(t, forms)'
    BY <1>1, <1>3, StandsStill DEF Inv, Progress
  <2>. QED  BY <1>1, <1>2, <2>1 DEF Progress, Need
<1>. QED  BY <1>2, <1>4, <1>5, <1>6, <1>7 DEF Inv

LEMMA RecvFailsInv ==
  ASSUME Inv, NEW t \in Threads, RecvClosed(t) \/ RecvTimeout(t)
  PROVE  Inv'
BY FailClosedInv DEF RecvClosed, RecvTimeout

LEMMA SplitClearedInv ==
  ASSUME Inv, NEW t \in Threads, SplitCleared(t)
  PROVE  Inv'
<1>1. pc[t] = "split" /\ Len(buf) < Need(t) /\ KeepConnection
  BY DEF SplitCleared
<1>2. t \in Reading
  BY <1>1 DEF Reading
<1>3. sock = NoConn
  <2>1. Len(buf) \in Nat /\ Need(t) \in Nat
    BY DEF Inv, Typed, Jobs, Need
  <2>. QED  BY <1>1, <1>2, <2>1 DEF Inv, Progress
<1>4. PICK is \in {"protocol", "unexpected"} : Finish(t, is, <<>>)
  BY DEF SplitCleared
<1>. QED  BY <1>1, <1>3, <1>4, CutShortInv

LEMMA RecvInv ==
  ASSUME Inv, NEW t \in Threads, Recv(t)
  PROVE  Inv'
<1>. DEFINE c == job[t].via
            came == net.sent[c]
<1>1. PICK n \in 1 .. Len(came) :
        /\ buf' = buf \o SubSeq(came, 1, n)
        /\ net' = [net EXCEPT !.sent[c] = SubSeq(@, n + 1, Len(@))]
  BY DEF Recv
<1>2. /\ pc[t] = "recv" /\ net.open[c]
      /\ UNCHANGED <<sock, lock, pc, job, result, clearing, conns, requests>>
  BY DEF Recv
<1>3. Typed /\ Reading = {t}
  BY <1>2, NobodyElse DEF Inv, Reading
<1>4. c = sock /\ sock \in Conns /\ sock # NoConn /\ job[t].at = sock
  BY <1>2, <1>3, Constants DEF Inv, Sockets, Typed, Jobs
<1>5. came \in Seq(LineSet) /\ buf \in Seq(LineSet) /\ net \in Nets
  BY <1>3, <1>4 DEF Typed, Nets
<1>6. /\ net' \in Nets /\ net'.open = net.open /\ net'.asked = net.asked
      /\ net'.accepted = net.accepted /\ net'.sent[sock] = SubSeq(came, n + 1, Len(came))
      /\ \A d \in Conns \ {sock} : net'.sent[d] = net.sent[d]
  <2>1. SubSeq(came, n + 1, Len(came)) \in Seq(LineSet)
    BY <1>5
  <2>2. net' = [net EXCEPT !.sent[sock] = SubSeq(came, n + 1, Len(came))]
    BY <1>1, <1>4
  <2>. HIDE DEF came
  <2>. QED  BY <1>4, <1>5, <2>1, <2>2 DEF Nets
<1>. HIDE DEF c, came
<1>7. /\ buf' \in Seq(LineSet) /\ Len(buf') = Len(buf) + n
      /\ \A i \in 1 .. Len(buf') : buf'[i] = IF i <= Len(buf) THEN buf[i] ELSE came[i - Len(buf)]
  BY <1>1, <1>5
<1>8. /\ Len(net'.sent[sock]) = Len(came) - n
      /\ \A i \in 1 .. Len(net'.sent[sock]) : net'.sent[sock][i] = came[n + i]
  <2>. DEFINE rest == SubSeq(came, n + 1, Len(came))
  <2>1. Len(rest) = Len(came) - n /\ \A i \in 1 .. Len(rest) : rest[i] = came[n + i]
    BY <1>5
  <2>2. net'.sent[sock] = rest
    BY <1>6
  <2>. HIDE DEF rest
  <2>. QED  BY <2>1, <2>2
<1>9. came = net.sent[sock] /\ came # <<>> /\ Len(came) \in Nat /\ Len(buf) \in Nat
  BY <1>1, <1>4, <1>5 DEF came
<1>10. Typed' /\ Alone' /\ AnsweredByOwnReply' /\ Reading' = {t}
  BY <1>2, <1>3, <1>6, <1>7 DEF Inv, Typed, Alone, AnsweredByOwnReply, Reading
<1>11. Sockets'
  BY <1>2, <1>4, <1>6 DEF Inv, Sockets
<1>12. AtRest'
  BY <1>2, <1>4, <1>6, <1>9, <1>10 DEF Inv, AtRest
<1>13. PICK forms \in Answers(job[t].op) : Answered(t, forms)
  BY <1>3, <1>4, <1>9 DEF Inv, Progress, Unanswered
<1>14. Answered(t, forms)'
  <2>. DEFINE LineAt(i) == Line(job[t].at, job[t].req, forms[i])
              read == Len(job[t].got)
  <2>1. /\ read + Len(buf) + Len(came) = Len(forms) /\ net.asked[sock] = <<>>
        /\ \A i \in 1 .. read : job[t].got[i] = LineAt(i)
        /\ \A i \in 1 .. Len(buf) : buf[i] = LineAt(read + i)
        /\ \A i \in 1 .. Len(came) : came[i] = LineAt(read + Len(buf) + i)
        /\ read \in Nat
    <3>1. read \in Nat
      BY <1>3 DEF Typed, Jobs
    <3>2. /\ read + Len(buf) + Len(came) = Len(forms) /\ net.asked[sock] = <<>>
          /\ \A i \in 1 .. Len(came) : came[i] = LineAt(read + Len(buf) + i)
      BY <1>4, <1>9, <1>13 DEF Answered
    <3>3. /\ \A i \in 1 .. read : job[t].got[i] = LineAt(i)
          /\ \A i \in 1 .. Len(buf) : buf[i] = LineAt(read + i)
      BY <1>13 DEF Answered
    <3>. QED  BY <3>1, <3>2, <3>3
  <2>. HIDE DEF LineAt, read
  <2>2. \A i \in 1 .. Len(buf') : buf'[i] = LineAt(read + i)
    <3>. TAKE i \in 1 .. Len(buf')
    <3>1. CASE i <= Len(buf)
      BY <1>7, <1>9, <2>1, <3>1
    <3>2. CASE i > Len(buf)
      <4>1. i - Len(buf) \in 1 .. Len(came)
        BY <1>7, <1>9, <3>2
      <4>2. read + Len(buf) + (i - Len(buf)) = read + i
        BY <1>9, <2>1
      <4>3. buf'[i] = came[i - Len(buf)]
        BY <1>7, <1>9, <3>2
      <4>. QED  BY <2>1, <4>1, <4>2, <4>3
    <3>. QED  BY <1>9, <3>1, <3>2
  <2>3. /\ read + Len(buf') + Len(net'.sent[sock]) = Len(forms)
        /\ read + Len(buf') <= Len(forms)
    <3>1. Len(net'.sent[sock]) = Len(came) - n /\ Len(buf') = Len(buf) + n
      BY <1>7, <1>8
    <3>2. \A r, b, m \in Nat : \A k \in 1 .. m :
            /\ r + (b + k) + (m - k) = r + b + m
            /\ r + (b + k) <= r + b + m
      OBVIOUS
    <3>3. n \in 1 .. Len(came) /\ read \in Nat /\ Len(buf) \in Nat /\ Len(came) \in Nat
      BY <1>9, <2>1
    <3>4. /\ read + (Len(buf) + n) + (Len(came) - n) = read + Len(buf) + Len(came)
          /\ read + (Len(buf) + n) <= read + Len(buf) + Len(came)
      BY <3>2, <3>3
    <3>5. read + Len(buf) + Len(came) = Len(forms)
      BY <2>1
    <3>. QED  BY <3>1, <3>4, <3>5
  <2>4. \A i \in 1 .. Len(net'.sent[sock]) : net'.sent[sock][i] = LineAt(read + Len(buf') + i)
    <3>. TAKE i \in 1 .. Len(net'.sent[sock])
    <3>1. n + i \in 1 .. Len(came) /\ read + Len(buf) + (n + i) = read + Len(buf') + i
      BY <1>7, <1>8, <1>9, <2>1
    <3>. QED  BY <1>8, <2>1, <3>1
  <2>. QED  BY <1>2, <1>6, <1>13, <2>1, <2>2, <2>3, <2>4 DEF Answered, LineAt, read
<1>15. Progress'
  BY <1>2, <1>10, <1>13, <1>14 DEF Progress
<1>. QED  BY <1>10, <1>11, <1>12, <1>15 DEF Inv

-----------------------------------------------------------------------------
(* The end of a call *)

FormNames == {"welcome", "ok", "err", "lines", "data", "rows", "body", "end", "bad"}

\* An answer is one line, or a header and two lines; its header says which.
LEMMA HeaderKinds ==
  /\ AfterHeader("connect", "welcome") = "value"
  /\ \A op \in OpKinds : AfterHeader(op, "err") = "command"
  /\ AfterHeader("command", "ok") = "value" /\ AfterHeader("status", "ok") = "until"
  /\ \A op \in {"command", "status"} : AfterHeader(op, "lines") = "lines"
  /\ \A op \in {"command", "measure"} : /\ AfterHeader(op, "data") = "exact"
                                       /\ AfterHeader(op, "rows") = "lines"
BY DEF AfterHeader, OpKinds

LEMMA FormSeqs ==
  /\ \A f \in FormNames : <<f>> \in Seq(FormNames) /\ Len(<<f>>) = 1 /\ <<f>>[1] = f
  /\ \A f, g, h \in FormNames :
       /\ <<f, g, h>> \in Seq(FormNames) /\ Len(<<f, g, h>>) = 3
       /\ <<f, g, h>>[1] = f /\ <<f, g, h>>[2] = g /\ <<f, g, h>>[3] = h
OBVIOUS

LEMMA AnswerShapes ==
  ASSUME NotGarbled, NEW op \in OpKinds \cup {"connect"}, NEW forms \in Answers(op)
  PROVE  /\ forms \in Seq(FormNames)
         /\ \/ Len(forms) = 1 /\ AfterHeader(op, forms[1]) \in {"value", "command"}
            \/ /\ Len(forms) = 3 /\ AfterHeader(op, forms[1]) \in {"lines", "exact"}
               /\ forms[2] = "body" /\ forms[3] = "body" /\ op # "connect"
            \/ /\ Len(forms) = 3 /\ AfterHeader(op, forms[1]) = "until"
               /\ forms[2] = "body" /\ forms[3] = "end" /\ op # "connect"
<1>0. {"welcome", "ok", "err", "lines", "data", "rows", "body", "end"} \subseteq FormNames
  BY DEF FormNames
<1>1. CASE op = "connect"
  <2>1. forms = <<"welcome">>
    BY <1>1 DEF Answers
  <2>2. "welcome" \in FormNames
    BY DEF FormNames
  <2>. QED  BY <1>1, <2>1, <2>2, HeaderKinds, FormSeqs
<1>2. CASE op = "command"
  <2>1. forms \in {<<"err">>, <<"ok">>, <<"lines", "body", "body">>, <<"data", "body", "body">>, <<"rows", "body", "body">>}
    BY <1>2 DEF Answers, Replies, NotGarbled
  <2>2. CASE forms = <<"err">>
    BY <1>2, <2>2, <1>0, HeaderKinds, FormSeqs DEF OpKinds
  <2>3. CASE forms = <<"ok">>
    BY <1>2, <2>3, <1>0, HeaderKinds, FormSeqs DEF OpKinds
  <2>4. CASE forms = <<"lines", "body", "body">>
    BY <1>2, <2>4, <1>0, HeaderKinds, FormSeqs DEF OpKinds
  <2>5. CASE forms = <<"data", "body", "body">>
    BY <1>2, <2>5, <1>0, HeaderKinds, FormSeqs DEF OpKinds
  <2>6. CASE forms = <<"rows", "body", "body">>
    BY <1>2, <2>6, <1>0, HeaderKinds, FormSeqs DEF OpKinds
  <2>. QED  BY <2>1, <2>2, <2>3, <2>4, <2>5, <2>6
<1>3. CASE op = "status"
  <2>1. forms \in {<<"err">>, <<"lines", "body", "body">>, <<"ok", "body", "end">>}
    BY <1>3 DEF Answers, Replies, NotGarbled
  <2>2. CASE forms = <<"err">>
    BY <1>3, <2>2, <1>0, HeaderKinds, FormSeqs DEF OpKinds
  <2>3. CASE forms = <<"lines", "body", "body">>
    BY <1>3, <2>3, <1>0, HeaderKinds, FormSeqs DEF OpKinds
  <2>4. CASE forms = <<"ok", "body", "end">>
    BY <1>3, <2>4, <1>0, HeaderKinds, FormSeqs DEF OpKinds
  <2>. QED  BY <2>1, <2>2, <2>3, <2>4
<1>4. CASE op = "measure"
  <2>1. forms \in {<<"err">>, <<"data", "body", "body">>, <<"rows", "body", "body">>}
    BY <1>4 DEF Answers, Replies, NotGarbled
  <2>2. CASE forms = <<"err">>
    BY <1>4, <2>2, <1>0, HeaderKinds, FormSeqs DEF OpKinds
  <2>3. CASE forms = <<"data", "body", "body">>
    BY <1>4, <2>3, <1>0, HeaderKinds, FormSeqs DEF OpKinds
  <2>4. CASE forms = <<"rows", "body", "body">>
    BY <1>4, <2>4, <1>0, HeaderKinds, FormSeqs DEF OpKinds
  <2>. QED  BY <2>1, <2>2, <2>3, <2>4
<1>. QED  BY <1>1, <1>2, <1>3, <1>4 DEF OpKinds

LEMMA Joined ==
  ASSUME NEW S, NEW a \in Seq(S), NEW b \in Seq(S)
  PROVE  /\ a \o b \in Seq(S) /\ Len(a \o b) = Len(a) + Len(b)
         /\ \A i \in 1 .. Len(a) + Len(b) :
              (a \o b)[i] = IF i <= Len(a) THEN a[i] ELSE b[i - Len(a)]
OBVIOUS

\* The call takes the next lines of its answer: up to its end, or as many as
\* leave what Answered says.
LEMMA TakenShape ==
  ASSUME NotGarbled, Inv, NEW t \in Reading, Len(buf) >= Need(t),
         NEW forms \in Answers(job[t].op), Answered(t, forms),
         NEW read, read = Len(job[t].got), NEW n, n = Need(t), NEW k, k = Taken(t, n)
  PROVE  /\ n \in 1 .. Len(buf) /\ read \in Nat
         /\ k.got \in Seq(LineSet) /\ Len(k.got) = read + n
         /\ \A i \in 1 .. read + n : k.got[i] = Line(job[t].at, job[t].req, forms[i])
         /\ \/ k.to \in Ends /\ read + n = Len(forms)
            \/ /\ k.to \in {"lines", "exact", "until"} /\ k.to \notin Ends
               /\ k.to = AfterHeader(job[t].op, forms[1])
               /\ k.left \in 1 .. BodyLines /\ read + n = 1 + BodyLines - k.left
               /\ k.to = "exact" => k.left = BodyLines
<1>. DEFINE line(i) == Line(job[t].at, job[t].req, forms[i])
            head == SubSeq(buf, 1, n)
            op == job[t].op
            ph == job[t].phase
            left == job[t].left
<1>1. /\ t \in Threads /\ pc[t] # "idle" /\ job[t] \in Jobs /\ buf \in Seq(LineSet)
      /\ op \in OpKinds \cup {"connect"}
  BY DEF Reading, Inv, Typed, Alone
<1>2. /\ read \in Nat /\ job[t].got \in Seq(LineSet) /\ left \in 0 .. 2 /\ BodyLines = 2
      /\ Len(buf) \in Nat
  BY <1>1, Constants DEF Jobs
<1>3. /\ read + Len(buf) <= Len(forms)
      /\ \A i \in 1 .. read : job[t].got[i] = line(i)
      /\ \A i \in 1 .. Len(buf) : buf[i] = line(read + i)
  BY DEF Answered
<1>4. \/ ph = "header" /\ read = 0
      \/ /\ ph = AfterHeader(op, forms[1])
         /\ left \in 1 .. 2 /\ read = 3 - left
         /\ ph = "exact" => left = 2
  BY <1>2 DEF Answered
<1>5. /\ forms \in Seq(FormNames)
      /\ \/ Len(forms) = 1 /\ AfterHeader(op, forms[1]) \in {"value", "command"}
         \/ /\ Len(forms) = 3 /\ AfterHeader(op, forms[1]) \in {"lines", "exact"}
            /\ forms[2] = "body" /\ forms[3] = "body"
         \/ /\ Len(forms) = 3 /\ AfterHeader(op, forms[1]) = "until"
            /\ forms[2] = "body" /\ forms[3] = "end"
  <2>1. op \in OpKinds \cup {"connect"} /\ forms \in Answers(op)
    BY <1>1
  <2>. HIDE DEF op
  <2>. QED  BY <2>1, AnswerShapes
<1>6. ph \in Phases
  BY <1>1 DEF Jobs
<1>7. n = IF ph = "exact" THEN left ELSE 1
  BY DEF Need
<1>8. n \in 1 .. Len(buf)
  <2>1. n \in Nat /\ n >= 1
    BY <1>2, <1>4, <1>7
  <2>. QED  BY <1>2, <2>1
<1>9. /\ head \in Seq(LineSet) /\ Len(head) = n
      /\ \A i \in 1 .. n : head[i] = line(read + i)
  BY <1>1, <1>3, <1>8
<1>10. k.got = job[t].got \o head
  BY DEF Taken
<1>11. /\ k.left = IF ph = "header" THEN 2 ELSE left - n
       /\ k.to = IF ph = "header" THEN AfterHeader(op, head[1].form)
                 ELSE IF \E i \in 1 .. n : head[i].form = "bad" THEN "protocol"
                 ELSE IF ph = "until"
                      THEN IF head[1].form = "err" THEN "command"
                           ELSE IF head[1].form = "end" THEN "value" ELSE "until"
                 ELSE IF left - n = 0 THEN Whole(t, k.got) ELSE ph
  BY <1>2 DEF Taken
<1>. HIDE DEF head, op, ph, left
<1>12. /\ k.got \in Seq(LineSet) /\ Len(k.got) = read + n
       /\ \A i \in 1 .. read + n :
            k.got[i] = IF i <= read THEN job[t].got[i] ELSE head[i - read]
  <2>. DEFINE a == job[t].got
  <2>1. a \in Seq(LineSet) /\ head \in Seq(LineSet) /\ Len(a) = read /\ Len(head) = n /\ k.got = a \o head
    BY <1>2, <1>9, <1>10
  <2>2. /\ a \o head \in Seq(LineSet) /\ Len(a \o head) = Len(a) + Len(head)
        /\ \A i \in 1 .. Len(a) + Len(head) :
              (a \o head)[i] = IF i <= Len(a) THEN a[i] ELSE head[i - Len(a)]
    <3>. HIDE DEF a
    <3>. QED  BY <2>1, Joined
  <2>. QED  BY <2>1, <2>2
<1>13. \A i \in 1 .. read + n : k.got[i] = line(i)
  <2>. TAKE i \in 1 .. read + n
  <2>1. CASE i <= read
    BY <1>2, <1>3, <1>8, <1>12, <2>1
  <2>2. CASE i > read
    <3>1. i - read \in 1 .. n /\ read + (i - read) = i
      BY <1>2, <1>8, <2>2
    <3>2. k.got[i] = head[i - read]
      BY <1>2, <1>8, <1>12, <2>2
    <3>. QED  BY <1>9, <3>1, <3>2
  <2>. QED  BY <1>2, <1>8, <2>1, <2>2
<1>14. \A i \in 1 .. n : head[i].form = forms[read + i]
  BY <1>9 DEF Line
<1>15. Whole(t, k.got) \in Ends
  BY DEF Whole, Ends
<1>16. \/ k.to \in Ends /\ read + n = Len(forms)
       \/ /\ k.to \in {"lines", "exact", "until"} /\ k.to = AfterHeader(op, forms[1])
          /\ k.left \in 1 .. 2 /\ read + n = 3 - k.left
          /\ k.to = "exact" => k.left = 2
  <2>1. CASE ph = "header"
    <3>1. read = 0 /\ n = 1 /\ k.left = 2 /\ head[1].form = forms[1]
      <4>1. read = 0
        <5>. SUFFICES ASSUME ph = AfterHeader(op, forms[1]) PROVE FALSE
          BY <1>4
        <5>. QED  BY <1>5, <2>1
      <4>. QED  BY <1>7, <1>11, <1>14, <2>1, <4>1
    <3>. QED  BY <1>5, <1>11, <2>1, <3>1 DEF Ends
  <2>2. CASE ph \in {"lines", "exact"}
    <3>1. left \in 1 .. 2 /\ read = 3 - left /\ ph = AfterHeader(op, forms[1])
      BY <1>4, <2>2
    <3>2. Len(forms) = 3 /\ forms[2] = "body" /\ forms[3] = "body"
      BY <1>5, <2>2, <3>1
    <3>3. ~ \E i \in 1 .. n : head[i].form = "bad"
      <4>1. \A i \in 1 .. n : read + i \in 2 .. 3
        BY <1>4, <1>7, <2>2, <3>1
      <4>. QED  BY <1>14, <3>2, <4>1
    <3>4. /\ k.left = left - n
          /\ k.to = IF left - n = 0 THEN Whole(t, k.got) ELSE ph
      BY <1>11, <2>2, <3>3
    <3>. QED  BY <1>4, <1>7, <1>15, <2>2, <3>1, <3>2, <3>4
  <2>3. CASE ph = "until"
    <3>1. left \in 1 .. 2 /\ read = 3 - left /\ n = 1 /\ k.left = left - 1
      BY <1>4, <1>7, <1>11, <2>3
    <3>2. Len(forms) = 3 /\ forms[2] = "body" /\ forms[3] = "end" /\ AfterHeader(op, forms[1]) = "until"
      BY <1>4, <1>5, <2>3
    <3>3. head[1].form = forms[read + 1] /\ read + 1 \in 2 .. 3
      BY <1>14, <3>1
    <3>4. /\ head[1].form \in {"body", "end"}
          /\ k.to = IF head[1].form = "end" THEN "value" ELSE "until"
      BY <1>11, <2>3, <3>1, <3>2, <3>3
    <3>. QED  BY <3>1, <3>2, <3>3, <3>4 DEF Ends
  <2>. QED  BY <1>6, <2>1, <2>2, <2>3 DEF Phases
<1>17. "lines" \notin Ends /\ "exact" \notin Ends /\ "until" \notin Ends
  BY DEF Ends
<1>18. \/ k.to \in Ends /\ read + n = Len(forms)
       \/ /\ k.to \in {"lines", "exact", "until"} /\ k.to \notin Ends
          /\ k.to = AfterHeader(job[t].op, forms[1])
          /\ k.left \in 1 .. BodyLines /\ read + n = 1 + BodyLines - k.left
          /\ k.to = "exact" => k.left = BodyLines
  BY <1>16, <1>17 DEF op, BodyLines
<1>. QED  BY <1>2, <1>8, <1>12, <1>13, <1>18

\* A value that is the answer line by line is the answer.
LEMMA OwnReply ==
  ASSUME NotGarbled, NEW t, job[t].op \in OpKinds \cup {"connect"},
         NEW forms \in Answers(job[t].op),
         NEW got \in Seq(LineSet), Len(got) = Len(forms),
         \A i \in 1 .. Len(got) : got[i] = Line(job[t].at, job[t].req, forms[i])
  PROVE  /\ \A i \in DOMAIN got : got[i].req = job[t].req /\ got[i].on = job[t].at
         /\ IF job[t].op = "connect" THEN Forms(got) = <<"welcome">>
            ELSE Forms(got) \in Replies(job[t].op)
<1>1. forms \in Seq(FormNames)
  BY AnswerShapes
<1>2. DOMAIN got = 1 .. Len(got) /\ DOMAIN forms = 1 .. Len(got)
  BY <1>1
<1>3. Forms(got) = forms
  <2>1. \A i \in 1 .. Len(got) : got[i].form = forms[i]
    <3>. TAKE i \in 1 .. Len(got)
    <3>1. got[i] = [on |-> job[t].at, req |-> job[t].req, form |-> forms[i]]
      BY DEF Line
    <3>. QED  BY <3>1
  <2>2. Forms(got) = [i \in 1 .. Len(got) |-> got[i].form]
    BY <1>2 DEF Forms
  <2>3. forms = [i \in 1 .. Len(got) |-> forms[i]]
    BY <1>1, <1>2
  <2>. QED  BY <2>1, <2>2, <2>3
<1>4. \A i \in DOMAIN got : got[i].req = job[t].req /\ got[i].on = job[t].at
  BY <1>2 DEF Line
<1>. QED  BY <1>3, <1>4 DEF Answers

LEMMA SplitInv ==
  ASSUME NotGarbled, Inv, NEW t \in Threads, Split(t)
  PROVE  Inv'
<1>. DEFINE n == Need(t)
            k == Taken(t, n)
            read == Len(job[t].got)
            rest == SubSeq(buf, n + 1, Len(buf))
<1>1. /\ pc[t] = "split" /\ Len(buf) >= n
      /\ IF k.to \in Ends
         THEN IF job[t].op = "connect" /\ k.to # "value"
              THEN CloseCurrent /\ Finish(t, "connection", <<>>)
              ELSE /\ buf' = rest
                   /\ UNCHANGED <<sock, net>>
                   /\ Finish(t, k.to, IF k.to = "protocol" THEN <<>> ELSE k.got)
         ELSE /\ buf' = rest
              /\ job' = [job EXCEPT ![t].got = k.got, ![t].left = k.left, ![t].phase = k.to]
              /\ Goto(t, "check")
              /\ UNCHANGED <<sock, lock, result, clearing, conns, requests, net>>
  BY DEF Split
<1>2. Typed /\ Reading = {t} /\ t \in Reading /\ pc[t] # "idle"
  BY <1>1, NobodyElse DEF Inv, Reading
<1>3. buf # <<>>
  <2>1. n \in Nat /\ n >= 1
    <3>1. Unanswered(t) \/ \E forms \in Answers(job[t].op) : Answered(t, forms)
      BY <1>2 DEF Inv, Progress
    <3>2. job[t].phase # "exact" \/ job[t].left = 2
      BY <3>1, Constants DEF Unanswered, Answered
    <3>. QED  BY <3>2 DEF Need
  <2>. QED  BY <1>1, <2>1
<1>4. PICK forms \in Answers(job[t].op) : Answered(t, forms)
  BY <1>2, <1>3 DEF Inv, Progress, Unanswered
<1>5. /\ n \in 1 .. Len(buf) /\ read \in Nat
      /\ k.got \in Seq(LineSet) /\ Len(k.got) = read + n
      /\ \A i \in 1 .. read + n : k.got[i] = Line(job[t].at, job[t].req, forms[i])
      /\ \/ k.to \in Ends /\ read + n = Len(forms)
         \/ /\ k.to \in {"lines", "exact", "until"} /\ k.to \notin Ends
            /\ k.to = AfterHeader(job[t].op, forms[1])
            /\ k.left \in 1 .. BodyLines /\ read + n = 1 + BodyLines - k.left
            /\ k.to = "exact" => k.left = BodyLines
  BY <1>1, <1>2, <1>4, TakenShape
<1>6. buf \in Seq(LineSet) /\ Len(buf) \in Nat /\ job[t] \in Jobs /\ <<>> \in Seq(LineSet)
  BY <1>2 DEF Typed
<1>7. /\ rest \in Seq(LineSet) /\ Len(rest) = Len(buf) - n
      /\ \A i \in 1 .. Len(rest) : rest[i] = buf[n + i]
  BY <1>5, <1>6
<1>8. sock # NoConn => net.accepted >= sock
  <2>1. sock # NoConn => ~(net.accepted < sock)
    BY <1>3 DEF Inv, AtRest
  <2>2. sock # NoConn => net.accepted \in Nat /\ sock \in Nat
    BY <1>2, Constants DEF Typed, Nets, Conns
  <2>. QED  BY <2>1, <2>2
<1>9. job[t].op \in OpKinds \cup {"connect"}
  BY <1>2 DEF Inv, Alone
<1>10. forms \in Seq(FormNames)
  BY <1>9, AnswerShapes
<1>11. /\ read + Len(buf) <= Len(forms)
       /\ \A i \in 1 .. Len(buf) : buf[i] = Line(job[t].at, job[t].req, forms[read + i])
       /\ sock # NoConn =>
          /\ net.asked[sock] = <<>>
          /\ read + Len(buf) + Len(net.sent[sock]) = Len(forms)
          /\ \A i \in 1 .. Len(net.sent[sock]) :
               net.sent[sock][i] = Line(job[t].at, job[t].req, forms[read + Len(buf) + i])
  BY <1>4 DEF Answered
<1>12. sock # NoConn => net.sent[sock] \in Seq(LineSet)
  BY <1>2 DEF Typed, Nets
<1>. HIDE DEF n, k, read, rest
<1>13. CASE k.to \in Ends /\ job[t].op = "connect" /\ k.to # "value"
  <2>1. CloseCurrent /\ Finish(t, "connection", <<>>)
    BY <1>1, <1>13
  <2>2. "connection" \in Verdicts \ {"value"}
    BY DEF Verdicts
  <2>. QED  BY <1>2, <2>1, <2>2, CloseCurrentCloses, FailInv
<1>14. CASE k.to \in Ends /\ ~(job[t].op = "connect" /\ k.to # "value")
  <2>. DEFINE got == IF k.to = "protocol" THEN <<>> ELSE k.got
  <2>1. buf' = rest /\ UNCHANGED <<sock, net>> /\ Finish(t, k.to, got)
    BY <1>1, <1>14
  <2>2. k.to \in Verdicts /\ got \in Seq(LineSet)
    BY <1>5, <1>6, <1>14 DEF Ends, Verdicts
  <2>. HIDE DEF got
  <2>3. /\ result' \in [Threads -> Results] /\ job' \in [Threads -> Jobs]
        /\ pc' \in [Threads -> Places] /\ lock' \in Threads \cup {NoThread}
        /\ UNCHANGED <<clearing, conns, requests>>
        /\ Alone' /\ Reading' = {} /\ \A u \in Threads : pc'[u] = "idle" /\ job'[u] = NoJob
        /\ result'[t] = [is |-> k.to, op |-> job[t].op, req |-> job[t].req,
                         at |-> job[t].at, got |-> got]
        /\ \A u \in Threads \ {t} : result'[u] = result[u]
    BY <1>2, <2>1, <2>2, FinishEnds
  <2>4. Typed'
    BY <1>2, <1>7, <2>1, <2>3 DEF Typed
  <2>5. Sockets'
    BY <2>1, <2>3 DEF Inv, Sockets, NoJob
  <2>6. read + n = Len(forms)
    BY <1>5, <1>14
  <2>7. Len(rest) = 0 /\ (sock # NoConn => Len(net.sent[sock]) = 0)
    <3>2. Len(buf) = n
      BY <1>5, <1>6, <1>11, <2>6
    <3>3. ASSUME sock # NoConn PROVE Len(net.sent[sock]) = 0
      <4>1. read + n + Len(net.sent[sock]) = read + n
        BY <1>11, <2>6, <3>2, <3>3
      <4>2. Len(net.sent[sock]) \in Nat /\ read + n \in Nat
        BY <1>5, <1>6, <1>12, <3>3
      <4>. QED  BY <4>1, <4>2
    <3>. QED  BY <1>5, <1>6, <1>7, <3>2, <3>3
  <2>8. rest = <<>> /\ (sock # NoConn => net.sent[sock] = <<>> /\ net.asked[sock] = <<>>)
    BY <1>7, <1>11, <1>12, <2>7
  <2>9. AtRest'
    <3>. SUFFICES ASSUME sock # NoConn
                  PROVE  /\ buf' = <<>> /\ net'.sent[sock] = <<>> /\ net'.asked[sock] = <<>>
                         /\ ~(net'.accepted < sock)
      BY <2>1 DEF AtRest
    <3>1. net.accepted \in Nat /\ sock \in Nat
      BY <1>2, Constants DEF Typed, Nets, Conns
    <3>. QED  BY <1>8, <2>1, <2>8, <3>1
  <2>10. Progress'
    BY <2>3 DEF Progress
  <2>11. AnsweredByOwnReply'
    <3>1. CASE k.to = "value"
      <4>1. got = k.got
        BY <3>1 DEF got
      <4>2. Len(got) = Len(forms) /\ \A i \in 1 .. Len(got) : got[i] = Line(job[t].at, job[t].req, forms[i])
        BY <1>5, <2>6, <4>1
      <4>3. /\ \A i \in DOMAIN got : got[i].req = job[t].req /\ got[i].on = job[t].at
            /\ IF job[t].op = "connect" THEN Forms(got) = <<"welcome">>
               ELSE Forms(got) \in Replies(job[t].op)
        BY <1>9, <2>2, <4>2, OwnReply
      <4>. QED  BY <2>3, <4>3 DEF Inv, AnsweredByOwnReply
    <3>2. CASE k.to # "value"
      BY <2>3, <3>2 DEF Inv, AnsweredByOwnReply
    <3>. QED  BY <3>1, <3>2
  <2>. QED  BY <2>3, <2>4, <2>5, <2>9, <2>10, <2>11 DEF Inv
<1>15. CASE k.to \notin Ends
  <2>1. /\ buf' = rest
        /\ job' = [job EXCEPT ![t].got = k.got, ![t].left = k.left, ![t].phase = k.to]
        /\ pc' = [pc EXCEPT ![t] = "check"]
        /\ UNCHANGED <<sock, lock, result, clearing, conns, requests, net>>
    BY <1>1, <1>15 DEF Goto
  <2>2. /\ k.to \in {"lines", "exact", "until"} /\ k.to = AfterHeader(job[t].op, forms[1])
        /\ k.left \in 1 .. BodyLines /\ read + n = 1 + BodyLines - k.left
        /\ k.to = "exact" => k.left = BodyLines
    BY <1>5, <1>15
  <2>3. /\ pc'[t] = "check" /\ \A u \in Threads \ {t} : pc'[u] = pc[u] /\ job'[u] = job[u]
        /\ job'[t] = [job[t] EXCEPT !.got = k.got, !.left = k.left, !.phase = k.to]
    BY <1>2, <2>1 DEF Typed
  <2>4. /\ job'[t] \in Jobs
        /\ job'[t].op = job[t].op /\ job'[t].req = job[t].req /\ job'[t].at = job[t].at
        /\ job'[t].via = job[t].via /\ job'[t].phase = k.to /\ job'[t].left = k.left
        /\ job'[t].got = k.got
    <3>1. k.got \in Seq(LineSet) /\ k.left \in 0 .. BodyLines /\ k.to \in Phases
      BY <1>5, <2>2, Constants DEF Phases
    <3>. QED  BY <1>6, <2>3, <3>1 DEF Jobs
  <2>5. /\ \A u \in Threads \ {t} : pc'[u] = "idle" /\ pc[u] = "idle"
        /\ Reading' = {t}
    BY <1>2, <2>3, NobodyElse DEF Reading
  <2>6. job' \in [Threads -> Jobs] /\ pc' \in [Threads -> Places]
    BY <1>2, <2>1, <2>3, <2>4 DEF Typed, Places
  <2>7. Typed' /\ AnsweredByOwnReply'
    BY <1>2, <1>7, <2>1, <2>6 DEF Inv, Typed, AnsweredByOwnReply
  <2>8. Alone'
    <3>1. pc'[t] = "check" /\ \A u \in Threads \ {t} : job'[u] = job[u]
      BY <2>3
    <3>2. /\ pc[t] = "split" /\ job'[t].op = job[t].op /\ lock' = lock
          /\ \A u \in Threads \ {t} : pc'[u] = "idle" /\ pc[u] = "idle"
      BY <1>1, <2>1, <2>4, <2>5
    <3>3. Alone
      BY DEF Inv
    <3>. QED  BY <3>1, <3>2, <3>3 DEF Alone
  <2>9. Sockets'
    <3>1. pc'[t] = "check" /\ \A u \in Threads \ {t} : job'[u] = job[u]
      BY <2>3
    <3>2. /\ pc[t] = "split" /\ job'[t].at = job[t].at /\ job'[t].via = job[t].via
          /\ \A u \in Threads \ {t} : pc'[u] = "idle" /\ pc[u] = "idle"
          /\ UNCHANGED <<sock, clearing, conns, net>>
      BY <1>1, <2>1, <2>4, <2>5
    <3>3. Sockets
      BY DEF Inv
    <3>. QED  BY <3>1, <3>2, <3>3 DEF Sockets
  <2>10. AtRest'
    <3>1. sock # NoConn => net.accepted \in Nat /\ sock \in Nat
      BY <1>2, Constants DEF Typed, Nets, Conns
    <3>. QED  BY <1>8, <2>1, <2>5, <3>1 DEF AtRest
  <2>11. Answered(t, forms)'
    <3>. DEFINE line(i) == Line(job[t].at, job[t].req, forms[i])
    <3>1. Len(k.got) + Len(rest) = read + Len(buf)
      BY <1>5, <1>6, <1>7
    <3>2. \A i \in 1 .. Len(k.got) : k.got[i] = line(i)
      BY <1>5
    <3>3. \A i \in 1 .. Len(rest) : rest[i] = line(Len(k.got) + i)
      <4>. TAKE i \in 1 .. Len(rest)
      <4>1. n + i \in 1 .. Len(buf) /\ read + (n + i) = Len(k.got) + i
        BY <1>5, <1>6, <1>7
      <4>. QED  BY <1>7, <1>11, <4>1
    <3>. HIDE DEF line
    <3>4. Len(k.got) = 1 + BodyLines - k.left
      BY <1>5, <2>2
    <3>5. Len(k.got) + Len(rest) <= Len(forms)
      BY <1>11, <3>1
    <3>6. sock # NoConn =>
            /\ net.asked[sock] = <<>>
            /\ Len(k.got) + Len(rest) + Len(net.sent[sock]) = Len(forms)
            /\ \A i \in 1 .. Len(net.sent[sock]) :
                 net.sent[sock][i] = line(Len(k.got) + Len(rest) + i)
      BY <1>11, <3>1 DEF line
    <3>. QED  BY <2>1, <2>2, <2>4, <3>2, <3>3, <3>4, <3>5, <3>6 DEF Answered, line
  <2>12. Progress'
    <3>1. pc'[t] = "check" /\ job'[t].op = job[t].op
      BY <2>3, <2>4
    <3>. QED  BY <2>5, <2>11, <3>1 DEF Progress
  <2>. QED  BY <2>7, <2>8, <2>9, <2>10, <2>12 DEF Inv
<1>. QED  BY <1>13, <1>14, <1>15

-----------------------------------------------------------------------------
(* The server *)

\* The server's steps leave everything but the network alone.
LEMMA ServerKeeps ==
  ASSUME Inv, UNCHANGED client, net' \in Nets, net'.open = net.open,
         \A c \in Conns : ~net.open[c] => net'.asked[c] = <<>> /\ net'.sent[c] = <<>>
  PROVE  Typed' /\ Alone' /\ Sockets' /\ AnsweredByOwnReply' /\ Reading' = Reading
<1>1. UNCHANGED <<sock, buf, lock, pc, job, result, clearing, conns, requests>>
  BY DEF client
<1>2. Typed' /\ Alone' /\ AnsweredByOwnReply' /\ Reading' = Reading
  BY <1>1 DEF Inv, Typed, Alone, AnsweredByOwnReply, Reading
<1>3. Sockets'
  BY <1>1 DEF Inv, Sockets
<1>. QED  BY <1>2, <1>3

\* Progress of the thread that reads, the only one.
LEMMA ServerProgress ==
  ASSUME Inv, UNCHANGED client,
         \A t \in Reading : Unanswered(t)' \/ \E forms \in Answers(job[t].op) : Answered(t, forms)'
  PROVE  Progress'
<1>1. UNCHANGED <<sock, buf, lock, pc, job, result, clearing, conns, requests>>
  BY DEF client
<1>2. Reading' = Reading
  BY <1>1 DEF Reading
<1>. QED  BY <1>1, <1>2 DEF Inv, Progress, Need

\* What is on the socket alone decides where a call stands.
LEMMA SameSocket ==
  ASSUME Inv, UNCHANGED client,
         sock # NoConn => net'.asked[sock] = net.asked[sock] /\ net'.sent[sock] = net.sent[sock]
  PROVE  Progress'
<1>1. UNCHANGED <<sock, buf, lock, pc, job, result, clearing, conns, requests>>
  BY DEF client
<1>2. \A t : Unanswered(t) => Unanswered(t)'
  BY <1>1 DEF Unanswered
<1>3. \A t, forms : Answered(t, forms) => Answered(t, forms)'
  <2>. TAKE t, forms
  <2>. QED  BY <1>1 DEF Answered
<1>. QED  BY <1>2, <1>3, ServerProgress DEF Inv, Progress

LEMMA AcceptInv ==
  ASSUME Inv, Accept
  PROVE  Inv'
<1>. DEFINE c == net.accepted + 1
            line == Line(c, 0, "welcome")
<1>1. /\ c <= conns /\ UNCHANGED client
      /\ net' = [net EXCEPT !.accepted = c, !.serving = c,
                            !.sent[c] = IF net.open[c] THEN <<line>> ELSE @]
  BY DEF Accept
<1>2. /\ UNCHANGED <<sock, buf, lock, pc, job, result, clearing, conns, requests>>
      /\ Typed /\ net \in Nets
  BY <1>1 DEF client, Inv, Typed
<1>3. c \in Conns /\ c \in 0 .. MaxConns /\ net.accepted \in Nat
  BY <1>1, <1>2, Constants DEF Typed, Nets, Conns
<1>4. <<line>> \in Seq(LineSet) /\ Len(<<line>>) = 1 /\ <<line>>[1] = line
  <2>1. line \in LineSet
    BY <1>3, Constants DEF Line, LineSet
  <2>. QED  BY <2>1
<1>. HIDE DEF c, line
<1>5. /\ net' \in Nets /\ net'.open = net.open /\ net'.asked = net.asked /\ net'.accepted = c
      /\ net'.sent[c] = IF net.open[c] THEN <<line>> ELSE net.sent[c]
      /\ \A d \in Conns \ {c} : net'.sent[d] = net.sent[d]
  <2>1. net.sent \in [Conns -> Seq(LineSet)]
    BY <1>2 DEF Nets
  <2>2. (IF net.open[c] THEN <<line>> ELSE net.sent[c]) \in Seq(LineSet)
    BY <1>3, <1>4, <2>1
  <2>. QED  BY <1>1, <1>2, <1>3, <2>1, <2>2 DEF Nets
<1>6. Typed' /\ Alone' /\ Sockets' /\ AnsweredByOwnReply' /\ Reading' = Reading
  <2>1. \A d \in Conns : ~net.open[d] => net'.asked[d] = <<>> /\ net'.sent[d] = <<>>
    BY <1>5 DEF Inv, Sockets
  <2>. QED  BY <1>1, <1>5, <2>1, ServerKeeps
<1>7. CASE sock = NoConn \/ sock # c
  <2>1. sock # NoConn => sock \in Conns
    BY <1>2 DEF Typed
  <2>2. Progress'
    BY <1>1, <1>5, <1>7, <2>1, SameSocket
  <2>3. AtRest'
    <3>1. ASSUME sock # NoConn, c < sock PROVE net.accepted < sock
      BY <1>3, <2>1, <3>1, Constants DEF c, Conns
    <3>. QED  BY <1>2, <1>5, <1>6, <1>7, <2>1, <3>1 DEF Inv, AtRest
  <2>. QED  BY <1>6, <2>2, <2>3 DEF Inv
<1>8. CASE sock # NoConn /\ sock = c
  <2>1. net.accepted < sock /\ net.open[c]
    BY <1>3, <1>8 DEF c, Inv, Sockets
  <2>2. PICK t \in Reading : job[t].op = "connect" /\ job[t].req = 0 /\ job[t].got = <<>> /\ buf = <<>>
    BY <1>8, <2>1 DEF Inv, AtRest
  <2>3. net.asked[sock] = <<>> /\ net'.sent[sock] = <<line>>
    BY <1>5, <1>8, <2>1 DEF Inv, AtRest
  <2>4. job[t].at = sock /\ t \in Threads /\ pc[t] # "idle"
    BY <1>8, <2>2 DEF Inv, Sockets, Reading
  <2>5. AtRest'
    <3>1. ~(c < sock) /\ Reading # {}
      BY <1>3, <1>8, <2>2 DEF c
    <3>. QED  BY <1>2, <1>5, <1>6, <3>1 DEF AtRest
  <2>6. job[t].phase = "header"
    <3>1. ASSUME NEW forms, Answered(t, forms), job[t].phase # "header" PROVE FALSE
      <4>1. job[t].left \in 1 .. 2 /\ Len(job[t].got) = 3 - job[t].left
        BY <3>1, Constants DEF Answered
      <4>2. Len(job[t].got) = 0
        BY <2>2
      <4>. QED  BY <4>1, <4>2
    <3>. QED  BY <2>2, <3>1 DEF Inv, Progress, Unanswered
  <2>7. Answered(t, <<"welcome">>)'
    <3>1. /\ Len(<<"welcome">>) = 1 /\ <<"welcome">>[1] = "welcome"
          /\ Len(job[t].got) = 0 /\ Len(buf) = 0
      BY <2>2
    <3>2. \A i \in 1 .. 1 : <<line>>[i] = Line(job[t].at, job[t].req, <<"welcome">>[0 + 0 + i])
      BY <1>4, <1>8, <2>2, <2>4, <3>1 DEF line
    <3>. QED  BY <1>2, <1>4, <1>5, <2>3, <2>6, <3>1, <3>2 DEF Answered
  <2>8. Progress'
    <3>1. \A u \in Reading : u = t
      BY <2>4, NobodyElse DEF Reading
    <3>2. <<"welcome">> \in Answers(job[t].op)
      BY <2>2 DEF Answers
    <3>. QED  BY <1>1, <2>7, <3>1, <3>2, ServerProgress
  <2>. QED  BY <1>6, <2>5, <2>8 DEF Inv
<1>. QED  BY <1>7, <1>8

LEMMA AnswerInv ==
  ASSUME NotGarbled, Inv, Answer
  PROVE  Inv'
<1>. DEFINE c == net.serving
            request == Head(net.asked[c])
<1>1. /\ c # NoConn /\ net.asked[c] # <<>> /\ UNCHANGED client
      /\ \E forms \in Replies(request.op) :
           net' = [net EXCEPT !.asked[c] = Tail(@),
                              !.sent[c] = @ \o Lines(c, request.req, forms)]
  BY DEF Answer
<1>2. /\ UNCHANGED <<sock, buf, lock, pc, job, result, clearing, conns, requests>>
      /\ Typed /\ net \in Nets
  BY <1>1 DEF client, Inv, Typed
<1>3. c \in Conns /\ c = sock /\ sock # NoConn
  <2>1. c \in Conns
    BY <1>1, <1>2 DEF Nets
  <2>. QED  BY <1>1, <2>1 DEF Inv, Sockets
<1>4. /\ Reading # {} /\ ~(net.accepted < sock)
  BY <1>1, <1>3 DEF Inv, AtRest
<1>5. PICK t \in Reading : TRUE
  BY <1>4
<1>6. t \in Threads /\ pc[t] # "idle" /\ \A u \in Reading : u = t
  BY <1>5, NobodyElse DEF Reading
<1>7. Unanswered(t)
  BY <1>1, <1>3, <1>5 DEF Inv, Progress, Answered
<1>8. /\ buf = <<>> /\ job[t].got = <<>> /\ job[t].phase = "header" /\ net.sent[sock] = <<>>
      /\ job[t].op # "connect" /\ net.asked[sock] = <<[op |-> job[t].op, req |-> job[t].req]>>
  BY <1>1, <1>3, <1>7 DEF Unanswered
<1>9. /\ Head(net.asked[sock]) = [op |-> job[t].op, req |-> job[t].req]
      /\ Tail(net.asked[sock]) = <<>>
  BY <1>8
<1>10. PICK forms \in Replies(job[t].op) :
         net' = [net EXCEPT !.asked[sock] = Tail(@),
                            !.sent[sock] = @ \o Lines(sock, job[t].req, forms)]
  <2>1. request.op = job[t].op /\ request.req = job[t].req
    BY <1>3, <1>9
  <2>. HIDE DEF request
  <2>. QED  BY <1>1, <1>3, <2>1
<1>. HIDE DEF c, request
<1>11. job[t] \in Jobs /\ job[t].op \in OpKinds /\ job[t].at = sock
  BY <1>2, <1>3, <1>6, <1>8 DEF Typed, Inv, Alone, Sockets
<1>12. forms \in Answers(job[t].op) /\ forms \in Seq(FormNames)
  <2>1. forms \in Answers(job[t].op)
    BY <1>8 DEF Answers
  <2>. QED  BY <1>11, <2>1, AnswerShapes
<1>. DEFINE lines == Lines(sock, job[t].req, forms)
<1>13. /\ lines \in Seq(LineSet) /\ Len(lines) = Len(forms)
       /\ \A i \in 1 .. Len(lines) : lines[i] = Line(sock, job[t].req, forms[i])
  <2>1. lines = [i \in 1 .. Len(forms) |-> Line(sock, job[t].req, forms[i])] /\ Len(forms) \in Nat
    BY <1>12 DEF Lines
  <2>2. \A i \in 1 .. Len(forms) : Line(sock, job[t].req, forms[i]) \in LineSet
    <3>. TAKE i \in 1 .. Len(forms)
    <3>1. forms[i] \in FormNames /\ job[t].req \in 0 .. MaxRequests
      BY <1>11, <1>12 DEF Jobs
    <3>. QED  BY <1>3, <3>1 DEF Line, LineSet, FormNames
  <2>. HIDE DEF lines
  <2>. QED  BY <2>1, <2>2
<1>14. /\ net' \in Nets /\ net'.open = net.open /\ net'.accepted = net.accepted
       /\ net'.asked[sock] = <<>> /\ net'.sent[sock] = lines
       /\ \A d \in Conns \ {sock} : net'.asked[d] = net.asked[d] /\ net'.sent[d] = net.sent[d]
  <2>1. <<>> \o lines = lines /\ <<>> \in Seq(Asked)
    BY <1>13
  <2>2. net' = [net EXCEPT !.asked[sock] = <<>>, !.sent[sock] = lines]
    BY <1>8, <1>9, <1>10, <2>1
  <2>. HIDE DEF lines
  <2>. QED  BY <1>2, <1>3, <1>13, <2>1, <2>2 DEF Nets
<1>. HIDE DEF lines
<1>15. Typed' /\ Alone' /\ Sockets' /\ AnsweredByOwnReply' /\ Reading' = Reading
  <2>1. \A d \in Conns : ~net.open[d] => net'.asked[d] = <<>> /\ net'.sent[d] = <<>>
    BY <1>3, <1>14 DEF Inv, Sockets
  <2>. QED  BY <1>1, <1>14, <2>1, ServerKeeps
<1>16. AtRest'
  BY <1>2, <1>4, <1>14, <1>15 DEF AtRest
<1>17. Answered(t, forms)'
  <2>1. Len(job[t].got) = 0 /\ Len(buf) = 0
    BY <1>8
  <2>2. Len(forms) \in Nat /\ 0 + 0 + Len(forms) = Len(forms) /\ 0 + 0 <= Len(forms)
    BY <1>12
  <2>3. \A i \in 1 .. Len(lines) : lines[i] = Line(job[t].at, job[t].req, forms[0 + 0 + i])
    BY <1>11, <1>13
  <2>. QED  BY <1>2, <1>8, <1>13, <1>14, <2>1, <2>2, <2>3 DEF Answered
<1>18. Progress'
  BY <1>1, <1>6, <1>12, <1>17, ServerProgress
<1>. QED  BY <1>15, <1>16, <1>18 DEF Inv

LEMMA LeaveInv ==
  ASSUME Inv, Leave
  PROVE  Inv'
<1>1. /\ net.serving # NoConn /\ UNCHANGED client
      /\ net' = [net EXCEPT !.serving = NoConn, !.eof[net.serving] = TRUE,
                            !.asked[net.serving] = <<>>]
  BY DEF Leave
<1>2. /\ UNCHANGED <<sock, buf, lock, pc, job, result, clearing, conns, requests>>
      /\ Typed /\ net \in Nets /\ <<>> \in Seq(Asked)
  BY <1>1 DEF client, Inv, Typed
<1>3. net.serving \in Conns
  BY <1>1, <1>2 DEF Nets
<1>4. /\ net' \in Nets /\ net'.open = net.open /\ net'.accepted = net.accepted
      /\ net'.sent = net.sent
      /\ \A d \in Conns : net'.asked[d] = net.asked[d] \/ net'.asked[d] = <<>>
  BY <1>1, <1>2, <1>3 DEF Nets
<1>5. Typed' /\ Alone' /\ Sockets' /\ AnsweredByOwnReply' /\ Reading' = Reading
  <2>1. \A d \in Conns : ~net.open[d] => net'.asked[d] = <<>> /\ net'.sent[d] = <<>>
    BY <1>4 DEF Inv, Sockets
  <2>. QED  BY <1>1, <1>4, <2>1, ServerKeeps
<1>6. sock # NoConn => sock \in Conns
  BY <1>2 DEF Typed
<1>7. AtRest'
  BY <1>2, <1>4, <1>5, <1>6 DEF Inv, AtRest
<1>8. Progress'
  <2>1. \A t : Unanswered(t) => Unanswered(t)'
    BY <1>2, <1>4, <1>6 DEF Unanswered
  <2>2. \A t, forms : Answered(t, forms) => Answered(t, forms)'
    <3>. TAKE t, forms
    <3>. QED  BY <1>2, <1>4, <1>6 DEF Answered
  <2>. QED  BY <1>1, <2>1, <2>2, ServerProgress DEF Inv, Progress
<1>. QED  BY <1>5, <1>7, <1>8 DEF Inv

-----------------------------------------------------------------------------
(* The theorems *)

LEMMA StepInv ==
  ASSUME NotGarbled, Inv, [Next]_vars
  PROVE  Inv'
<1>1. CASE UNCHANGED vars
  <2>1. UNCHANGED client /\ net' = net
    BY <1>1 DEF vars
  <2>2. Typed' /\ Alone' /\ Sockets' /\ AnsweredByOwnReply' /\ AtRest'
    BY <2>1 DEF client, Inv, Typed, Alone, Sockets, AnsweredByOwnReply, AtRest, Reading
  <2>3. Progress'
    BY <2>1, SameSocket
  <2>. QED  BY <2>2, <2>3 DEF Inv
<1>2. ASSUME NEW t \in Threads, Connect(t) PROVE Inv'
  BY <1>2, ConnectInv
<1>3. ASSUME NEW t \in Threads, Calls(t) PROVE Inv'
  <2>1. CASE Flush(t) \/ Send(t) \/ SendFails(t)
    BY <2>1, FlushInv, SendInv, SendFailsInv
  <2>2. CASE Reads(t)
    BY <2>2, CheckInv, BindInv, RecvEnoughInv, SplitInv, SplitClearedInv, RecvInv,
       RecvFailsInv DEF Reads
  <2>. QED  BY <1>3, <2>1, <2>2 DEF Calls
<1>4. ASSUME NEW t \in Threads, NEW op \in Ops, Begin(t, op) \/ Busy(t, op) PROVE Inv'
  BY <1>4, BeginInv, BusyInv
<1>5. CASE Disconnect \/ DisconnectClear
  BY <1>5, DisconnectInv, DisconnectClearInv
<1>6. CASE Accept \/ Answer \/ Leave
  BY <1>6, AcceptInv, AnswerInv, LeaveInv
<1>. QED  BY <1>1, <1>2, <1>3, <1>4, <1>5, <1>6 DEF Next

\* The variables keep their types, and the socket in use is the last made and
\* open, whatever another thread's disconnect() comes between.
THEOREM TypeCorrect == NotGarbled => (Spec => []TypeOK)
<1>. SUFFICES ASSUME NotGarbled PROVE Spec => []TypeOK
  OBVIOUS
<1>1. Inv /\ [Next]_vars => Inv'
  BY StepInv
<1>2. Inv => TypeOK
  <2>. SUFFICES ASSUME Inv PROVE TypeOK
    OBVIOUS
  <2>1. sock \in 1 .. conns \cup {NoConn} /\ (sock # NoConn => net.open[sock])
    BY Constants DEF Inv, Typed, Sockets, Conns
  <2>2. \A t \in Threads : job[t].via \in Conns \cup {NoConn} /\ job[t].got \in Seq(LineSet)
    BY DEF Inv, Typed, Jobs
  <2>. QED  BY <2>1, <2>2 DEF Inv, Typed, TypeOK, Places
<1>. QED  BY <1>1, <1>2, InitInv, PTL DEF Spec

\* A call that returns a value returns the reply to its own request, all of it
\* and on the connection it was made on, for any number of threads, requests
\* and connections: under the lock, after closing on every failed read, and
\* whatever disconnect() takes away in between.
THEOREM ValuesAreOwnReplies == NotGarbled => (Spec => []AnsweredByOwnReply)
<1>. SUFFICES ASSUME NotGarbled PROVE Spec => []AnsweredByOwnReply
  OBVIOUS
<1>1. Inv /\ [Next]_vars => Inv'
  BY StepInv
<1>2. Inv => AnsweredByOwnReply
  BY DEF Inv
<1>. QED  BY <1>1, <1>2, InitInv, PTL DEF Spec

-----------------------------------------------------------------------------
(* The promise of ClientSession *)

\* The state of a session: the call and the outcome of each thread.
Standing == [t \in Threads |-> IF lock = t THEN [req |-> job[t].req, on |-> job[t].at]
                               ELSE [req |-> 0, on |-> NoConn]]
Outcomes == [t \in Threads |->
               IF result[t].is = "value"
               THEN [is |-> "value", req |-> Head(result[t].got).req,
                     on |-> Head(result[t].got).on]
               ELSE [is |-> result[t].is, req |-> result[t].req, on |-> result[t].at]]

\* A call has a number, and connect() none and the last connection made.
Marks ==
  \A t \in Threads :
    /\ lock = t => job[t].req > 0
    /\ Connecting(t) => job[t].req = 0 /\ job[t].at = conns /\ conns > 0

\* The calls a step leaves alone.
SameCalls ==
  /\ lock' = lock /\ conns' = conns
  /\ \A t \in Threads : /\ job'[t].req = job[t].req /\ job'[t].at = job[t].at
                        /\ job'[t].op = job[t].op
                        /\ (pc'[t] = "idle") = (pc[t] = "idle")

LEMMA SameCallsMarks == Marks /\ SameCalls => Marks'
BY DEF Marks, SameCalls, Connecting

LEMMA SameCallsMap ==
  ASSUME SameCalls, UNCHANGED <<sock, result>>
  PROVE  UNCHANGED Session!session
<1>1. Standing' = Standing
  BY DEF SameCalls, Standing
<1>2. Outcomes' = Outcomes
  BY DEF Outcomes
<1>. QED  BY <1>1, <1>2 DEF SameCalls, Standing, Outcomes, Session!session

\* The end of a call is an Answer, a failure or a time-out, that of a connect()
\* the welcome or its absence.
LEMMA EndMaps ==
  ASSUME Inv, Marks, NEW t \in Threads, pc[t] # "idle",
         NEW is \in Verdicts \ {"none", "busy"}, NEW got \in Seq(LineSet), Finish(t, is, got),
         sock' \in {sock, NoConn},
         is = "timeout" => sock' = NoConn,
         is = "value" => /\ got # <<>> /\ sock' = sock /\ job[t].at # NoConn
                         /\ Head(got).req = job[t].req /\ Head(got).on = job[t].at,
         job[t].op = "connect" => is \in {"value", "connection", "unexpected"}
  PROVE  Session!Next /\ Marks'
<1>1. /\ UNCHANGED <<clearing, conns, requests>>
      /\ Alone' /\ \A u \in Threads : pc'[u] = "idle" /\ job'[u] = NoJob
      /\ result'[t] = [is |-> is, op |-> job[t].op, req |-> job[t].req,
                       at |-> job[t].at, got |-> got]
      /\ \A u \in Threads \ {t} : result'[u] = result[u]
  BY FinishEnds
<1>2. Marks'
  BY <1>1 DEF Marks, Alone, Connecting
<1>3. \A u \in Threads : lock' # u /\ (u # t => lock # u)
  BY <1>1, NobodyElse DEF Inv, Alone
<1>4. Standing' = [Standing EXCEPT ![t] = Session!NoCall]
  BY <1>3 DEF Standing, Session!NoCall
<1>5. Outcomes' = [Outcomes EXCEPT ![t] = [is |-> is, req |-> job[t].req, on |-> job[t].at]]
  <2>1. /\ result'[t].is = is /\ result'[t].req = job[t].req /\ result'[t].at = job[t].at
        /\ result'[t].got = got
    BY <1>1
  <2>2. Outcomes'[t] = [is |-> is, req |-> job[t].req, on |-> job[t].at]
    BY <2>1 DEF Outcomes
  <2>3. \A u \in Threads \ {t} : Outcomes'[u] = Outcomes[u]
    BY <1>1 DEF Outcomes
  <2>4. /\ Outcomes = [u \in Threads |-> Outcomes[u]]
        /\ Outcomes' = [u \in Threads |-> Outcomes'[u]]
    BY DEF Outcomes
  <2>. QED  BY <2>2, <2>3, <2>4
<1>6. CASE lock = t
  <2>1. Standing[t] = [req |-> job[t].req, on |-> job[t].at]
    BY <1>6 DEF Standing
  <2>2. Standing[t] # Session!NoCall
    BY <1>6, <2>1 DEF Marks, Session!NoCall
  <2>3. Session!Ended(t)
    BY <1>4 DEF Standing, Session!Ended
  <2>4. Outcomes' = [Outcomes EXCEPT ![t] = [is |-> is, req |-> Standing[t].req, on |-> Standing[t].on]]
    BY <1>5, <2>1
  <2>5. CASE is = "value"
    <3>1. Session!Answer(t)
      BY <1>1, <2>1, <2>2, <2>3, <2>4, <2>5 DEF Session!Answer, Session!Came, Session!Result, Standing, Outcomes
    <3>. QED  BY <1>2, <3>1 DEF Session!Next
  <2>6. CASE is = "timeout"
    <3>1. Session!TimeOut(t)
      BY <1>1, <2>2, <2>3, <2>4, <2>6 DEF Session!TimeOut, Session!Came, Session!Result, Standing, Outcomes
    <3>. QED  BY <1>2, <3>1 DEF Session!Next
  <2>7. CASE is \notin {"value", "timeout"}
    <3>1. is \in Session!Failures
      BY <2>7 DEF Verdicts, Session!Failures
    <3>2. Session!Fail(t)
      BY <1>1, <2>2, <2>3, <2>4, <3>1 DEF Session!Fail, Session!Came, Session!Result, Standing, Outcomes
    <3>. QED  BY <1>2, <3>2 DEF Session!Next
  <2>. QED  BY <2>5, <2>6, <2>7
<1>7. CASE lock # t
  <2>1. job[t].op = "connect" /\ job[t].req = 0 /\ job[t].at = conns /\ conns > 0
    BY <1>7 DEF Inv, Alone, Marks, Connecting
  <2>2. Standing' = Standing
    BY <1>3, <1>7 DEF Standing
  <2>3. Outcomes' = [Outcomes EXCEPT ![t] = [is |-> is, req |-> 0, on |-> conns]]
    BY <1>5, <2>1
  <2>4. is \in {"value", "connection", "unexpected"}
    BY <2>1
  <2>5. Session!Welcomed(t)
    BY <1>1, <2>1, <2>2, <2>3, <2>4 DEF Session!Welcomed, Session!Came, Session!Result, Standing, Outcomes
  <2>. QED  BY <1>2, <2>5 DEF Session!Next
<1>. QED  BY <1>6, <1>7

LEMMA InitMaps == Init => Marks /\ Session!Init
<1>. SUFFICES ASSUME Init PROVE Marks /\ Session!Init
  OBVIOUS
<1>1. Marks
  BY Constants DEF Init, Marks, Connecting
<1>2. Standing = [t \in Threads |-> Session!NoCall]
  BY Constants DEF Init, Standing, Session!NoCall
<1>3. Outcomes = [t \in Threads |-> Session!Result("none", 0, NoConn)]
  BY DEF Init, Outcomes, NoResult, Session!Result
<1>. QED  BY <1>1, <1>2, <1>3 DEF Init, Standing, Outcomes, Session!Init

LEMMA ConnectMaps ==
  ASSUME Inv, Marks, NEW t \in Threads, Connect(t)
  PROVE  Session!Next /\ Marks'
<1>1. /\ \A u \in Threads : pc[u] = "idle"
      /\ sock = NoConn /\ conns < MaxConns /\ conns' = conns + 1 /\ sock' = conns + 1
      /\ job' = [job EXCEPT ![t] = [NoJob EXCEPT !.op = "connect", !.at = conns + 1]]
      /\ result' = [result EXCEPT ![t] = NoResult]
      /\ lock' = lock
      /\ pc' = [pc EXCEPT ![t] = "check"]
  BY DEF Connect, Quiet, Goto
<1>2. /\ job \in [Threads -> Jobs] /\ result \in [Threads -> Results]
      /\ pc \in [Threads -> Places] /\ conns \in Nat
  BY Constants DEF Inv, Typed
<1>3. \A u \in Threads : lock # u
  BY <1>1 DEF Inv, Alone
<1>4. Marks'
  BY <1>1, <1>2, <1>3 DEF Marks, Connecting, NoJob
<1>5. Standing' = Standing /\ \A u \in Threads : Standing[u] = Session!NoCall
  BY <1>1, <1>3 DEF Standing, Session!NoCall
<1>6. Outcomes' = [Outcomes EXCEPT ![t] = Session!Result("none", 0, NoConn)]
  BY <1>1, <1>2 DEF Outcomes, NoResult, Session!Result
<1>7. Session!Connect(t)
  BY <1>1, <1>5, <1>6 DEF Session!Connect, Session!Came, Standing, Outcomes
<1>. QED  BY <1>4, <1>7 DEF Session!Next

LEMMA BeginMaps ==
  ASSUME Inv, Marks, NEW t \in Threads, NEW op \in Ops, Begin(t, op)
  PROVE  Session!Next /\ Marks'
<1>1. /\ lock = NoThread /\ requests < MaxRequests
      /\ \A u \in Threads : ~Connecting(u)
      /\ lock' = t
      /\ job' = [job EXCEPT ![t] = [NoJob EXCEPT !.op = op, !.req = requests + 1, !.at = sock]]
      /\ result' = [result EXCEPT ![t] = NoResult]
      /\ pc' = [pc EXCEPT ![t] = "flush"]
      /\ UNCHANGED <<sock, conns>>
  BY DEF Begin, Goto
<1>2. /\ job \in [Threads -> Jobs] /\ result \in [Threads -> Results]
      /\ pc \in [Threads -> Places] /\ requests + 1 \in 1 .. MaxRequests /\ requests \in Nat
  BY <1>1, Constants DEF Inv, Typed
<1>3. \A u \in Threads : lock # u
  BY <1>1, Constants
<1>4. job'[t].req = requests + 1 /\ job'[t].at = sock /\ job'[t].op = op /\ op # "connect"
  BY <1>1, <1>2, Constants DEF NoJob, OpKinds
<1>5. Marks'
  BY <1>1, <1>2, <1>4 DEF Marks, Connecting
<1>6. /\ \A u \in Threads : Standing[u] = Session!NoCall
      /\ Standing' = [Standing EXCEPT ![t] = [req |-> requests + 1, on |-> sock]]
  BY <1>1, <1>3, <1>4 DEF Standing, Session!NoCall
<1>7. Outcomes' = [Outcomes EXCEPT ![t] = Session!Result("none", 0, NoConn)]
  BY <1>1, <1>2 DEF Outcomes, NoResult, Session!Result
<1>8. Session!Call(t)
  BY <1>1, <1>2, <1>6, <1>7 DEF Session!Call, Session!Came, Standing, Outcomes
<1>. QED  BY <1>5, <1>8 DEF Session!Next

LEMMA BusyMaps ==
  ASSUME Inv, Marks, NEW t \in Threads, NEW op \in Ops, Busy(t, op)
  PROVE  Session!Next /\ Marks'
<1>1. /\ pc[t] = "idle" /\ lock # NoThread
      /\ result' = [result EXCEPT ![t] = [NoResult EXCEPT !.is = "busy"]]
      /\ UNCHANGED <<sock, lock, pc, job, conns>>
  BY DEF Busy
<1>2. lock \in Threads /\ lock # t /\ result \in [Threads -> Results]
  BY <1>1 DEF Inv, Typed, Alone
<1>3. Marks' /\ Standing' = Standing
  BY <1>1 DEF Marks, Connecting, Standing
<1>4. Standing[t] = Session!NoCall /\ Standing[lock] # Session!NoCall
  BY <1>2 DEF Standing, Session!NoCall, Marks
<1>5. Outcomes' = [Outcomes EXCEPT ![t] = Session!Result("busy", 0, NoConn)]
  BY <1>1, <1>2 DEF Outcomes, NoResult, Session!Result
<1>6. Session!Refuse(t)
  BY <1>1, <1>2, <1>3, <1>4, <1>5 DEF Session!Refuse, Session!Came, Standing, Outcomes
<1>. QED  BY <1>3, <1>6 DEF Session!Next

LEMMA FailMaps ==
  ASSUME Inv, Marks, NEW t \in Threads, pc[t] # "idle",
         NEW is \in {"connection", "timeout"}, FailClosed(t, is)
  PROVE  Session!Next /\ Marks'
<1>1. PICK v \in {"connection", "timeout"} :
        Finish(t, v, <<>>) /\ (job[t].op = "connect" => v = "connection")
  BY DEF FailClosed
<1>2. sock' = NoConn
  BY DEF FailClosed, CloseCurrent
<1>3. v \in Verdicts \ {"none", "busy"} /\ v # "value"
  BY DEF Verdicts
<1>4. <<>> \in Seq(LineSet)
  OBVIOUS
<1>. QED  BY <1>1, <1>2, <1>3, <1>4, EndMaps

\* A line split off ends the call, with the next of its answer, or is kept.
LEMMA SplitMaps ==
  ASSUME NotGarbled, Inv, Inv', Marks, NEW t \in Threads, Split(t)
  PROVE  [Session!Next]_(Session!session) /\ Marks'
<1>. DEFINE k == Taken(t, Need(t))
            got == IF k.to = "protocol" THEN <<>> ELSE k.got
<1>1. pc[t] = "split" /\ pc[t] # "idle"
  BY DEF Split
<1>2. /\ job \in [Threads -> Jobs] /\ pc \in [Threads -> Places] /\ result' \in [Threads -> Results]
      /\ <<>> \in Seq(LineSet)
  BY DEF Inv, Typed
<1>3. CASE k.to \in Ends /\ job[t].op = "connect" /\ k.to # "value"
  <2>1. CloseCurrent /\ Finish(t, "connection", <<>>)
    BY <1>3 DEF Split
  <2>2. sock' = NoConn /\ "connection" \in Verdicts \ {"none", "busy"}
    BY <2>1 DEF CloseCurrent, Verdicts
  <2>. QED  BY <1>1, <1>2, <2>1, <2>2, EndMaps
<1>4. CASE k.to \in Ends /\ ~(job[t].op = "connect" /\ k.to # "value")
  <2>1. sock' = sock /\ Finish(t, k.to, got)
    BY <1>4 DEF Split
  <2>. HIDE DEF k, got
  <2>2. k.to \in Verdicts \ {"none", "busy"} /\ k.to # "timeout"
    BY <1>4 DEF Ends, Verdicts
  <2>3. result'[t] = [is |-> k.to, op |-> job[t].op, req |-> job[t].req, at |-> job[t].at, got |-> got]
    BY <2>1 DEF Finish, Inv, Typed
  <2>4. got \in Seq(LineSet)
    BY <1>2, <2>3 DEF Results
  <2>5. job[t].at # NoConn
    BY <1>1 DEF Inv, Sockets
  <2>6. ASSUME k.to = "value"
        PROVE  got # <<>> /\ Head(got).req = job[t].req /\ Head(got).on = job[t].at
    <3>1. /\ \A i \in DOMAIN got : got[i].req = job[t].req /\ got[i].on = job[t].at
          /\ IF job[t].op = "connect" THEN Forms(got) = <<"welcome">>
             ELSE Forms(got) \in Replies(job[t].op)
      BY <2>3, <2>6 DEF Inv, AnsweredByOwnReply
    <3>2. Forms(got) \in Answers(job[t].op) /\ job[t].op \in OpKinds \cup {"connect"}
      BY <1>1, <3>1 DEF Answers, Inv, Alone
    <3>3. Forms(got) \in Seq(FormNames) /\ Len(Forms(got)) >= 1
      BY <3>2, AnswerShapes
    <3>4. 1 \in DOMAIN got
      <4>1. DOMAIN Forms(got) = DOMAIN got
        BY DEF Forms
      <4>. HIDE DEF Forms
      <4>2. 1 \in DOMAIN Forms(got)
        BY <3>3
      <4>. QED  BY <4>1, <4>2
    <3>5. got # <<>> /\ Head(got) = got[1]
      BY <2>4, <3>4
    <3>. QED  BY <3>1, <3>4, <3>5
  <2>. QED  BY <1>1, <1>4, <2>1, <2>2, <2>4, <2>5, <2>6, EndMaps
<1>5. CASE k.to \notin Ends
  <2>1. /\ job' = [job EXCEPT ![t].got = k.got, ![t].left = k.left, ![t].phase = k.to]
        /\ pc' = [pc EXCEPT ![t] = "check"]
        /\ UNCHANGED <<sock, lock, result, conns>>
    BY <1>5 DEF Split, Goto
  <2>2. SameCalls
    <3>. HIDE DEF k
    <3>1. \A u \in Threads : /\ job'[u].req = job[u].req /\ job'[u].at = job[u].at
                             /\ job'[u].op = job[u].op
      BY <1>2, <2>1 DEF Jobs
    <3>2. \A u \in Threads : (pc'[u] = "idle") = (pc[u] = "idle")
      BY <1>1, <1>2, <2>1
    <3>. QED  BY <2>1, <3>1, <3>2 DEF SameCalls
  <2>. QED  BY <2>1, <2>2, SameCallsMarks, SameCallsMap
<1>. QED  BY <1>3, <1>4, <1>5

LEMMA CallMaps ==
  ASSUME NotGarbled, Inv, Inv', Marks, NEW t \in Threads, Calls(t)
  PROVE  [Session!Next]_(Session!session) /\ Marks'
<1>1. /\ pc \in [Threads -> Places] /\ job \in [Threads -> Jobs] /\ <<>> \in Seq(LineSet)
  BY DEF Inv, Typed
<1>2. ASSUME pc[t] # "idle", NEW at \in Places \ {"idle"}, Goto(t, at),
             UNCHANGED <<sock, lock, job, result, conns>>
      PROVE  [Session!Next]_(Session!session) /\ Marks'
  <2>1. SameCalls
    BY <1>1, <1>2 DEF SameCalls, Goto
  <2>. QED  BY <1>2, <2>1, SameCallsMarks, SameCallsMap
<1>3. CASE Flush(t)
  BY <1>2, <1>3 DEF Flush, Places
<1>4. CASE Send(t)
  BY <1>2, <1>4 DEF Send, Places
<1>5. CASE SendFails(t)
  BY <1>5, FailMaps DEF SendFails
<1>6. CASE Check(t)
  <2>1. CASE sock = NoConn
    BY <1>6, <2>1, FailMaps DEF Check
  <2>2. CASE sock # NoConn
    BY <1>2, <1>6, <2>2 DEF Check, Places
  <2>. QED  BY <2>1, <2>2
<1>7. CASE Bind(t)
  <2>1. CASE sock = NoConn
    <3>1. pc[t] = "bind" /\ sock' = sock /\ Finish(t, "unexpected", <<>>)
      BY <1>7, <2>1 DEF Bind, KeepConnection
    <3>2. "unexpected" \in Verdicts \ {"none", "busy"}
      BY DEF Verdicts
    <3>. QED  BY <1>1, <3>1, <3>2, EndMaps
  <2>2. CASE sock # NoConn
    <3>1. /\ pc[t] = "bind" /\ job' = [job EXCEPT ![t].via = sock]
          /\ pc' = [pc EXCEPT ![t] = "recv"] /\ UNCHANGED <<sock, lock, result, conns>>
      BY <1>7, <2>2 DEF Bind, Goto
    <3>2. \A u \in Threads : /\ job'[u].req = job[u].req /\ job'[u].at = job[u].at
                             /\ job'[u].op = job[u].op
      BY <1>1, <3>1 DEF Jobs
    <3>3. \A u \in Threads : (pc'[u] = "idle") = (pc[u] = "idle")
      BY <1>1, <3>1
    <3>4. SameCalls
      BY <3>1, <3>2, <3>3 DEF SameCalls
    <3>. QED  BY <3>1, <3>4, SameCallsMarks, SameCallsMap
  <2>. QED  BY <2>1, <2>2
<1>8. CASE RecvEnough(t)
  BY <1>2, <1>8 DEF RecvEnough, Places
<1>9. CASE Split(t)
  BY <1>9, SplitMaps
<1>10. CASE SplitCleared(t)
  <2>1. pc[t] = "split" /\ sock' = sock
    BY <1>10 DEF SplitCleared, KeepConnection
  <2>2. PICK is \in {"protocol", "unexpected"} :
          /\ Finish(t, is, <<>>)
          /\ is = "protocol" => job[t].phase = "exact"
    BY <1>10 DEF SplitCleared
  <2>3. job[t].op = "connect" => job[t].phase # "exact"
    <3>. SUFFICES ASSUME job[t].op = "connect", job[t].phase = "exact" PROVE FALSE
      OBVIOUS
    <3>1. Unanswered(t) \/ Answered(t, <<"welcome">>)
      BY <2>1 DEF Inv, Progress, Reading, Answers
    <3>2. <<"welcome">>[1] = "welcome"
      OBVIOUS
    <3>. QED  BY <3>1, <3>2, HeaderKinds DEF Unanswered, Answered
  <2>4. is \in Verdicts \ {"none", "busy"} /\ is \notin {"value", "timeout"}
    BY DEF Verdicts
  <2>. QED  BY <1>1, <2>1, <2>2, <2>3, <2>4, EndMaps
<1>11. CASE Recv(t)
  <2>1. SameCalls /\ UNCHANGED <<sock, result>>
    BY <1>11 DEF Recv, SameCalls
  <2>. QED  BY <2>1, SameCallsMarks, SameCallsMap
<1>12. CASE RecvClosed(t) \/ RecvTimeout(t)
  BY <1>12, FailMaps DEF RecvClosed, RecvTimeout
<1>. QED  BY <1>3, <1>4, <1>5, <1>6, <1>7, <1>8, <1>9, <1>10, <1>11, <1>12 DEF Calls, Reads

LEMMA StepMaps ==
  ASSUME NotGarbled, Inv, Inv', Marks, [Next]_vars
  PROVE  [Session!Next]_(Session!session) /\ Marks'
<1>1. CASE UNCHANGED client
  <2>1. SameCalls /\ UNCHANGED <<sock, result>>
    BY <1>1 DEF client, SameCalls
  <2>. QED  BY <2>1, SameCallsMarks, SameCallsMap
<1>2. ASSUME NEW t \in Threads, Connect(t) PROVE Session!Next /\ Marks'
  BY <1>2, ConnectMaps
<1>3. ASSUME NEW t \in Threads, Calls(t) PROVE [Session!Next]_(Session!session) /\ Marks'
  BY <1>3, CallMaps
<1>4. ASSUME NEW t \in Threads, NEW op \in Ops, Begin(t, op) \/ Busy(t, op)
      PROVE  Session!Next /\ Marks'
  BY <1>4, BeginMaps, BusyMaps
<1>5. CASE Disconnect
  <2>1. sock' = NoConn /\ UNCHANGED <<lock, pc, job, result, conns>>
    BY <1>5 DEF Disconnect
  <2>2. Marks' /\ Standing' = Standing /\ Outcomes' = Outcomes
    BY <2>1 DEF Marks, Connecting, Standing, Outcomes
  <2>3. Session!Disconnect
    BY <2>1, <2>2 DEF Session!Disconnect, Standing, Outcomes
  <2>. QED  BY <2>2, <2>3 DEF Session!Next
<1>6. CASE DisconnectClear
  <2>1. SameCalls /\ UNCHANGED <<sock, result>>
    BY <1>6 DEF DisconnectClear, SameCalls
  <2>. QED  BY <2>1, SameCallsMarks, SameCallsMap
<1>7. (Accept \/ Answer \/ Leave \/ UNCHANGED vars) => UNCHANGED client
  BY DEF Accept, Answer, Leave, vars
<1>. QED  BY <1>1, <1>2, <1>3, <1>4, <1>5, <1>6, <1>7 DEF Next

\* The client keeps the promise of ClientSession, for any threads, requests and
\* connections: one call at a time, answered on its connection or failed, and
\* no answer after a time-out until someone connects again.
THEOREM ClientKeepsSession == NotGarbled => (Spec => ImplementsSession)
<1>. SUFFICES ASSUME NotGarbled PROVE Spec => ImplementsSession
  OBVIOUS
<1>1. Inv /\ [Next]_vars => Inv'
  BY StepInv
<1>2. Inv /\ Inv' /\ Marks /\ [Next]_vars => [Session!Next]_(Session!session) /\ Marks'
  BY StepMaps
<1>3. Init => Inv /\ Marks /\ Session!Init
  BY InitInv, InitMaps
<1>. QED  BY <1>1, <1>2, <1>3, PTL DEF Spec, ImplementsSession, Session!Spec

=============================================================================
