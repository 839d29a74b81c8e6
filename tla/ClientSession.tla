--------------------------- MODULE ClientSession ---------------------------
(***************************************************************************)
(* What AFMClient promises its callers, without sockets or buffers: calls   *)
(* are made one at a time, a call returns the reply to its own request on   *)
(* the connection it began on or it fails, and after a timeout nothing can  *)
(* be answered until someone connects again.                                *)
(***************************************************************************)
EXTENDS Integers

CONSTANTS Threads, NoConn, MaxConns, MaxRequests

VARIABLES
  link,      \* the live connection
  opened,    \* connections made so far
  call,      \* the call of each thread
  outcome    \* what its last call came to

session == <<link, opened, call, outcome>>

Conns == 1 .. MaxConns
NoCall == [req |-> 0, on |-> NoConn]
Failures == {"connection", "protocol", "command", "unexpected"}

Ended(t) == call' = [call EXCEPT ![t] = NoCall]
Result(is, req, on) == [is |-> is, req |-> req, on |-> on]
Came(t, r) == outcome' = [outcome EXCEPT ![t] = r]

Init ==
  /\ link = NoConn /\ opened = 0
  /\ call = [t \in Threads |-> NoCall]
  /\ outcome = [t \in Threads |-> Result("none", 0, NoConn)]

Connect(t) ==
  /\ link = NoConn /\ opened < MaxConns
  /\ \A u \in Threads : call[u] = NoCall
  /\ opened' = opened + 1 /\ link' = opened + 1
  /\ Came(t, Result("none", 0, NoConn))
  /\ UNCHANGED call

\* The welcome of the newest connection, or none.
Welcomed(t) ==
  /\ opened > 0
  /\ \/ Came(t, Result("value", 0, opened)) /\ UNCHANGED link
     \/ \E is \in {"connection", "unexpected"} :
          Came(t, Result(is, 0, opened)) /\ link' \in {link, NoConn}
  /\ UNCHANGED <<opened, call>>

Call(t) ==
  /\ \A u \in Threads : call[u] = NoCall
  /\ \E req \in 1 .. MaxRequests :
       call' = [call EXCEPT ![t] = [req |-> req, on |-> link]]
  /\ Came(t, Result("none", 0, NoConn))
  /\ UNCHANGED <<link, opened>>

Refuse(t) ==
  /\ call[t] = NoCall
  /\ \E u \in Threads \ {t} : call[u] # NoCall
  /\ Came(t, Result("busy", 0, NoConn))
  /\ UNCHANGED <<link, opened, call>>

Answer(t) ==
  /\ call[t] # NoCall /\ call[t].on # NoConn
  /\ Came(t, Result("value", call[t].req, call[t].on))
  /\ Ended(t) /\ UNCHANGED <<link, opened>>

Fail(t) ==
  /\ call[t] # NoCall
  /\ \E is \in Failures : Came(t, Result(is, call[t].req, call[t].on))
  /\ link' \in {link, NoConn}
  /\ Ended(t) /\ UNCHANGED opened

TimeOut(t) ==
  /\ call[t] # NoCall
  /\ Came(t, Result("timeout", call[t].req, call[t].on))
  /\ link' = NoConn
  /\ Ended(t) /\ UNCHANGED opened

Disconnect ==
  /\ link' = NoConn
  /\ UNCHANGED <<opened, call, outcome>>

Next ==
  \/ \E t \in Threads :
       \/ Connect(t) \/ Welcomed(t) \/ Call(t) \/ Refuse(t)
       \/ Answer(t) \/ Fail(t) \/ TimeOut(t)
  \/ Disconnect

Spec == Init /\ [][Next]_session
=============================================================================
