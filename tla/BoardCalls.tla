----------------------------- MODULE BoardCalls -----------------------------
(***************************************************************************)
(* What the callers of IElectronicBoard count on.  A call asks the board   *)
(* for one thing.  When it succeeds, the board has done that thing during  *)
(* the call, and what a STATUS reads is what the board held then.  When it *)
(* fails, the board has done it or never will: nothing of a call outlives  *)
(* it.  CommandHandler takes a call as one step on this promise.           *)
(***************************************************************************)
CONSTANTS Inputs, Outputs, Gains, Routes, DefaultBoard, Commands, Unread

VARIABLES board,    \* gains and routing in force
          call,     \* the call in progress
          result    \* what the last call returned

vars == <<board, call, result>>

Apply(c, b) ==
  CASE c.op = "GAIN"   -> [b EXCEPT !.gain[c.at] = c.to]
    [] c.op = "MUX"    -> [b EXCEPT !.route[c.at] = c.to]
    [] c.op = "RESET"  -> DefaultBoard
    [] c.op = "STATUS" -> b

NoCall == [at |-> "idle"]
Failure == [ok |-> FALSE]

\* What a STATUS may return of a board: every line its value or nothing.
Readings(b) ==
  {r \in [gain : [Inputs -> Gains \cup {Unread}],
          route : [Outputs -> Routes \cup {Unread}]] :
     /\ \A i \in Inputs : r.gain[i] \in {b.gain[i], Unread}
     /\ \A o \in Outputs : r.route[o] \in {b.route[o], Unread}}

Init ==
  /\ board = DefaultBoard
  /\ call = NoCall
  /\ result = Failure

Begin(c) ==
  /\ call = NoCall
  /\ call' = [at |-> "asked", cmd |-> c]
  /\ UNCHANGED <<board, result>>

Obey ==
  /\ call.at = "asked"
  /\ board' = Apply(call.cmd, board)
  /\ call' = [at |-> "obeyed", cmd |-> call.cmd, board |-> board']
  /\ UNCHANGED result

Succeed ==
  /\ call.at = "obeyed"
  /\ \E r \in Readings(call.board) :
       result' = IF call.cmd.op = "STATUS" THEN [ok |-> TRUE, read |-> r]
                                           ELSE [ok |-> TRUE]
  /\ call' = NoCall
  /\ UNCHANGED board

Fail ==
  /\ call # NoCall
  /\ result' = Failure
  /\ call' = NoCall
  /\ UNCHANGED board

Restart ==
  /\ board' = DefaultBoard
  /\ UNCHANGED <<call, result>>

Next == (\E c \in Commands : Begin(c)) \/ Obey \/ Succeed \/ Fail \/ Restart

Spec == Init /\ [][Next]_vars
=============================================================================
