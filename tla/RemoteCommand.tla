--------------------------- MODULE RemoteCommand ---------------------------
(***************************************************************************)
(* One run_remote() of the deployment tool: a command on the board writes   *)
(* to its two output pipes; the tool reads stdout to its end, then stderr   *)
(* to its end, then takes the exit status.                                  *)
(*                                                                          *)
(* Both pipes travel on one SSH channel (paramiko, external) with one       *)
(* window: what the tool has not read of either of them counts against it,  *)
(* and a command that finds the window used up is blocked in its write.     *)
(***************************************************************************)
EXTENDS Integers, Sequences

CONSTANTS
  Window,  \* units of output the channel holds
  MaxOut,  \* bound on what a command writes to its stdout
  MaxErr   \* bound on what it writes to its stderr

PipesAssumption == Window \in Nat \ {0} /\ MaxOut \in Nat /\ MaxErr \in Nat

Pipes == {"out", "err"}

VARIABLES
  left,     \* units the command has still to write to each pipe
  ended,    \* has it exited?
  channel,  \* units of each pipe the tool has not read yet
  got,      \* units of each pipe the tool has read
  at        \* the call of Reads the tool is in

vars == <<left, ended, channel, got, at>>

Empty == [p \in Pipes |-> 0]

(* Mutant: the exit status is waited for before the pipes are drained. *)
StatusFirst == <<"status", "out", "err">>

(* The blocking calls of run_remote, in their order. *)
Reads == <<"out", "err", "status">>

Init ==
  /\ left \in {l \in [Pipes -> 0 .. MaxOut + MaxErr] :
                 l["out"] <= MaxOut /\ l["err"] <= MaxErr}
  /\ ended = FALSE /\ channel = Empty /\ got = Empty /\ at = 1

(* The command writes to a pipe, when there is room in the window. *)
Write(p) ==
  /\ left[p] > 0 /\ channel["out"] + channel["err"] < Window
  /\ left' = [left EXCEPT ![p] = @ - 1]
  /\ channel' = [channel EXCEPT ![p] = @ + 1]
  /\ UNCHANGED <<ended, got, at>>

(* It exits, which closes its pipes. *)
Exit ==
  /\ left = Empty /\ ~ended
  /\ ended' = TRUE
  /\ UNCHANGED <<left, channel, got, at>>

Command == (\E p \in Pipes : Write(p)) \/ Exit

Waiting(call) == at <= Len(Reads) /\ Reads[at] = call

Drain(p) ==
  /\ Waiting(p) /\ channel[p] > 0
  /\ channel' = [channel EXCEPT ![p] = @ - 1]
  /\ got' = [got EXCEPT ![p] = @ + 1]
  /\ UNCHANGED <<left, ended, at>>

(* The end of a pipe is read after all that was written to it. *)
EndOfPipe(p) ==
  /\ Waiting(p) /\ ended /\ channel[p] = 0
  /\ at' = at + 1
  /\ UNCHANGED <<left, ended, channel, got>>

TakeStatus ==
  /\ Waiting("status") /\ ended
  /\ at' = at + 1
  /\ UNCHANGED <<left, ended, channel, got>>

Tool == (\E p \in Pipes : Drain(p) \/ EndOfPipe(p)) \/ TakeStatus

Next == Command \/ Tool

(* The command runs and the tool reads, as long as they are not blocked. *)
Spec == Init /\ [][Next]_vars /\ WF_vars(Command) /\ WF_vars(Tool)

-----------------------------------------------------------------------------

(* run_remote has returned all that the command wrote. *)
Returned == at > Len(Reads) /\ ended /\ left = Empty /\ channel = Empty
=============================================================================
