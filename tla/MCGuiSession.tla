---------------------------- MODULE MCGuiSession ----------------------------
(***************************************************************************)
(* The users of the runs.                                                  *)
(***************************************************************************)
EXTENDS GuiSession

Patient == [dialog : {FALSE}, may : {{}}]

\* One who uses the routing dialog beside the window and may leave a call by
\* the connect button.
Busy == [dialog : {TRUE}, may : {{"leave"}}]

PatientAndBusy == Patient \cup Busy

\* One who only uses the dialog, one who only leaves, one who only overtakes.
WithDialog == [dialog : {TRUE}, may : {{}}]
Leaving == [dialog : {FALSE}, may : {{"leave"}}]
Overtaking == [dialog : {FALSE}, may : {{"overtake"}}]
=============================================================================
