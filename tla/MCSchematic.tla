---------------------------- MODULE MCSchematic -----------------------------
(***************************************************************************)
(* The schematic dialog in its uses: alone, where a command fails by losing *)
(* the connection only; and beside a main window that switches the crossbar *)
(* too, with every way to fail.                                             *)
(***************************************************************************)
EXTENDS Schematic

Use(window, errors, most) == [window |-> window, errors |-> errors, clicks |-> most]

AloneOrBeside == {Use(FALSE, {"dropped"}, MaxClicks), Use(TRUE, Failures, MaxClicks - 2)}

\* A window that switches the board, or an answer that is lost: each alone is
\* enough for the dialog to show what the board is not.
BesideWindow == {Use(TRUE, {}, MaxClicks)}
LosingAnswers == {Use(FALSE, {"lost"}, MaxClicks)}
=============================================================================
