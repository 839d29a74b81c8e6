---------------------------- MODULE MCBoardLink -----------------------------
(***************************************************************************)
(* The wires of the runs: every combination of what a wire may do, one that *)
(* only drops newlines, and one that is only slow.                          *)
(***************************************************************************)
EXTENDS BoardLink

EveryWire == [noise : SUBSET NoiseKinds, late : BOOLEAN]

MergingWire == [noise : {{"terminator"}}, late : {FALSE}]

SlowWire == [noise : {{}}, late : {TRUE}]
=============================================================================
