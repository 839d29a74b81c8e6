------------------------------ MODULE HilCheck ------------------------------
(***************************************************************************)
(* The hardware check of afm_hil_check.py: seven checks, each a plan of     *)
(* measurements over a loop from the Red Pitaya's output to its input and   *)
(* a verdict on what they returned.                                         *)
(*                                                                         *)
(* A measurement is what the verdicts tell apart: its level, proportional   *)
(* to amplitude and gain of the loop, whether its band is flat, its phase   *)
(* linear, and whether the ADC clipped.  Levels are exact integers, and a   *)
(* comparison of a quotient 0/0, which Python makes a NaN, is false.        *)
(***************************************************************************)
EXTENDS Naturals, Sequences, SequencesExt

CONSTANTS
  Gain,          \* gain of a sound loop, in percent
  Flaws,         \* what may be wrong with the loop from the beginning
  Benches,       \* sets of what may happen to it in between
  Repeat         \* runs of the repeatability check

AllFlaws == {"none", "weak", "loud", "stale", "phase", "uneven", "decimation", "saturated", "route"}

HilAssumption ==
  /\ Gain \in 20 .. 300 /\ Repeat \in Nat /\ Repeat >= 4
  /\ Flaws \subseteq AllFlaws
  /\ Benches \subseteq SUBSET {"unplug", "plug", "loseLink", "error"}

ASSUME HilAssumption

Checks == <<"setup", "sweep", "decimation", "sinc level", "max depth",
            "amplitude linearity", "repeatability">>
Decimations == <<16, 64, 256, 1024>>
Sizes == <<8192, 65536>>
Full == 2  \* the amplitude, in halves of itself
None == 0
Pending == 3  \* no exit code yet

VARIABLES
  bench,     \* what may happen in this behaviour: chosen at the start, kept
  rig,       \* flaw, plugged, board, first sinc level of each size, initialized
  link,      \* the connection: new, up or lost
  check,     \* index of the check at work, one past the last at the end
  readings,  \* what its measurements have returned
  gain,      \* self.gain, in percent, or None
  results,   \* verdict on each check
  code,      \* exit code, or Pending
  missed     \* has a call failed, or a level check measured no signal?

hilVars == <<rig, link, check, readings, gain, results, code, missed>>

Disturbances == bench

HilInit ==
  /\ bench \in Benches
  /\ rig \in [flaw : Flaws, plugged : BOOLEAN, board : {"absent", "other"},
              initialized : BOOLEAN, first : {[s \in {8192, 65536} |-> None]}]
  /\ rig.flaw = "route" => rig.board = "other"
  /\ ("unplug" \notin Disturbances => rig.plugged)
  /\ link = "new" /\ check = 1 /\ readings = <<>> /\ gain = None
  /\ results = [c \in 1 .. 7 |-> "none"] /\ code = Pending /\ missed = FALSE

Abs(a, b) == IF a >= b THEN a - b ELSE b - a

(* abs(a / b - 1) > percent / 100, for quotients that may be NaN or infinite *)
Off(a, b, percent) == IF b = 0 THEN a # 0 ELSE 100 * Abs(a, b) > percent * b

-----------------------------------------------------------------------------
(* The loop and the server (external) *)

Signal(m) ==
  CASE ~rig.plugged \/ rig.board = "other" -> 0
    [] rig.flaw = "weak" -> m.amplitude
    [] rig.flaw = "loud" -> 400 * m.amplitude
    [] rig.flaw = "decimation" /\ m.decimation = 1024 -> (4 * Gain * m.amplitude) \div 5
    [] OTHER -> Gain * m.amplitude

Stale(m) == rig.flaw = "stale" /\ m.sort = "sinc" /\ rig.first[m.samples] # None

Reading(m) ==
  [level |-> IF Stale(m) THEN rig.first[m.samples] ELSE Signal(m),
   flat |-> rig.flaw # "uneven" \/ Signal(m) = 0,
   linear |-> rig.flaw # "phase" \/ Signal(m) = 0,
   saturated |-> rig.flaw = "saturated"]

Disturb ==
  /\ code = Pending /\ link = "up"
  /\ \/ "unplug" \in Disturbances /\ rig.plugged /\ rig' = [rig EXCEPT !.plugged = FALSE] /\ UNCHANGED link
     \/ "plug" \in Disturbances /\ ~rig.plugged /\ rig' = [rig EXCEPT !.plugged = TRUE] /\ UNCHANGED link
     \/ "loseLink" \in Disturbances /\ link' = "lost" /\ UNCHANGED rig
  /\ UNCHANGED <<check, readings, gain, results, code, missed>>

-----------------------------------------------------------------------------
(* main() and run() *)

Connect ==
  /\ code = Pending /\ link = "new"
  /\ \/ link' = "up" /\ UNCHANGED code
     \/ "loseLink" \in Disturbances /\ code' = 2 /\ UNCHANGED link
  /\ UNCHANGED <<rig, check, readings, gain, results, missed>>

At(name) == code = Pending /\ check <= 7 /\ Checks[check] = name

(* The next check, whatever the last one found. *)
Conclude(passed) ==
  /\ results' = [results EXCEPT ![check] = IF passed THEN "pass" ELSE "fail"]
  /\ check' = check + 1 /\ readings' = <<>>

(* Mutant: a check that could not be run is not counted. *)
FinishCounted ==
  /\ code = Pending /\ check = 8
  /\ code' = IF \E c \in 2 .. 7 : results[c] = "fail" THEN 1 ELSE 0
  /\ UNCHANGED <<rig, link, check, readings, gain, results, missed>>

Finish ==
  /\ code = Pending /\ check = 8
  /\ code' = IF \A c \in 1 .. 7 : results[c] = "pass" THEN 0 ELSE 1
  /\ UNCHANGED <<rig, link, check, readings, gain, results, missed>>

-----------------------------------------------------------------------------
(* _check_setup(): initializes the hardware and routes the board, if any.   *)
Setup ==
  /\ At("setup") /\ link = "up"
  /\ rig' = [rig EXCEPT !.initialized = TRUE,
                        !.board = IF @ = "other" /\ rig.flaw # "route" THEN "routed" ELSE @]
  /\ Conclude(rig'.board # "other")
  /\ UNCHANGED <<link, gain, code, missed>>

(* The plan of measurements of each check. *)
Sweep(d) == [sort |-> "sweep", decimation |-> d, samples |-> 8192, amplitude |-> Full]
Sinc(n, a) == [sort |-> "sinc", decimation |-> 64, samples |-> n, amplitude |-> a]

Plan(name) ==
  CASE name = "sweep" -> <<Sweep(64)>>
    [] name = "decimation" -> [i \in 1 .. 4 |-> Sweep(Decimations[i])]
    [] name = "sinc level" -> <<Sinc(8192, Full)>>
    [] name = "max depth" -> <<Sinc(65536, Full)>>
    [] name = "amplitude linearity" -> <<Sinc(8192, Full), Sinc(8192, 1)>>
    [] name = "repeatability" -> [i \in 1 .. Repeat |-> Sinc(Sizes[2 - (i % 2)], Full)]
    [] OTHER -> <<>>

(* An AFMError ends the check in which it is raised, and no other.  A lost  *)
(* connection is not made anew: every call that follows raises one.         *)
Raises ==
  /\ code = Pending /\ check \in 1 .. 7 /\ link # "new"
  /\ check = 1 \/ Len(readings) < Len(Plan(Checks[check]))
  /\ link = "up" => "error" \in Disturbances
  /\ Conclude(FALSE)
  /\ missed' = TRUE
  /\ UNCHANGED <<rig, link, gain, code>>

(* _measure(): the saturation flag is asked for after each measurement.     *)
Measure ==
  /\ code = Pending /\ link = "up" /\ check \in 2 .. 7
  /\ Len(readings) < Len(Plan(Checks[check]))
  /\ LET m == Plan(Checks[check])[Len(readings) + 1]
     IN  /\ readings' = Append(readings, Reading(m))
         /\ rig' = IF m.sort = "sinc" /\ rig.first[m.samples] = None
                   THEN [rig EXCEPT !.first[m.samples] = Signal(m)] ELSE rig
         /\ missed' = (missed \/ (check <= 5 /\ Signal(m) = 0))
  /\ UNCHANGED <<link, check, gain, results, code>>

Clipped == \E i \in DOMAIN readings : readings[i].saturated
Measured(name) == At(name) /\ Len(readings) = Len(Plan(name))

(* A gain in its limits is kept for the sinc checks, flat or not. *)
JudgeSweep ==
  /\ Measured("sweep")
  /\ LET r == readings[1]
         sound == r.level >= 20 * Full /\ r.level <= 300 * Full
     IN  /\ gain' = IF ~Clipped /\ sound THEN r.level \div Full ELSE gain
         /\ Conclude(~Clipped /\ sound /\ r.flat /\ r.linear)
  /\ UNCHANGED <<rig, link, code, missed>>

(* Mutant: each decimation is compared with itself. *)
JudgeDecimationAlone ==
  /\ Measured("decimation")
  /\ Conclude(~Clipped /\ readings[2].level >= 20 * Full)
  /\ UNCHANGED <<rig, link, gain, code, missed>>

JudgeDecimation ==
  /\ Measured("decimation")
  /\ LET reference == readings[2].level
     IN  Conclude(/\ ~Clipped /\ reference >= 20 * Full
                  /\ \A i \in 1 .. 4 : ~Off(readings[i].level, reference, 5))
  /\ UNCHANGED <<rig, link, gain, code, missed>>

(* _check_sinc_band() *)
JudgeSinc(name) ==
  /\ Measured(name)
  /\ Conclude(/\ ~Clipped /\ readings[1].flat /\ gain # None
              /\ ~Off(readings[1].level, gain * Full, 20))
  /\ UNCHANGED <<rig, link, gain, code, missed>>

(* abs(half / full / 0.5 - 1) *)
JudgeLinearity ==
  /\ Measured("amplitude linearity")
  /\ Conclude(~Clipped /\ ~Off(2 * readings[2].level, readings[1].level, 3))
  /\ UNCHANGED <<rig, link, gain, code, missed>>

(* Each run against the first of its size. *)
JudgeRepeatability ==
  /\ Measured("repeatability")
  /\ Conclude(~Clipped /\ \A i \in 3 .. Repeat :
                            ~Off(readings[i].level, readings[2 - (i % 2)].level, 3))
  /\ UNCHANGED <<rig, link, gain, code, missed>>

Run ==
  \/ Connect \/ Raises \/ Finish \/ Setup \/ Measure
  \/ JudgeSweep \/ JudgeDecimation \/ JudgeLinearity \/ JudgeRepeatability
  \/ JudgeSinc("sinc level") \/ JudgeSinc("max depth")

HilNext == (Run \/ Disturb) /\ UNCHANGED bench

HilSpec == HilInit /\ [][HilNext]_<<bench, hilVars>>

-----------------------------------------------------------------------------
(* Properties *)

\* The type invariant; the checks done are those before the one at work.
HilTypeOK ==
  /\ bench \in Benches
  /\ rig.flaw \in AllFlaws /\ rig.board \in {"absent", "other", "routed"}
  /\ link \in {"new", "up", "lost"}
  /\ {rig.plugged, rig.initialized, missed} \subseteq BOOLEAN
  /\ check \in 1 .. 8 /\ gain \in {None} \cup 20 .. 300
  /\ Len(readings) <= Repeat /\ code \in {Pending, 0, 1, 2}
  /\ \A c \in 1 .. 7 : results[c] = "none" <=> c >= check

Failed == {Checks[c] : c \in {d \in 1 .. 7 : results[d] = "fail"}}

(* Each flaw of the loop fails exactly the checks it should, a sound loop   *)
(* none: the sets are those of the tests, where a test names one.           *)
FlawsAreCaught ==
  code \in {0, 1} =>
    Failed = CASE rig.flaw = "none" -> {}
               [] rig.flaw = "stale" -> {"amplitude linearity"}
               [] rig.flaw = "phase" -> {"sweep"}
               [] rig.flaw = "decimation" -> {"decimation"}
               [] rig.flaw = "uneven" -> {"sweep", "sinc level", "max depth"}
               [] rig.flaw = "saturated" -> Range(Checks) \ {"setup"}
               [] rig.flaw = "loud" -> {"sweep", "sinc level", "max depth"}
               [] rig.flaw = "weak" -> {"sweep", "decimation", "sinc level", "max depth"}
               [] rig.flaw = "route" -> {"setup", "sweep", "decimation", "sinc level", "max depth"}

(* Neither a loop without a signal in one of the level checks, nor a call   *)
(* that failed, is passed over: the exit code is 0 only if every check was  *)
(* run to its end.  Without a connection there are no checks.               *)
DisturbancesAreSeen ==
  /\ code = 0 => ~missed
  /\ code = 2 <=> code # Pending /\ link = "new"

(* A loop that answers stale data is never reported as sound, whenever the  *)
(* cable is pulled or the connection lost.                                  *)
StaleIsCaught == code = 0 => rig.flaw # "stale"

\* On a loop that is left alone, each flaw fails exactly the checks that a
\* test of the repository, or the limits, say, and a sound loop none.
SteadyFlawsAreCaught == Disturbances = {} => FlawsAreCaught

\* Whatever happens to the loop and the link, nothing that the checks met is
\* missing from the exit code.
FaultsAreSeen == HilTypeOK /\ DisturbancesAreSeen /\ StaleIsCaught

(* "amplitude linearity (no stale data)": a pass means that the signal was  *)
(* there and followed the amplitude.                                        *)
LinearityMeansSignal ==
  [][check = 6 /\ check' = 7 /\ results'[6] = "pass" => readings[1].level > 0]_hilVars
=============================================================================
