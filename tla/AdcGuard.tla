------------------------------ MODULE AdcGuard ------------------------------
(***************************************************************************)
(* What the server promises about the ADC input (README, section 5): with  *)
(* the protection on, no measurement is run whose excitation would come    *)
(* back to the ADC above its full scale.  Nothing is said of caches, UARTs *)
(* or commands: there is the board, there are the settings of the user,    *)
(* and there is an excitation that is running or not.                      *)
(***************************************************************************)
EXTENDS InputSafety

CONSTANTS Inputs, Outputs, DacLinkInput, AdcLinkOutput, Disconnected,
          Gains, Amplitudes, SampleGains

VARIABLES board,      \* gains and routing the signal goes through
          settings,   \* how the user has set up the protection
          drive       \* amplitude of the running excitation, 0 when silent

vars == <<board, settings, drive>>

Silent == 0

Boards == [gain : [Inputs -> Gains],
           route : [Outputs -> Inputs \cup {Disconnected}]]

Settings == [monitored : BOOLEAN, loopMode : {"AUTO", "MANUAL", "OFF"},
             excite : Inputs, return : Inputs,
             protect : BOOLEAN, sampleGain : SampleGains]

\* The protection is in force: on, with a board to read and a loop to watch.
Guarded == settings.protect /\ settings.monitored /\ settings.loopMode # "OFF"

Excite == IF settings.loopMode = "MANUAL" THEN settings.excite ELSE DacLinkInput

\* The inputs whose signal reaches the ADC: the one the user has wired and
\* named, or the one the board routes to the ADC, if any.
Returns ==
  IF settings.loopMode = "MANUAL" THEN {settings.return}
  ELSE {board.route[AdcLinkOutput]} \ {Disconnected}

Overdrives(amplitude) ==
  \E r \in Returns :
    LoopPeak(board.gain, amplitude, Excite, r, settings.sampleGain) > AdcFullScale

Init ==
  /\ board \in Boards
  /\ settings \in Settings
  /\ drive = Silent

\* Board and settings are only touched while nothing is being excited.
Configure ==
  /\ drive = Silent
  /\ board' \in Boards
  /\ settings' \in Settings
  /\ UNCHANGED drive

Start(amplitude) ==
  /\ drive = Silent
  /\ Guarded => ~Overdrives(amplitude)
  /\ drive' = amplitude
  /\ UNCHANGED <<board, settings>>

\* A measurement ends, or the server does and forgets its settings.
Stop ==
  /\ drive # Silent
  /\ drive' = Silent
  /\ settings' \in Settings
  /\ UNCHANGED board

Next == Configure \/ (\E amplitude \in Amplitudes : Start(amplitude)) \/ Stop

Spec == Init /\ [][Next]_vars

\* The promise, as an invariant: a guarded excitation that runs does not bring
\* the ADC above full scale through the gains and routing the board has.
DrivenWithinFullScale == drive # Silent /\ Guarded => ~Overdrives(drive)
=============================================================================
