---------------------------- MODULE InputSafety ----------------------------
(***************************************************************************)
(* The nominal peak at the Red Pitaya ADC, as cpp/Hardware/InputSafety.h   *)
(* computes it:                                                            *)
(*                                                                         *)
(*    RP DAC -> board input (gain) -> AFM -> board input (gain) -> RP ADC  *)
(*                                                                         *)
(* The floats of the code become exact integers.  An excitation amplitude, *)
(* a gain factor and a sample gain are counted in eighths, so a peak after *)
(* the first gain stage is a number of 1/64 V and a peak at the ADC a      *)
(* number of 1/4096 V.                                                     *)
(***************************************************************************)
EXTENDS Integers

Unit == 8

\* c_GainTable: the factors x1/8 .. x16 of the eight settings, in eighths.
GainTable == {1, 2, 4, 8, 16, 32, 64, 128}
Gain1 == 8
Gain16 == 128

\* Accepted sample gains, a bounded part of [1e-6, 1e3] in eighths.
MaxSampleGain == 8000

\* Accepted amplitudes: ]0, 1] of the DAC full scale, in eighths.
AmplitudeRange == 1 .. Unit

\* +/-1 V of the ADC, and the +/-10.5 V rail of the board, at each stage.
DriveFullScale == 64
AdcFullScale == 4096
DriveRail == 672
AdcRail == 43008

Clip(peak, rail) == IF peak > rail THEN rail ELSE peak

\* Peak the board drives towards the AFM, in 1/64 V (DAC_FULL_SCALE is 1 V).
BoardDrivePeak(amplitude, exciteGain) == Clip(amplitude * exciteGain, DriveRail)

\* Peak at the ADC, in 1/4096 V: both gain stages clip at the board rail.
EstimateAdcPeak(amplitude, exciteGain, returnGain, sampleGain) ==
  Clip((BoardDrivePeak(amplitude, exciteGain) * sampleGain) * returnGain, AdcRail)

IsOverdrive(amplitude, exciteGain, returnGain, sampleGain) ==
  EstimateAdcPeak(amplitude, exciteGain, returnGain, sampleGain) > AdcFullScale

IsDirectOverdrive(amplitude, gain) == BoardDrivePeak(amplitude, gain) > DriveFullScale

(***************************************************************************)
(* The searches for a gain to suggest walk up the table and stop at the    *)
(* first setting that overdrives: what they can return is every setting    *)
(* below which nothing overdrives, and they return the highest of those.   *)
(***************************************************************************)
SafePrefix(overdriving) == {g \in GainTable : \A h \in overdriving : g < h}

\* Mutant: the search returns the setting it stops at.
SafeReturnGains_OffByOne(amplitude, exciteGain, sampleGain) ==
  {g \in GainTable : \A h \in GainTable :
     h < g => ~IsOverdrive(amplitude, exciteGain, h, sampleGain)}

SafeReturnGains(amplitude, exciteGain, sampleGain) ==
  SafePrefix({g \in GainTable : IsOverdrive(amplitude, exciteGain, g, sampleGain)})

SafeExciteGains(amplitude, returnGain, sampleGain) ==
  SafePrefix({g \in GainTable : IsOverdrive(amplitude, g, returnGain, sampleGain)})

SafeDirectGains(amplitude) ==
  SafePrefix({g \in GainTable : IsDirectOverdrive(amplitude, g)})

Highest(gains) == CHOOSE g \in gains : \A h \in gains : h <= g

\* _loopPeak: the peak of an excitation on input `excite` coming back through
\* input `ret`.  An excited input routed straight to the ADC passes one gain
\* stage and not the sample.
LoopPeak(gain, amplitude, excite, ret, sampleGain) ==
  IF excite = ret
  THEN (AdcFullScale \div DriveFullScale) * BoardDrivePeak(amplitude, gain[excite])
  ELSE EstimateAdcPeak(amplitude, gain[excite], gain[ret], sampleGain)
=============================================================================
