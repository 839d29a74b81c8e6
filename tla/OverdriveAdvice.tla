-------------------------- MODULE OverdriveAdvice --------------------------
(***************************************************************************)
(* A MEASURE refused for ADC overdrive names a way out: a gain to set, an  *)
(* amplitude not to exceed, or both (_describeOverdrive).  Here a user who *)
(* is refused does what the server suggests, sends the measurement again,  *)
(* and so on.  The board acknowledges every command; what happens when it  *)
(* does not is the subject of CommandHandler.                              *)
(***************************************************************************)
EXTENDS InputSafety

CONSTANTS NumInputs,        \* board inputs, IElectronicBoard::NUM_CHANNELS
          AskedAmplitudes,  \* excitation amplitudes tried, in eighths
          DeclaredGains     \* declared sample gains, in eighths

AdviceAssumption ==
  /\ NumInputs \in Nat \ {0}
  /\ AskedAmplitudes \subseteq AmplitudeRange
  /\ DeclaredGains \subseteq 1 .. MaxSampleGain

ASSUME AdviceAssumption

VARIABLES gains,       \* m_channelGains: what the server takes the gains to be
          asked,       \* amplitude of the MEASURE the user repeats
          declared,    \* adcSampleGain
          excited,     \* estimate.exciteChannel
          routeKnown,  \* estimate.returnKnown
          routedTo     \* the input returning to the ADC, when known

adviceVars == <<gains, asked, declared, excited, routeKnown, routedTo>>

BoardInputs == 0 .. NumInputs - 1

\* The routing only matters, and is only unknown, in the AUTO loop mode, which
\* excites InputSafety::DAC_LINK_INPUT.
LinkInput == 0

Peak(ret) == LoopPeak(gains, asked, excited, ret, declared)

\* Unknown routing: the highest peak, the last input among equals.
WorstInput ==
  CHOOSE c \in BoardInputs : \A d \in BoardInputs :
    Peak(d) < Peak(c) \/ (Peak(d) = Peak(c) /\ d <= c)

Return == IF routeKnown THEN routedTo ELSE WorstInput

Refused == Peak(Return) > AdcFullScale

(***************************************************************************)
(* _describeOverdrive.  An amplitude is suggested in 1/10000 of the DAC    *)
(* full scale, rounded down; NoGain and NoAmplitude stand for an advice    *)
(* that does not mention one.                                              *)
(***************************************************************************)
NoGain == 0
NoAmplitude == 10001

MaxAmplitude ==
  IF excited = Return
  THEN (10000 * Unit) \div gains[excited]
  ELSE (10000 * Unit * Unit * Unit) \div (gains[excited] * declared * gains[Return])

\* Mutant: the gain found for the return input is given to the excited one.
Advice_WrongChannel ==
  LET ofReturn == SafeReturnGains(asked, gains[excited], declared)
  IN  IF ofReturn # {}
      THEN [channel |-> excited, gain |-> Highest(ofReturn), amplitude |-> NoAmplitude]
      ELSE [channel |-> excited, gain |-> NoGain, amplitude |-> MaxAmplitude]

Advice ==
  LET ret        == Return
      ofReturn   == SafeReturnGains(asked, gains[excited], declared)
      ofExcite   == SafeExciteGains(asked, gains[ret], declared)
      ofDirect   == SafeDirectGains(asked)
      Suggest(c, g, a) == [channel |-> c, gain |-> g, amplitude |-> a]
  IN  IF excited = ret
      THEN IF ofDirect # {} THEN Suggest(excited, Highest(ofDirect), MaxAmplitude)
                            ELSE Suggest(excited, NoGain, MaxAmplitude)
      ELSE IF ofReturn # {} THEN Suggest(ret, Highest(ofReturn), NoAmplitude)
      ELSE IF ofExcite # {} THEN Suggest(excited, Highest(ofExcite), MaxAmplitude)
                            ELSE Suggest(excited, NoGain, MaxAmplitude)

-----------------------------------------------------------------------------
AdviceInit ==
  /\ gains \in [BoardInputs -> GainTable]
  /\ asked \in AskedAmplitudes
  /\ declared \in DeclaredGains
  /\ routeKnown \in BOOLEAN
  /\ excited \in IF routeKnown THEN BoardInputs ELSE {LinkInput}
  /\ routedTo \in IF routeKnown THEN BoardInputs ELSE {LinkInput}

\* BOARD:GAIN as suggested, acknowledged by the board.
FollowGainAdvice ==
  /\ Refused
  /\ Advice.gain # NoGain
  /\ gains' = [gains EXCEPT ![Advice.channel] = Advice.gain]
  /\ UNCHANGED <<asked, declared, excited, routeKnown, routedTo>>

AdviceNext == FollowGainAdvice

AdviceSpec == AdviceInit /\ [][AdviceNext]_adviceVars /\ WF_adviceVars(AdviceNext)

-----------------------------------------------------------------------------
\* With the return input known, one suggested BOARD:GAIN is enough: the same
\* MEASURE is then accepted (_describeOverdrive against _checkAdcProtection).
OneGainIsEnough == [][FollowGainAdvice /\ routeKnown => ~Refused']_adviceVars

\* The searches go up the table and the amplitude stays the same, yet the gain
\* suggested is always below the one in force: advice never makes it louder.
AdviceLowersGain ==
  [][\A c \in BoardInputs : gains'[c] <= gains[c]]_gains

\* Following a suggestion helps, and never makes the next one necessary.
AdviceHelps == OneGainIsEnough /\ AdviceLowersGain

\* With the routing unknown the server names one input at a time, the one that
\* is worst now.  Doing as told again and again ends: the measurement is
\* accepted, or only its amplitude is left to reduce.
AdviceSettles == <>[](~Refused \/ Advice.gain = NoGain)

\* The README promises a refusal "with a suggested gain or amplitude".  An
\* amplitude the server suggests is one its own _validateAmplitude accepts.
SuggestedAmplitudeIsAccepted ==
  Refused /\ Advice.amplitude # NoAmplitude => Advice.amplitude > 0
=============================================================================
