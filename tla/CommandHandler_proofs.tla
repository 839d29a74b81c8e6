------------------------ MODULE CommandHandler_proofs ------------------------
(***************************************************************************)
(* Proofs about the command handler, for any number of channels, any       *)
(* subset of the gains and every combination of faults, unless a theorem   *)
(* assumes the link reliable; and about the advice it gives with a refusal. *)
(***************************************************************************)
EXTENDS CommandHandler, OverdriveAdvice, TLAPS

-----------------------------------------------------------------------------
(* The estimate of InputSafety.h: a higher gain never gives a lower peak,   *)
(* the clipping included.  That is why x16 is the worst case, and why a     *)
(* cache that errs on the high side is safe.                                *)

\* Multiplying by a natural number keeps the order.
LEMMA ProductMonotone ==
  ASSUME NEW a \in Nat, NEW b \in Nat, NEW c \in Nat, NEW d \in Nat,
         a <= b, c <= d
  PROVE  a * c <= b * d
<1>1. a * c <= b * c
  <2>1. PICK k \in Nat : b = a + k
    BY b - a \in Nat, b = a + (b - a)
  <2>2. b * c = a * c + k * c
    BY <2>1
  <2>3. k * c >= 0
    BY <2>1
  <2>. QED  BY <2>2, <2>3
<1>2. b * c <= b * d
  <2>1. PICK k \in Nat : d = c + k
    BY d - c \in Nat, d = c + (d - c)
  <2>2. b * d = b * c + b * k
    BY <2>1
  <2>3. b * k >= 0
    BY <2>1
  <2>. QED  BY <2>2, <2>3
<1>. QED  BY <1>1, <1>2

LEMMA ProductNatural ==
  ASSUME NEW a \in Nat, NEW b \in Nat
  PROVE  a * b \in Nat
OBVIOUS

\* Clipping at a rail keeps the order, and naturals.
LEMMA ClipMonotone ==
  ASSUME NEW p \in Nat, NEW q \in Nat, NEW rail \in Nat, p <= q
  PROVE  /\ Clip(p, rail) \in Nat
         /\ Clip(q, rail) \in Nat
         /\ Clip(p, rail) <= Clip(q, rail)
BY DEF Clip

\* boardDrivePeak never falls when the gain rises.
LEMMA BoardDrivePeakMonotone ==
  ASSUME NEW a \in Nat, NEW g \in Nat, NEW h \in Nat, g <= h
  PROVE  /\ BoardDrivePeak(a, g) \in Nat
         /\ BoardDrivePeak(a, h) \in Nat
         /\ BoardDrivePeak(a, g) <= BoardDrivePeak(a, h)
<1>1. a * g \in Nat /\ a * h \in Nat
  BY ProductNatural
<1>2. a * g <= a * h
  BY ProductMonotone
<1>3. DriveRail \in Nat
  BY DEF DriveRail
<1>. QED  BY <1>1, <1>2, <1>3, ClipMonotone DEF BoardDrivePeak

\* estimateAdcPeak never falls when one of the two gains rises.
LEMMA EstimateAdcPeakMonotone ==
  ASSUME NEW a \in Nat, NEW s \in Nat,
         NEW g \in Nat, NEW h \in Nat, g <= h,
         NEW r \in Nat, NEW t \in Nat, r <= t
  PROVE  /\ EstimateAdcPeak(a, g, r, s) \in Nat
         /\ EstimateAdcPeak(a, h, t, s) \in Nat
         /\ EstimateAdcPeak(a, g, r, s) <= EstimateAdcPeak(a, h, t, s)
<1>. DEFINE low  == BoardDrivePeak(a, g) * s
            high == BoardDrivePeak(a, h) * s
<1>1. low \in Nat /\ high \in Nat /\ low <= high
  <2>1. /\ BoardDrivePeak(a, g) \in Nat
        /\ BoardDrivePeak(a, h) \in Nat
        /\ BoardDrivePeak(a, g) <= BoardDrivePeak(a, h)
    BY BoardDrivePeakMonotone
  <2>. QED  BY <2>1, s <= s, ProductMonotone, ProductNatural
<1>. HIDE DEF low, high
<1>2. low * r \in Nat /\ high * t \in Nat
  BY <1>1, ProductNatural
<1>3. low * r <= high * t
  BY <1>1, ProductMonotone
<1>4. AdcRail \in Nat
  BY DEF AdcRail
<1>5. /\ Clip(low * r, AdcRail) \in Nat
      /\ Clip(high * t, AdcRail) \in Nat
      /\ Clip(low * r, AdcRail) <= Clip(high * t, AdcRail)
  BY <1>2, <1>3, <1>4, ClipMonotone
<1>. QED  BY <1>5 DEF EstimateAdcPeak, low, high

\* _loopPeak: raising any gain never lowers the peak of a loop.
THEOREM LoopPeakMonotone ==
  ASSUME NEW Channels,
         NEW low \in [Channels -> Nat], NEW high \in [Channels -> Nat],
         \A i \in Channels : low[i] <= high[i],
         NEW a \in Nat, NEW s \in Nat,
         NEW excite \in Channels, NEW ret \in Channels
  PROVE  /\ LoopPeak(low, a, excite, ret, s) \in Nat
         /\ LoopPeak(high, a, excite, ret, s) \in Nat
         /\ LoopPeak(low, a, excite, ret, s) <= LoopPeak(high, a, excite, ret, s)
<1>1. CASE excite = ret
  <2>1. AdcFullScale \div DriveFullScale = 64
    BY DEF AdcFullScale, DriveFullScale
  <2>2. /\ BoardDrivePeak(a, low[excite]) \in Nat
        /\ BoardDrivePeak(a, high[excite]) \in Nat
        /\ BoardDrivePeak(a, low[excite]) <= BoardDrivePeak(a, high[excite])
    BY BoardDrivePeakMonotone
  <2>. QED  BY <1>1, <2>1, <2>2 DEF LoopPeak
<1>2. CASE excite # ret
  <2>1. /\ EstimateAdcPeak(a, low[excite], low[ret], s) \in Nat
        /\ EstimateAdcPeak(a, high[excite], high[ret], s) \in Nat
        /\ EstimateAdcPeak(a, low[excite], low[ret], s)
             <= EstimateAdcPeak(a, high[excite], high[ret], s)
    BY EstimateAdcPeakMonotone
  <2>. QED  BY <1>2, <2>1 DEF LoopPeak
<1>. QED  BY <1>1, <1>2

-----------------------------------------------------------------------------
(* The states *)

Boards == [gain : [Inputs -> Gains], route : [Outputs -> Routes]]

Caches == [gain : [Inputs -> Gains], route : [Outputs -> Routes],
           known : [Outputs -> BOOLEAN]]

LEMMA GainsInTable ==
  /\ Gains \subseteq Nat
  /\ \A g \in Gains : 0 < g /\ g <= Gain16
  /\ Gain1 \in Gains
  /\ Gain16 \in Gains
BY CommandHandlerAssumption DEF CommandHandlerAssumption, GainTable, Gain1, Gain16

LEMMA FreshStatusType ==
  ASSUME NEW mode \in Modes
  PROVE  FreshStatus(mode) \in Statuses
BY CommandHandlerAssumption DEF CommandHandlerAssumption, FreshStatus, Statuses

LEMMA DefaultsType ==
  /\ DefaultBoard \in Boards
  /\ ResetCache \in Caches
BY GainsInTable DEF DefaultBoard, ResetCache, Boards, Caches, Routes

LEMMA IdleType ==
  Idle \in Tasks
BY DEF Idle, Tasks

LEMMA OverdriveBoolean ==
  ASSUME NEW st, NEW c, NEW a
  PROVE  PredictedOverdrive(st, c, a) \in BOOLEAN
BY DEF PredictedOverdrive

\* A reply with or without warning keeps the types.
LEMMA ReplyWithWarningType ==
  ASSUME NEW st \in Statuses, NEW c \in Caches, ReplyWithWarning(st, c)
  PROVE  status' \in Statuses /\ cache' \in Caches /\ reply' \in Replies
<1>1. PredictedOverdrive(st, c, lastAmplitude) \in BOOLEAN
  BY OverdriveBoolean
<1>. QED  BY <1>1 DEF ReplyWithWarning, Statuses, Replies

LEMMA TypeOKParts ==
  TypeOK <=>
    /\ link \in Links
    /\ status \in Statuses
    /\ objects \in [hardware : BOOLEAN, board : {"null", "open", "closed"},
                    signalGen : BOOLEAN, fftProcessor : BOOLEAN]
    /\ cache \in Caches
    /\ lastAmplitude \in Amplitudes
    /\ task \in Tasks
    /\ reply \in Replies
    /\ board \in Boards
BY DEF TypeOK, Caches, Boards

-----------------------------------------------------------------------------
\* Boards and caches after an exchange, whatever became of it.
LEMMA AfterExchange ==
  ASSUME TypeOK, NEW new \in Boards, Acknowledged(new) \/ Unacknowledged(new)
  PROVE  board' \in Boards
BY TypeOKParts DEF Acknowledged, Unacknowledged

LEMMA InitType == Init => TypeOK
<1>. SUFFICES ASSUME Init PROVE TypeOK
  OBVIOUS
<1>1. status \in Statuses
  BY FreshStatusType DEF Init
<1>2. cache \in Caches
  BY DefaultsType DEF Init
<1>3. objects \in [hardware : BOOLEAN, board : {"null", "open", "closed"},
                   signalGen : BOOLEAN, fftProcessor : BOOLEAN]
  BY DEF Init, NoObjects
<1>4. lastAmplitude \in Amplitudes
  BY CommandHandlerAssumption DEF CommandHandlerAssumption, Init
<1>5. reply \in Replies /\ board \in Boards
  BY DEF Init, Replies, Boards
<1>. QED  BY <1>1, <1>2, <1>3, <1>4, <1>5, IdleType, TypeOKParts DEF Init

\* One step from any typed state ends in a typed state: a lemma per family of
\* actions.
LEMMA RepliesType ==
  ASSUME TypeOK, Reject \/ Query \/ SystStatus, UNCHANGED link
  PROVE  TypeOK'
<1>1. CASE Reject
  BY <1>1, TypeOKParts DEF Reject, RejectArguments, RejectNotInitialized,
     RejectNoBoard, ReplyOnly, TypeOK, Replies
<1>2. CASE Query
  BY <1>2 DEF Query, ReplyOnly, TypeOK, Replies
<1>3. CASE SystStatus
  <2>1. PredictedOverdrive(status, cache, lastAmplitude) \in BOOLEAN
    BY OverdriveBoolean
  <2>. QED  BY <1>3, <2>1 DEF SystStatus, TypeOK, Statuses, Replies
<1>. QED  BY <1>1, <1>2, <1>3

LEMMA LifecycleType ==
  ASSUME TypeOK, Lifecycle, UNCHANGED link
  PROVE  TypeOK'
<1>1. CASE Rst
  <2>1. status' \in Statuses
    BY <1>1, FreshStatusType DEF Rst, TypeOK, Statuses
  <2>2. cache' \in Caches
    BY <1>1, DefaultsType DEF Rst
  <2>3. lastAmplitude' \in Amplitudes
    BY <1>1, CommandHandlerAssumption DEF CommandHandlerAssumption, Rst
  <2>. QED  BY <1>1, <2>1, <2>2, <2>3 DEF Rst, TypeOK, NoObjects, Replies, Caches
<1>2. CASE SystInitAlreadyDone
  BY <1>2 DEF SystInitAlreadyDone, ReplyOnly, TypeOK, Replies
<1>3. CASE SystInitHardwareFails
  BY <1>3 DEF SystInitHardwareFails, TypeOK, Replies
<1>4. ASSUME NEW connected \in BOOLEAN, SystInitStart(connected)
      PROVE  TypeOK'
  <2>1. status' \in Statuses
    BY <1>4, CommandHandlerAssumption
    DEF CommandHandlerAssumption, SystInitStart, TypeOK, Statuses
  <2>2. task' \in Tasks
    <3>1. [Idle EXCEPT !.at = "initGains"] \in Tasks
      BY DEF Idle, Tasks
    <3>. QED  BY <1>4, <3>1, IdleType DEF SystInitStart
  <2>3. objects' \in [hardware : BOOLEAN, board : {"null", "open", "closed"},
                      signalGen : BOOLEAN, fftProcessor : BOOLEAN]
    BY <1>4 DEF SystInitStart, TypeOK
  <2>. QED  BY <1>4, <2>1, <2>2, <2>3 DEF SystInitStart, TypeOK, Replies
<1>5. CASE SystDeinit
  BY <1>5 DEF SystDeinit, TypeOK, Statuses, Replies
<1>. QED  BY <1>1, <1>2, <1>3, <1>4, <1>5 DEF Lifecycle

LEMMA BoardCommandType ==
  ASSUME TypeOK, BoardCommand, UNCHANGED link
  PROVE  TypeOK'
<1>0. status \in Statuses /\ cache \in Caches /\ board \in Boards
  BY TypeOKParts
<1>1. ASSUME NEW o \in Outputs, NEW r \in Routes,
             \/ /\ Acknowledged(RouteTo(o, r))
                /\ ReplyWithWarning(status, [cache EXCEPT !.route[o] = r,
                                                          !.known[o] = TRUE])
                /\ UNCHANGED <<objects, lastAmplitude, task>>
             \/ /\ Unacknowledged(RouteTo(o, r))
                /\ ReplyOnly("hardware")
      PROVE  TypeOK'
  <2>1. RouteTo(o, r) \in Boards
    BY <1>0 DEF Boards, RouteTo
  <2>2. board' \in Boards
    BY <1>1, <2>1, AfterExchange
  <2>3. [cache EXCEPT !.route[o] = r, !.known[o] = TRUE] \in Caches
    BY <1>0 DEF Caches
  <2>4. CASE ReplyOnly("hardware")
    BY <2>2, <2>4 DEF ReplyOnly, TypeOK, Boards, Replies
  <2>5. CASE /\ ReplyWithWarning(status, [cache EXCEPT !.route[o] = r,
                                                       !.known[o] = TRUE])
             /\ UNCHANGED <<objects, lastAmplitude, task>>
    <3>1. status' \in Statuses /\ cache' \in Caches /\ reply' \in Replies
      BY <1>0, <2>3, <2>5, ReplyWithWarningType
    <3>. QED  BY <2>2, <2>5, <3>1 DEF TypeOK, Boards, Caches
  <2>. QED  BY <1>1, <2>4, <2>5
<1>2. ASSUME NEW i \in Inputs, NEW g \in Gains, BoardGain(i, g)
      PROVE  TypeOK'
  <2>1. GainTo(i, g) \in Boards
    BY <1>0 DEF Boards, GainTo
  <2>2. board' \in Boards
    BY <1>2, <2>1, AfterExchange DEF BoardGain
  <2>3. [cache EXCEPT !.gain[i] = g] \in Caches
    BY <1>0 DEF Caches
  <2>4. CASE ReplyOnly("hardware")
    BY <2>2, <2>4 DEF ReplyOnly, TypeOK, Boards, Replies
  <2>5. CASE /\ ReplyWithWarning(status, [cache EXCEPT !.gain[i] = g])
             /\ UNCHANGED <<objects, lastAmplitude, task>>
    <3>1. status' \in Statuses /\ cache' \in Caches /\ reply' \in Replies
      BY <1>0, <2>3, <2>5, ReplyWithWarningType
    <3>. QED  BY <2>2, <2>5, <3>1 DEF TypeOK, Boards, Caches
  <2>. QED  BY <1>2, <2>4, <2>5 DEF BoardGain
<1>3. CASE BoardReset
  <2>1. board' \in Boards
    BY <1>3, DefaultsType, AfterExchange DEF BoardReset
  <2>2. CASE ReplyOnly("hardware")
    BY <2>1, <2>2 DEF ReplyOnly, TypeOK, Boards, Replies
  <2>3. CASE /\ ReplyWithWarning(status, ResetCache)
             /\ UNCHANGED <<objects, lastAmplitude, task>>
    <3>1. status' \in Statuses /\ cache' \in Caches /\ reply' \in Replies
      BY <1>0, DefaultsType, <2>3, ReplyWithWarningType
    <3>. QED  BY <2>1, <2>3, <3>1 DEF TypeOK, Boards, Caches
  <2>. QED  BY <1>3, <2>2, <2>3 DEF BoardReset
<1>4. CASE BoardStatus
  <2>1. CASE ReplyOnly("hardware") /\ UNCHANGED board
    BY <2>1 DEF ReplyOnly, TypeOK, Replies
  <2>2. ASSUME NEW gs, NEW rs,
               cache' = [gain  |-> [i \in Inputs |-> IF i \in gs THEN board.gain[i]
                                                     ELSE cache.gain[i]],
                         route |-> [o \in Outputs |-> IF o \in rs THEN board.route[o]
                                                      ELSE cache.route[o]],
                         known |-> [o \in Outputs |-> o \in rs \/ cache.known[o]]]
        PROVE  cache' \in Caches
    BY <1>0, <2>2 DEF Caches, Boards
  <2>3. CASE cache' \in Caches /\ reply' = "text"
             /\ UNCHANGED <<status, objects, lastAmplitude, task, board>>
    BY <2>3 DEF TypeOK, Caches, Replies
  <2>. QED  BY <1>4, <2>1, <2>2, <2>3 DEF BoardStatus
<1>5. ASSUME NEW o \in Outputs, NEW i \in Inputs, BoardMuxRoute(o, i)
      PROVE  TypeOK'
  BY <1>1, <1>5 DEF BoardMuxRoute, Routes
<1>6. ASSUME NEW o \in Outputs, BoardMuxDisconnect(o)
      PROVE  TypeOK'
  BY <1>1, <1>6 DEF BoardMuxDisconnect, Routes
<1>. QED  BY <1>2, <1>3, <1>4, <1>5, <1>6 DEF BoardCommand

LEMMA AdcCommandType ==
  ASSUME TypeOK, AdcCommand, UNCHANGED link
  PROVE  TypeOK'
<1>0. status \in Statuses /\ cache \in Caches
  BY TypeOKParts
<1>1. ASSUME NEW st \in Statuses, ReplyWithWarning(st, cache),
             UNCHANGED <<objects, lastAmplitude, task, board>>
      PROVE  TypeOK'
  <2>1. status' \in Statuses /\ cache' \in Caches /\ reply' \in Replies
    BY <1>0, <1>1, ReplyWithWarningType
  <2>. QED  BY <1>1, <2>1 DEF TypeOK, Caches
<1>2. CASE BoardAdcLoopOff
  BY <1>2 DEF BoardAdcLoopOff, TypeOK, Statuses, Replies
<1>3. CASE BoardAdcLoopAuto
  <2>1. [status EXCEPT !.loopMode = "AUTO"] \in Statuses
    BY <1>0 DEF Statuses
  <2>. QED  BY <1>1, <1>3, <2>1 DEF BoardAdcLoopAuto
<1>4. ASSUME NEW excite \in Inputs, NEW ret \in Inputs,
             BoardAdcLoopManual(excite, ret)
      PROVE  TypeOK'
  <2>1. [status EXCEPT !.loopMode = "MANUAL",
                       !.loopExciteChannel = excite,
                       !.loopReturnChannel = ret] \in Statuses
    BY <1>0 DEF Statuses
  <2>. QED  BY <1>1, <1>4, <2>1 DEF BoardAdcLoopManual
<1>5. ASSUME NEW on \in BOOLEAN, BoardAdcProtect(on)
      PROVE  TypeOK'
  <2>1. [status EXCEPT !.adcProtectEnabled = on] \in Statuses
    BY <1>0 DEF Statuses
  <2>. QED  BY <1>1, <1>5, <2>1 DEF BoardAdcProtect
<1>6. ASSUME NEW factor \in SampleGains, BoardAdcSampleGain(factor)
      PROVE  TypeOK'
  <2>1. [status EXCEPT !.adcSampleGain = factor] \in Statuses
    BY <1>0 DEF Statuses
  <2>. QED  BY <1>1, <1>6, <2>1 DEF BoardAdcSampleGain
<1>. QED  BY <1>2, <1>3, <1>4, <1>5, <1>6 DEF AdcCommand

LEMMA MeasureType ==
  ASSUME TypeOK, Measure, UNCHANGED link
  PROVE  TypeOK'
<1>1. ASSUME NEW amplitude \in Amplitudes, MeasureRefused(amplitude)
      PROVE  TypeOK'
  BY <1>1 DEF MeasureRefused, ReplyOnly, TypeOK, Replies
<1>2. ASSUME NEW amplitude \in Amplitudes, MeasureDecimationFails(amplitude)
      PROVE  TypeOK'
  BY <1>2 DEF MeasureDecimationFails, ReplyOnly, TypeOK, Replies
<1>3. ASSUME NEW sweep \in BOOLEAN, NEW points \in 1 .. MaxPoints,
             NEW amplitude \in Amplitudes, NEW decimation \in Decimations,
             MeasureAdmitted(sweep, points, amplitude, decimation)
      PROVE  TypeOK'
  <2>1. status' \in Statuses
    BY <1>3 DEF MeasureAdmitted, TypeOK, Statuses
  <2>2. task' \in Tasks
    <3>1. points \in 1 .. MaxPoints /\ sweep \in BOOLEAN
      OBVIOUS
    <3>. QED  BY <1>3, <3>1 DEF MeasureAdmitted, Tasks
  <2>. QED  BY <1>3, <2>1, <2>2 DEF MeasureAdmitted, TypeOK, Replies
<1>. QED  BY <1>1, <1>2, <1>3 DEF Measure

LEMMA EndMeasureType ==
  ASSUME NEW st \in Statuses, NEW kind \in Replies, EndMeasure(st, kind)
  PROVE  /\ status' \in Statuses
         /\ task' \in Tasks
         /\ reply' \in Replies
BY IdleType DEF EndMeasure, Statuses

LEMMA ContinueType ==
  ASSUME TypeOK, Continue, UNCHANGED link
  PROVE  TypeOK'
<1>0. status \in Statuses /\ cache \in Caches /\ board \in Boards
  BY TypeOKParts
<1>1. CASE SystInitGains
  <2>1. PICK read : cache' = [cache EXCEPT
                   !.gain = [i \in Inputs |-> IF i \in read THEN board.gain[i]
                                              ELSE Gain16],
                   !.known = [o \in Outputs |-> FALSE]]
    BY <1>1 DEF SystInitGains
  <2>2. cache' \in Caches
    BY <1>0, <2>1, GainsInTable DEF Caches, Boards
  <2>3. task' \in Tasks
    BY <1>1 DEF SystInitGains, TypeOK, Tasks
  <2>4. UNCHANGED <<status, objects, lastAmplitude, reply, board>>
    BY <1>1 DEF SystInitGains
  <2>. QED  BY <2>2, <2>3, <2>4 DEF TypeOK, Caches
<1>2. CASE SystInitRouting
  <2>1. cache' \in Caches
    <3>1. CASE UNCHANGED cache
      BY <1>0, <3>1
    <3>2. ASSUME NEW read,
                 cache' = [cache EXCEPT
                      !.route = [o \in Outputs |-> IF o \in read THEN board.route[o]
                                                   ELSE Disconnected],
                      !.known = [o \in Outputs |-> o \in read]]
          PROVE  cache' \in Caches
      <4>. DEFINE route == [o \in Outputs |-> IF o \in read THEN board.route[o]
                                                        ELSE Disconnected]
                  known == [o \in Outputs |-> o \in read]
      <4>1. route \in [Outputs -> Routes]
        BY <1>0 DEF Boards, Routes
      <4>2. known \in [Outputs -> BOOLEAN]
        OBVIOUS
      <4>3. cache' = [cache EXCEPT !.route = route, !.known = known]
        BY <3>2
      <4>. HIDE DEF route, known
      <4>. QED  BY <1>0, <4>1, <4>2, <4>3 DEF Caches
    <3>. QED  BY <1>2, <3>1, <3>2 DEF SystInitRouting
  <2>2. status' \in Statuses
    BY <1>0, <1>2 DEF SystInitRouting, Statuses
  <2>3. task' = Idle /\ UNCHANGED <<objects, lastAmplitude, reply, board>>
    BY <1>2 DEF SystInitRouting
  <2>. QED  BY <2>1, <2>2, <2>3, IdleType DEF TypeOK, Caches
<1>3. CASE MeasurePointFails
  <2>1. PICK kind \in {"hardware", "timeout"} : EndMeasure(status, kind)
    BY <1>3 DEF MeasurePointFails
  <2>. QED  BY <1>0, <1>3, <2>1, EndMeasureType DEF MeasurePointFails, TypeOK, Replies
<1>4. CASE SweepCancelled
  BY <1>0, <1>4, EndMeasureType DEF SweepCancelled, TypeOK, Replies
<1>5. ASSUME NEW saturated \in BOOLEAN, MeasurePointDone(saturated)
      PROVE  TypeOK'
  <2>. DEFINE st == [status EXCEPT !.adcSaturated = saturated \/ (task.sweep /\ @)]
  <2>1. st \in Statuses
    BY <1>0 DEF Statuses
  <2>2. CASE task.left = 1
    <3>1. PICK kind \in {"data", "param"} : EndMeasure(st, kind)
      BY <1>5, <2>2 DEF MeasurePointDone
    <3>2. UNCHANGED <<objects, cache, lastAmplitude, board>>
      BY <1>5 DEF MeasurePointDone
    <3>. HIDE DEF st
    <3>. QED  BY <2>1, <3>1, <3>2, EndMeasureType DEF TypeOK, Replies
  <2>3. CASE task.left # 1
    <3>1. /\ status' = st
          /\ task' = [task EXCEPT !.left = @ - 1]
          /\ UNCHANGED <<reply, objects, cache, lastAmplitude, board>>
      BY <1>5, <2>3 DEF MeasurePointDone
    <3>. HIDE DEF st
    <3>2. task' \in Tasks
      <4>1. task \in [at : {"points"}, sweep : BOOLEAN, left : 1 .. MaxPoints]
        BY <1>5 DEF MeasurePointDone, TypeOK, Tasks
      <4>2. task.left - 1 \in 1 .. MaxPoints
        BY <2>3, <4>1, CommandHandlerAssumption DEF CommandHandlerAssumption
      <4>. QED  BY <3>1, <4>1, <4>2 DEF Tasks
    <3>. QED  BY <2>1, <3>1, <3>2 DEF TypeOK
  <2>. QED  BY <2>2, <2>3
<1>. QED  BY <1>1, <1>2, <1>3, <1>4, <1>5 DEF Continue

LEMMA EnvironmentType ==
  ASSUME TypeOK, Environment, UNCHANGED link
  PROVE  TypeOK'
<1>1. CASE BoardRestart
  BY <1>1, DefaultsType DEF BoardRestart, server, TypeOK, Boards
<1>2. CASE ServerRestart
  <2>1. status' \in Statuses /\ cache' \in Caches /\ lastAmplitude' \in Amplitudes
    BY <1>2, FreshStatusType, DefaultsType, CommandHandlerAssumption
    DEF CommandHandlerAssumption, ServerRestart, TypeOK, Statuses
  <2>. QED  BY <1>2, <2>1, IdleType DEF ServerRestart, TypeOK, Caches, NoObjects, Replies
<1>. QED  BY <1>1, <1>2 DEF Environment

LEMMA StepType ==
  ASSUME TypeOK, [Next]_<<link, vars>>
  PROVE  TypeOK'
<1>1. CASE UNCHANGED <<link, vars>>
  BY <1>1 DEF vars, TypeOK
<1>. QED
  BY <1>1, RepliesType, LifecycleType, BoardCommandType, AdcCommandType,
     MeasureType, ContinueType, EnvironmentType DEF Next

\* Every reachable state is typed, with every kind of fault (CommandHandler.h).
THEOREM TypeCorrect == Spec => []TypeOK
<1>1. Init => TypeOK
  BY InitType
<1>2. TypeOK /\ [Next]_<<link, vars>> => TypeOK'
  BY StepType
<1>. QED  BY <1>1, <1>2, PTL DEF Spec

\* The link stays what it is, with what the properties ask of it.
LEMMA LinkKept ==
  ASSUME [Next]_<<link, vars>>
  PROVE  /\ UNCHANGED link
         /\ ReliableLink => ReliableLink'
         /\ Undisturbed => Undisturbed'
<1>1. UNCHANGED link
  BY DEF Next
<1>. QED  BY <1>1 DEF ReliableLink, Undisturbed, Faults

-----------------------------------------------------------------------------
(***************************************************************************)
(* The cache covers the board.  By itself this is not inductive: when the  *)
(* second STATUS of SYSTEM:INIT fails, the handler goes on with whatever   *)
(* the routing cache holds, and it is the first half, which forgets every  *)
(* routing, that makes this safe.  RoutingUnread says so.                  *)
(***************************************************************************)
RoutingUnread == task.at = "initRouting" => \A o \in Outputs : ~cache.known[o]

\* What a step leads to: the cache covers the board, or the board has changed
\* unheard.
UnheardChange == ~ReliableLink /\ board' # board /\ UNCHANGED cache

\* A step of a handler that has nothing to do with what was read of the board:
\* nothing counts as read afterwards, or nothing more than before and neither
\* the cache nor the board has moved.
ReadsKept ==
  \/ ~GainsRead' /\ ~RoutingRead'
  \/ /\ UNCHANGED <<cache, board>>
     /\ GainsRead' => GainsRead
     /\ RoutingRead' => RoutingRead

LEMMA CoverKept ==
  ASSUME CacheCoversBoard, ReadsKept
  PROVE  CacheCoversBoard'
BY DEF CacheCoversBoard, ReadsKept

LEMMA NothingRead ==
  ASSUME ~status'.boardConnected
  PROVE  ReadsKept
BY DEF ReadsKept, GainsRead, RoutingRead

\* A handler that leaves lifecycle, cache and board alone.
LEMMA ReadsSame ==
  ASSUME UNCHANGED <<cache, board>>,
         status'.boardConnected = status.boardConnected,
         status'.hardwareInitialized = status.hardwareInitialized,
         task'.at # "initRouting" \/ UNCHANGED task
  PROVE  ReadsKept
BY DEF ReadsKept, GainsRead, RoutingRead

LEMMA RepliesKeepReads ==
  ASSUME TypeOK, Reject \/ Query \/ SystStatus \/ AdcCommand
  PROVE  ReadsKept
<1>0. status \in Statuses
  BY TypeOKParts
<1>1. CASE Reject \/ Query
  BY <1>1, ReadsSame DEF Reject, RejectArguments, RejectNotInitialized,
     RejectNoBoard, Query, ReplyOnly
<1>2. CASE SystStatus
  BY <1>0, <1>2, ReadsSame DEF SystStatus, Statuses
<1>3. ASSUME NEW st \in Statuses, ReplyWithWarning(st, cache),
             UNCHANGED <<objects, lastAmplitude, task, board>>,
             st.boardConnected = status.boardConnected,
             st.hardwareInitialized = status.hardwareInitialized
      PROVE  ReadsKept
  BY <1>3, ReadsSame DEF ReplyWithWarning, Statuses
<1>4. CASE BoardAdcLoopOff
  BY <1>0, <1>4, ReadsSame DEF BoardAdcLoopOff, Statuses
<1>5. CASE BoardAdcLoopAuto
  BY <1>0, <1>3, <1>5 DEF BoardAdcLoopAuto, Statuses
<1>6. ASSUME NEW excite \in Inputs, NEW ret \in Inputs,
             BoardAdcLoopManual(excite, ret)
      PROVE  ReadsKept
  BY <1>0, <1>3, <1>6 DEF BoardAdcLoopManual, Statuses
<1>7. ASSUME NEW on \in BOOLEAN, BoardAdcProtect(on)
      PROVE  ReadsKept
  BY <1>0, <1>3, <1>7 DEF BoardAdcProtect, Statuses
<1>8. ASSUME NEW factor \in SampleGains, BoardAdcSampleGain(factor)
      PROVE  ReadsKept
  BY <1>0, <1>3, <1>8 DEF BoardAdcSampleGain, Statuses
<1>. QED  BY <1>1, <1>2, <1>4, <1>5, <1>6, <1>7, <1>8 DEF AdcCommand

LEMMA LifecycleKeepsReads ==
  ASSUME TypeOK, Lifecycle
  PROVE  ReadsKept
<1>0. status \in Statuses
  BY TypeOKParts
<1>1. CASE Rst
  BY <1>1, NothingRead DEF Rst, FreshStatus
<1>2. CASE SystInitAlreadyDone
  BY <1>2, ReadsSame DEF SystInitAlreadyDone, ReplyOnly
<1>3. CASE SystInitHardwareFails
  BY <1>3, ReadsSame DEF SystInitHardwareFails
<1>4. ASSUME NEW connected \in BOOLEAN, SystInitStart(connected)
      PROVE  ReadsKept
  <2>1. /\ status'.boardConnected = connected
        /\ status'.hardwareInitialized = ~connected
        /\ task'.at # "initRouting"
    BY <1>0, <1>4 DEF SystInitStart, Statuses, Idle
  <2>. QED  BY <2>1 DEF ReadsKept, GainsRead, RoutingRead
<1>5. CASE SystDeinit
  BY <1>0, <1>5, NothingRead DEF SystDeinit, Statuses
<1>. QED  BY <1>1, <1>2, <1>3, <1>4, <1>5 DEF Lifecycle

LEMMA MeasureKeepsReads ==
  ASSUME TypeOK, Measure
  PROVE  ReadsKept
<1>0. status \in Statuses
  BY TypeOKParts
<1>1. ASSUME NEW amplitude \in Amplitudes,
             MeasureRefused(amplitude) \/ MeasureDecimationFails(amplitude)
      PROVE  ReadsKept
  BY <1>1, ReadsSame DEF MeasureRefused, MeasureDecimationFails, ReplyOnly
<1>2. ASSUME NEW sweep \in BOOLEAN, NEW points \in 1 .. MaxPoints,
             NEW amplitude \in Amplitudes, NEW decimation \in Decimations,
             MeasureAdmitted(sweep, points, amplitude, decimation)
      PROVE  ReadsKept
  <2>1. /\ UNCHANGED <<cache, board>>
        /\ status'.boardConnected = status.boardConnected
        /\ status'.hardwareInitialized = status.hardwareInitialized
        /\ task'.at # "initRouting"
    BY <1>0, <1>2 DEF MeasureAdmitted, Statuses
  <2>. QED  BY <2>1, ReadsSame
<1>. QED  BY <1>1, <1>2 DEF Measure

\* The steps of a measurement.
Acquire ==
  \/ MeasurePointFails
  \/ SweepCancelled
  \/ \E saturated \in BOOLEAN : MeasurePointDone(saturated)

LEMMA AcquireKeepsReads ==
  ASSUME TypeOK, Acquire
  PROVE  ReadsKept
<1>0. status \in Statuses /\ task \in Tasks
  BY TypeOKParts
<1>1. ASSUME NEW st \in Statuses, NEW kind, EndMeasure(st, kind),
             UNCHANGED <<cache, board>>,
             st.boardConnected = status.boardConnected,
             st.hardwareInitialized = status.hardwareInitialized
      PROVE  ReadsKept
  <2>1. /\ status'.boardConnected = status.boardConnected
        /\ status'.hardwareInitialized = status.hardwareInitialized
        /\ task' = Idle
    BY <1>1 DEF EndMeasure, Statuses
  <2>. QED  BY <1>1, <2>1, ReadsSame DEF Idle
<1>2. CASE MeasurePointFails
  BY <1>0, <1>1, <1>2 DEF MeasurePointFails
<1>3. CASE SweepCancelled
  BY <1>0, <1>1, <1>3 DEF SweepCancelled
<1>4. ASSUME NEW saturated \in BOOLEAN, MeasurePointDone(saturated)
      PROVE  ReadsKept
  <2>. DEFINE st == [status EXCEPT !.adcSaturated = saturated \/ (task.sweep /\ @)]
  <2>1. /\ st \in Statuses
        /\ st.boardConnected = status.boardConnected
        /\ st.hardwareInitialized = status.hardwareInitialized
    BY <1>0 DEF Statuses
  <2>2. UNCHANGED <<cache, board>>
    BY <1>4 DEF MeasurePointDone
  <2>3. CASE task.left = 1
    <3>1. PICK kind : EndMeasure(st, kind)
      BY <1>4, <2>3 DEF MeasurePointDone
    <3>. HIDE DEF st
    <3>. QED  BY <1>1, <2>1, <2>2, <3>1
  <2>4. CASE task.left # 1
    <3>1. task' = [task EXCEPT !.left = @ - 1] /\ status' = st /\ task.at = "points"
      BY <1>4, <2>4 DEF MeasurePointDone
    <3>2. task'.at = "points"
      BY <1>0, <3>1 DEF Tasks
    <3>. HIDE DEF st
    <3>. QED  BY <2>1, <2>2, <3>1, <3>2, ReadsSame
  <2>. QED  BY <2>3, <2>4
<1>. QED  BY <1>2, <1>3, <1>4 DEF Acquire

\* The board does not answer a command.
LEMMA CoverUnacknowledged ==
  ASSUME CacheCoversBoard, NEW new, Unacknowledged(new), ReplyOnly("hardware")
  PROVE  CacheCoversBoard' \/ UnheardChange
<1>1. UNCHANGED <<status, cache, task>>
  BY DEF ReplyOnly
<1>2. CASE UNCHANGED board
  BY <1>1, <1>2, ReadsSame, CoverKept
<1>3. CASE board' # board
  BY <1>1, <1>3 DEF Unacknowledged, ReliableLink, UnheardChange
<1>. QED  BY <1>2, <1>3

LEMMA CoverBoardCommand ==
  ASSUME TypeOK, CacheCoversBoard, BoardCommand
  PROVE  CacheCoversBoard' \/ UnheardChange
<1>0. cache \in Caches /\ board \in Boards /\ status \in Statuses
  BY TypeOKParts
<1>1. BoardReady /\ task = Idle
  BY DEF BoardCommand, BoardMuxRoute, BoardMuxDisconnect, BoardGain, BoardReset,
     BoardStatus, BoardReady, Ready
<1>2. GainsRead /\ RoutingRead
  BY <1>1 DEF BoardReady, GainsRead, RoutingRead
<1>3. /\ \A i \in Inputs : cache.gain[i] \in {board.gain[i], Gain16}
      /\ \A o \in Outputs : cache.known[o] => cache.route[o] = board.route[o]
  BY <1>2 DEF CacheCoversBoard
<1>4. ASSUME NEW o \in Outputs, NEW r \in Routes,
             \/ /\ Acknowledged(RouteTo(o, r))
                /\ ReplyWithWarning(status, [cache EXCEPT !.route[o] = r,
                                                          !.known[o] = TRUE])
                /\ UNCHANGED <<objects, lastAmplitude, task>>
             \/ /\ Unacknowledged(RouteTo(o, r))
                /\ ReplyOnly("hardware")
      PROVE  CacheCoversBoard' \/ UnheardChange
  <2>1. CASE Unacknowledged(RouteTo(o, r)) /\ ReplyOnly("hardware")
    BY <2>1, CoverUnacknowledged
  <2>2. CASE /\ Acknowledged(RouteTo(o, r))
             /\ ReplyWithWarning(status, [cache EXCEPT !.route[o] = r,
                                                       !.known[o] = TRUE])
    <3>1. board' = [board EXCEPT !.route[o] = r]
      BY <2>2 DEF Acknowledged, RouteTo
    <3>2. cache' = [cache EXCEPT !.route[o] = r, !.known[o] = TRUE]
      BY <2>2 DEF ReplyWithWarning
    <3>3. \A i \in Inputs : cache'.gain[i] \in {board'.gain[i], Gain16}
      BY <1>0, <1>3, <3>1, <3>2 DEF Caches, Boards
    <3>4. \A p \in Outputs : cache'.known[p] => cache'.route[p] = board'.route[p]
      BY <1>0, <1>3, <3>1, <3>2 DEF Caches, Boards
    <3>. QED  BY <3>3, <3>4 DEF CacheCoversBoard
  <2>. QED  BY <1>4, <2>1, <2>2
<1>5. ASSUME NEW i \in Inputs, NEW g \in Gains, BoardGain(i, g)
      PROVE  CacheCoversBoard' \/ UnheardChange
  <2>1. CASE Unacknowledged(GainTo(i, g)) /\ ReplyOnly("hardware")
    BY <2>1, CoverUnacknowledged
  <2>2. CASE /\ Acknowledged(GainTo(i, g))
             /\ ReplyWithWarning(status, [cache EXCEPT !.gain[i] = g])
    <3>1. board' = [board EXCEPT !.gain[i] = g]
      BY <2>2 DEF Acknowledged, GainTo
    <3>2. cache' = [cache EXCEPT !.gain[i] = g]
      BY <2>2 DEF ReplyWithWarning
    <3>3. \A j \in Inputs : cache'.gain[j] \in {board'.gain[j], Gain16}
      BY <1>0, <1>3, <3>1, <3>2 DEF Caches, Boards
    <3>4. \A o \in Outputs : cache'.known[o] => cache'.route[o] = board'.route[o]
      BY <1>0, <1>3, <3>1, <3>2 DEF Caches, Boards
    <3>. QED  BY <3>3, <3>4 DEF CacheCoversBoard
  <2>. QED  BY <1>5, <2>1, <2>2 DEF BoardGain
<1>6. CASE BoardReset
  <2>1. CASE Unacknowledged(DefaultBoard) /\ ReplyOnly("hardware")
    BY <2>1, CoverUnacknowledged
  <2>2. CASE Acknowledged(DefaultBoard) /\ ReplyWithWarning(status, ResetCache)
    <3>1. board' = DefaultBoard /\ cache' = ResetCache
      BY <2>2 DEF Acknowledged, ReplyWithWarning
    <3>. QED  BY <3>1 DEF CacheCoversBoard, DefaultBoard, ResetCache
  <2>. QED  BY <1>6, <2>1, <2>2 DEF BoardReset
<1>7. CASE BoardStatus
  <2>1. CASE ReplyOnly("hardware") /\ UNCHANGED board
    BY <2>1, ReadsSame, CoverKept DEF ReplyOnly
  <2>2. ASSUME NEW gs, NEW rs, UNCHANGED board,
               cache' = [gain  |-> [i \in Inputs |-> IF i \in gs THEN board.gain[i]
                                                     ELSE cache.gain[i]],
                         route |-> [o \in Outputs |-> IF o \in rs THEN board.route[o]
                                                      ELSE cache.route[o]],
                         known |-> [o \in Outputs |-> o \in rs \/ cache.known[o]]]
        PROVE  CacheCoversBoard'
    <3>1. \A i \in Inputs : cache'.gain[i] \in {board'.gain[i], Gain16}
      BY <1>3, <2>2
    <3>2. \A o \in Outputs : cache'.known[o] => cache'.route[o] = board'.route[o]
      BY <1>3, <2>2
    <3>. QED  BY <3>1, <3>2 DEF CacheCoversBoard
  <2>. QED  BY <1>7, <2>1, <2>2 DEF BoardStatus
<1>8. ASSUME NEW o \in Outputs, NEW i \in Inputs, BoardMuxRoute(o, i)
      PROVE  CacheCoversBoard' \/ UnheardChange
  BY <1>4, <1>8 DEF BoardMuxRoute, Routes
<1>9. ASSUME NEW o \in Outputs, BoardMuxDisconnect(o)
      PROVE  CacheCoversBoard' \/ UnheardChange
  BY <1>4, <1>9 DEF BoardMuxDisconnect, Routes
<1>. QED  BY <1>5, <1>6, <1>7, <1>8, <1>9 DEF BoardCommand

LEMMA CoverInit ==
  ASSUME TypeOK, RoutingUnread, CacheCoversBoard, SystInitGains \/ SystInitRouting
  PROVE  CacheCoversBoard'
<1>0. cache \in Caches /\ board \in Boards /\ status \in Statuses /\ task \in Tasks
  BY TypeOKParts
<1>1. CASE SystInitGains
  <2>1. PICK read : cache' = [cache EXCEPT
                   !.gain = [i \in Inputs |-> IF i \in read THEN board.gain[i]
                                              ELSE Gain16],
                   !.known = [o \in Outputs |-> FALSE]]
    BY <1>1 DEF SystInitGains
  <2>2. UNCHANGED board
    BY <1>1 DEF SystInitGains
  <2>3. \A o \in Outputs : ~cache'.known[o]
    BY <1>0, <2>1 DEF Caches
  <2>4. \A i \in Inputs : cache'.gain[i] \in {board'.gain[i], Gain16}
    BY <1>0, <2>1, <2>2 DEF Caches
  <2>. QED  BY <2>3, <2>4 DEF CacheCoversBoard
<1>2. CASE SystInitRouting
  <2>1. /\ task.at = "initRouting" /\ task' = Idle /\ UNCHANGED board
        /\ status' = [status EXCEPT !.hardwareInitialized = TRUE]
    BY <1>2 DEF SystInitRouting
  <2>2. status'.boardConnected = status.boardConnected
    BY <1>0, <2>1 DEF Statuses
  <2>3. GainsRead' => \A i \in Inputs : cache.gain[i] \in {board.gain[i], Gain16}
    BY <2>1, <2>2 DEF CacheCoversBoard, GainsRead
  <2>4. CASE UNCHANGED cache
    BY <2>1, <2>3, <2>4 DEF CacheCoversBoard, RoutingUnread, Idle
  <2>5. ASSUME NEW read,
               cache' = [cache EXCEPT
                    !.route = [o \in Outputs |-> IF o \in read THEN board.route[o]
                                                 ELSE Disconnected],
                    !.known = [o \in Outputs |-> o \in read]]
        PROVE  CacheCoversBoard'
    <3>1. cache'.gain = cache.gain
      BY <1>0, <2>5 DEF Caches
    <3>2. \A o \in Outputs : cache'.known[o] => cache'.route[o] = board.route[o]
      BY <1>0, <2>5 DEF Caches
    <3>. QED  BY <2>1, <2>3, <3>1, <3>2 DEF CacheCoversBoard
  <2>. QED  BY <1>2, <2>4, <2>5 DEF SystInitRouting
<1>. QED  BY <1>1, <1>2

LEMMA CoverEnvironment ==
  ASSUME TypeOK, CacheCoversBoard, Environment
  PROVE  CacheCoversBoard' \/ UnheardChange
<1>1. CASE BoardRestart
  <2>1. UNCHANGED <<status, cache, task>> /\ ~ReliableLink
    BY <1>1 DEF BoardRestart, server, ReliableLink
  <2>2. CASE UNCHANGED board
    BY <2>1, <2>2, ReadsSame, CoverKept
  <2>. QED  BY <2>1, <2>2 DEF UnheardChange
<1>2. CASE ServerRestart
  BY <1>2, NothingRead, CoverKept DEF ServerRestart, FreshStatus
<1>. QED  BY <1>1, <1>2 DEF Environment

\* Any step, with any fault.
LEMMA CoverStep ==
  ASSUME TypeOK, RoutingUnread, CacheCoversBoard, [Next]_<<link, vars>>
  PROVE  CacheCoversBoard' \/ UnheardChange
<1>1. CASE UNCHANGED <<link, vars>>
  BY <1>1, ReadsSame, CoverKept DEF vars
<1>. QED
  BY <1>1, CoverKept, RepliesKeepReads, LifecycleKeepsReads, MeasureKeepsReads,
     AcquireKeepsReads, CoverBoardCommand, CoverInit, CoverEnvironment
  DEF Next, Continue, Acquire

\* SYSTEM:INIT reads the routing only after it has forgotten every routing.
LEMMA RoutingUnreadStep ==
  ASSUME TypeOK, RoutingUnread, [Next]_<<link, vars>>
  PROVE  RoutingUnread'
<1>0. cache \in Caches /\ task \in Tasks
  BY TypeOKParts
<1>1. CASE UNCHANGED <<task, cache>>
  BY <1>1 DEF RoutingUnread
<1>2. CASE task'.at # "initRouting"
  BY <1>2 DEF RoutingUnread
<1>3. CASE SystInitGains
  BY <1>0, <1>3 DEF SystInitGains, RoutingUnread, Caches
<1>4. Idle.at # "initRouting"
  BY DEF Idle
<1>5. task = Idle /\ UNCHANGED task => task'.at # "initRouting"
  BY <1>4
<1>6. CASE UNCHANGED <<link, vars>>
  BY <1>1, <1>6 DEF vars
<1>7. CASE Reject \/ Query \/ SystStatus
  BY <1>1, <1>7 DEF Reject, RejectArguments, RejectNotInitialized, RejectNoBoard,
     Query, SystStatus, ReplyOnly
<1>8. CASE Lifecycle
  <2>1. ASSUME NEW connected \in BOOLEAN, SystInitStart(connected)
        PROVE  RoutingUnread'
    BY <1>2, <1>4, <2>1 DEF SystInitStart, Idle
  <2>. QED  BY <1>1, <1>2, <1>5, <1>8, <2>1 DEF Lifecycle, Rst, SystInitAlreadyDone,
       SystInitHardwareFails, SystDeinit, ReplyOnly, Ready
<1>9. CASE BoardCommand \/ AdcCommand
  BY <1>2, <1>5, <1>9 DEF BoardCommand, BoardMuxRoute, BoardMuxDisconnect, BoardGain,
     BoardReset, BoardStatus, AdcCommand, BoardAdcLoopOff, BoardAdcLoopAuto,
     BoardAdcLoopManual, BoardAdcProtect, BoardAdcSampleGain, BoardReady, Ready,
     ReplyOnly
<1>10. CASE Measure
  <2>1. ASSUME NEW sweep, NEW points, NEW amplitude, NEW decimation,
               MeasureAdmitted(sweep, points, amplitude, decimation)
        PROVE  RoutingUnread'
    BY <1>2, <2>1 DEF MeasureAdmitted
  <2>. QED  BY <1>1, <1>10, <2>1 DEF Measure, MeasureRefused, MeasureDecimationFails,
       ReplyOnly
<1>11. CASE Continue /\ ~SystInitGains
  <2>1. ASSUME NEW st, NEW kind, EndMeasure(st, kind)
        PROVE  RoutingUnread'
    BY <1>2, <1>4, <2>1 DEF EndMeasure
  <2>2. ASSUME NEW saturated \in BOOLEAN, MeasurePointDone(saturated)
        PROVE  RoutingUnread'
    <3>1. CASE task' = [task EXCEPT !.left = @ - 1] /\ task.at = "points"
      BY <1>0, <1>2, <3>1 DEF Tasks
    <3>. QED  BY <2>1, <2>2, <3>1 DEF MeasurePointDone
  <2>3. CASE SystInitRouting
    BY <1>2, <1>4, <2>3 DEF SystInitRouting
  <2>. QED  BY <1>11, <2>1, <2>2, <2>3 DEF Continue, MeasurePointFails, SweepCancelled
<1>12. CASE Environment
  BY <1>1, <1>2, <1>4, <1>12 DEF Environment, BoardRestart, ServerRestart, server
<1>. QED  BY <1>3, <1>6, <1>7, <1>8, <1>9, <1>10, <1>11, <1>12 DEF Next

LEMMA InitCover == Init => RoutingUnread /\ CacheCoversBoard
BY DEF Init, RoutingUnread, Idle, CacheCoversBoard, GainsRead, RoutingRead, FreshStatus

\* On a link that hides nothing, the cache covers the board in every state.
THEOREM CacheAlwaysCovers == ReliableLink /\ Spec => []CacheCoversBoard
<1>. DEFINE IInv == TypeOK /\ RoutingUnread /\ CacheCoversBoard
<1>1. Init => IInv
  BY InitType, InitCover
<1>2. ReliableLink /\ IInv /\ [Next]_<<link, vars>> => (ReliableLink /\ IInv)'
  BY LinkKept, StepType, RoutingUnreadStep, CoverStep DEF UnheardChange
<1>. QED  BY <1>1, <1>2, PTL DEF Spec

\* On any link, the cache stops covering the board only by an unheard change.
THEOREM UncoverOnlyUnheard == Spec => OnlyUnheardChangesUncover
<1>. DEFINE IInv == TypeOK /\ RoutingUnread
<1>1. Init => IInv
  BY InitType, InitCover
<1>2. IInv /\ [Next]_<<link, vars>> => IInv'
  BY StepType, RoutingUnreadStep
<1>3. IInv /\ [Next]_<<link, vars>>
        => [CacheCoversBoard /\ ~CacheCoversBoard'
              => board' # board /\ UNCHANGED cache]_vars
  BY CoverStep DEF UnheardChange
<1>. QED  BY <1>1, <1>2, <1>3, PTL DEF Spec, OnlyUnheardChangesUncover

-----------------------------------------------------------------------------
(***************************************************************************)
(* The promise to the user.  The check before a measurement is made on the *)
(* cache; what it says must still hold, point after point, of the settings *)
(* and the cache as they are (Admitted), and of the board behind the cache *)
(* (LoopPeakMonotone: a cache that covers the board errs on the high side).*)
(***************************************************************************)
Admitted ==
  task.at = "points" => status.hardwareInitialized /\ ~Refuses(lastAmplitude)

\* The estimate only depends on these parts of the status.
LEMMA PredictionSame ==
  ASSUME NEW st \in Statuses, NEW t \in Statuses, NEW c, NEW a,
         st.loopMode = t.loopMode, st.boardConnected = t.boardConnected,
         st.loopExciteChannel = t.loopExciteChannel,
         st.loopReturnChannel = t.loopReturnChannel,
         st.adcSampleGain = t.adcSampleGain
  PROVE  PredictedOverdrive(st, c, a) <=> PredictedOverdrive(t, c, a)
BY DEF PredictedOverdrive, MonitorActive, PossibleReturns, ExciteChannel

LEMMA InitAdmitted == Init => Admitted
BY DEF Init, Idle, Admitted

LEMMA AdmittedStep ==
  ASSUME TypeOK, Admitted, [Next]_<<link, vars>>
  PROVE  Admitted'
<1>0. status \in Statuses /\ task \in Tasks /\ Idle.at = "idle"
  BY TypeOKParts DEF Idle
<1>1. CASE UNCHANGED <<status, cache, lastAmplitude, task>>
  BY <1>1 DEF Admitted, Refuses
<1>2. CASE task'.at # "points"
  BY <1>2 DEF Admitted
<1>3. Ready /\ UNCHANGED task => task'.at # "points"
  BY <1>0 DEF Ready
<1>4. CASE UNCHANGED <<link, vars>>
  BY <1>1, <1>4 DEF vars
<1>5. CASE Reject \/ Query \/ SystStatus
  BY <1>1, <1>2, <1>3, <1>5 DEF Reject, RejectArguments, RejectNotInitialized,
     RejectNoBoard, Query, SystStatus, ReplyOnly
<1>6. CASE Lifecycle
  <2>1. ASSUME NEW connected \in BOOLEAN, SystInitStart(connected)
        PROVE  task'.at # "points"
    BY <1>0, <2>1 DEF SystInitStart, Idle
  <2>. QED  BY <1>2, <1>3, <1>6, <2>1 DEF Lifecycle, Rst, SystInitAlreadyDone,
       SystInitHardwareFails, SystDeinit, ReplyOnly
<1>7. CASE BoardCommand \/ AdcCommand
  BY <1>2, <1>3, <1>7 DEF BoardCommand, BoardMuxRoute, BoardMuxDisconnect, BoardGain,
     BoardReset, BoardStatus, AdcCommand, BoardAdcLoopOff, BoardAdcLoopAuto,
     BoardAdcLoopManual, BoardAdcProtect, BoardAdcSampleGain, BoardReady, ReplyOnly
<1>8. CASE Measure
  <2>1. ASSUME NEW sweep, NEW points, NEW amplitude \in Amplitudes,
               NEW decimation \in Decimations,
               MeasureAdmitted(sweep, points, amplitude, decimation)
        PROVE  Admitted'
    <3>1. /\ status' = [status EXCEPT !.currentDecimation = decimation,
                                      !.adcSaturated = FALSE,
                                      !.measurementInProgress = TRUE]
          /\ lastAmplitude' = amplitude
          /\ UNCHANGED cache
          /\ status.hardwareInitialized
          /\ ~Refuses(amplitude)
      BY <2>1 DEF MeasureAdmitted
    <3>2. status' \in Statuses
      BY <1>0, <3>1 DEF Statuses
    <3>3. PredictedOverdrive(status', cache, amplitude)
            <=> PredictedOverdrive(status, cache, amplitude)
      BY <1>0, <3>1, <3>2, PredictionSame DEF Statuses
    <3>4. /\ status'.adcProtectEnabled = status.adcProtectEnabled
          /\ status'.hardwareInitialized = status.hardwareInitialized
      BY <1>0, <3>1 DEF Statuses
    <3>. QED  BY <3>1, <3>3, <3>4 DEF Admitted, Refuses
  <2>. QED  BY <1>2, <1>3, <1>8, <2>1 DEF Measure, MeasureRefused,
       MeasureDecimationFails, ReplyOnly
<1>9. CASE Continue
  <2>1. CASE SystInitGains \/ SystInitRouting
    BY <1>0, <1>2, <2>1 DEF SystInitGains, SystInitRouting, Tasks
  <2>2. ASSUME NEW st, NEW kind, EndMeasure(st, kind)
        PROVE  Admitted'
    BY <1>0, <1>2, <2>2 DEF EndMeasure
  <2>3. ASSUME NEW saturated \in BOOLEAN, MeasurePointDone(saturated), task.left # 1
        PROVE  Admitted'
    <3>1. /\ status' = [status EXCEPT !.adcSaturated = saturated \/ (task.sweep /\ @)]
          /\ UNCHANGED <<cache, lastAmplitude>>
          /\ task.at = "points"
      BY <2>3 DEF MeasurePointDone
    <3>2. status' \in Statuses
      BY <1>0, <3>1 DEF Statuses
    <3>3. /\ status'.loopMode = status.loopMode
          /\ status'.boardConnected = status.boardConnected
          /\ status'.loopExciteChannel = status.loopExciteChannel
          /\ status'.loopReturnChannel = status.loopReturnChannel
          /\ status'.adcSampleGain = status.adcSampleGain
          /\ status'.adcProtectEnabled = status.adcProtectEnabled
          /\ status'.hardwareInitialized = status.hardwareInitialized
      BY <1>0, <3>1 DEF Statuses
    <3>4. PredictedOverdrive(status', cache, lastAmplitude)
            <=> PredictedOverdrive(status, cache, lastAmplitude)
      BY <1>0, <3>2, <3>3, PredictionSame
    <3>. QED  BY <3>1, <3>3, <3>4 DEF Admitted, Refuses
  <2>4. ASSUME NEW saturated \in BOOLEAN, MeasurePointDone(saturated)
        PROVE  Admitted'
    <3>1. CASE task.left = 1
      BY <2>2, <2>4, <3>1 DEF MeasurePointDone
    <3>. QED  BY <2>3, <2>4, <3>1
  <2>. QED  BY <1>9, <2>1, <2>2, <2>4 DEF Continue, MeasurePointFails, SweepCancelled
<1>10. CASE Environment
  BY <1>0, <1>1, <1>2, <1>10 DEF Environment, BoardRestart, ServerRestart, server
<1>. QED  BY <1>4, <1>5, <1>6, <1>7, <1>8, <1>9, <1>10 DEF Next

\* The promise is stated with the formulas of InputSafety.
LEMMA GuardLoopPeak ==
  ASSUME NEW gain, NEW a, NEW e, NEW r, NEW s
  PROVE  Guard!LoopPeak(gain, a, e, r, s) = LoopPeak(gain, a, e, r, s)
BY DEF Guard!LoopPeak, Guard!EstimateAdcPeak, Guard!BoardDrivePeak, Guard!Clip,
   Guard!AdcFullScale, Guard!DriveFullScale, Guard!DriveRail, Guard!AdcRail,
   LoopPeak, EstimateAdcPeak, BoardDrivePeak, Clip,
   AdcFullScale, DriveFullScale, DriveRail, AdcRail

\* The amplitudes and sample gains the handler admits are natural numbers.
LEMMA RangesNatural ==
  /\ \A a \in Amplitudes : a \in Nat
  /\ \A g \in SampleGains : g \in Nat
<1>1. ASSUME NEW a \in Amplitudes PROVE a \in Nat
  <2>1. a \in 1 .. 8
    BY CommandHandlerAssumption DEF CommandHandlerAssumption, AmplitudeRange, Unit
  <2>. QED  BY <2>1
<1>2. ASSUME NEW g \in SampleGains PROVE g \in Nat
  <2>1. g \in 1 .. 8000
    BY CommandHandlerAssumption DEF CommandHandlerAssumption, MaxSampleGain
  <2>. QED  BY <2>1
<1>. QED  BY <1>1, <1>2

\* What the board overdrives, the cache that covers it predicts.
LEMMA CoveredPrediction ==
  ASSUME TypeOK, CacheCoversBoard, NEW amplitude \in Amplitudes,
         status.boardConnected, status.hardwareInitialized, status.loopMode # "OFF",
         Guard!Overdrives(amplitude)
  PROVE  PredictedOverdrive(status, cache, amplitude)
<1>0. cache \in Caches /\ board \in Boards /\ status \in Statuses
  BY TypeOKParts
<1>1. /\ \A i \in Inputs : cache.gain[i] \in {board.gain[i], Gain16}
      /\ \A o \in Outputs : cache.known[o] => cache.route[o] = board.route[o]
  BY DEF CacheCoversBoard, GainsRead, RoutingRead
<1>2. PICK r \in Guard!Returns :
        LoopPeak(board.gain, amplitude, ExciteChannel(status), r, status.adcSampleGain)
          > AdcFullScale
  BY GuardLoopPeak DEF Guard!Overdrives, Guard!Excite, ExciteChannel,
     Guard!AdcFullScale, AdcFullScale
<1>3. r \in PossibleReturns(status, cache)
  BY <1>0, <1>1, CommandHandlerAssumption
  DEF Guard!Returns, PossibleReturns, Boards, Caches, Routes, CommandHandlerAssumption
<1>4. r \in Inputs /\ ExciteChannel(status) \in Inputs
  BY <1>0, CommandHandlerAssumption
  DEF Guard!Returns, ExciteChannel, Statuses, Boards, Routes, CommandHandlerAssumption
<1>5. amplitude \in Nat /\ status.adcSampleGain \in Nat
  BY <1>0, RangesNatural DEF Statuses
<1>6. /\ board.gain \in [Inputs -> Nat] /\ cache.gain \in [Inputs -> Nat]
      /\ \A i \in Inputs : board.gain[i] <= cache.gain[i]
  <2>1. board.gain \in [Inputs -> Gains] /\ cache.gain \in [Inputs -> Gains]
    BY <1>0 DEF Boards, Caches
  <2>2. board.gain \in [Inputs -> Nat] /\ cache.gain \in [Inputs -> Nat]
    BY <2>1, GainsInTable
  <2>3. \A i \in Inputs : board.gain[i] \in Gains /\ board.gain[i] \in Nat
    BY <2>1, <2>2
  <2>4. \A i \in Inputs : board.gain[i] <= board.gain[i] /\ board.gain[i] <= Gain16
    BY <2>3, GainsInTable
  <2>. QED  BY <1>1, <2>2, <2>4
<1>7. LoopPeak(cache.gain, amplitude, ExciteChannel(status), r, status.adcSampleGain)
        > AdcFullScale
  <2>1. /\ LoopPeak(board.gain, amplitude, ExciteChannel(status), r,
                    status.adcSampleGain) \in Nat
        /\ LoopPeak(cache.gain, amplitude, ExciteChannel(status), r,
                    status.adcSampleGain) \in Nat
        /\ LoopPeak(board.gain, amplitude, ExciteChannel(status), r,
                    status.adcSampleGain)
             <= LoopPeak(cache.gain, amplitude, ExciteChannel(status), r,
                         status.adcSampleGain)
    BY <1>4, <1>5, <1>6, LoopPeakMonotone
  <2>. QED  BY <1>2, <2>1 DEF AdcFullScale
<1>. QED  BY <1>3, <1>7 DEF PredictedOverdrive, MonitorActive

LEMMA CoveredAdmission ==
  ASSUME TypeOK, CacheCoversBoard, Admitted
  PROVE  NoMeasurementAboveFullScale
<1>. SUFFICES ASSUME task.at = "points", Guard!Guarded,
                     Guard!Overdrives(lastAmplitude)
              PROVE  FALSE
  BY DEF NoMeasurementAboveFullScale, Guard!DrivenWithinFullScale, Guard!Silent
<1>1. lastAmplitude \in Amplitudes
  BY TypeOKParts
<1>2. /\ status.adcProtectEnabled /\ status.boardConnected
      /\ status.loopMode # "OFF"
  BY DEF Guard!Guarded
<1>3. status.hardwareInitialized /\ ~Refuses(lastAmplitude)
  BY DEF Admitted
<1>. QED  BY <1>1, <1>2, <1>3, CoveredPrediction DEF Refuses

\* README section 5: on a link that hides nothing, with the protection on and
\* the monitor active, no measurement drives the ADC above full scale, for any
\* gains, routing, sample gain and sequence of commands, failed ones included.
THEOREM MeasurementsStayInFullScale ==
  ReliableLink /\ Spec => []NoMeasurementAboveFullScale
<1>. DEFINE IInv == TypeOK /\ RoutingUnread /\ CacheCoversBoard /\ Admitted
<1>1. Init => IInv
  BY InitType, InitCover, InitAdmitted
<1>2. ReliableLink /\ IInv /\ [Next]_<<link, vars>> => (ReliableLink /\ IInv)'
  BY LinkKept, StepType, RoutingUnreadStep, CoverStep, AdmittedStep DEF UnheardChange
<1>3. IInv => NoMeasurementAboveFullScale
  BY CoveredAdmission
<1>. QED  BY <1>1, <1>2, <1>3, PTL DEF Spec

-----------------------------------------------------------------------------
(***************************************************************************)
(* The handler implements the promise of AdcGuard.                         *)
(***************************************************************************)
SettingsSame ==
  /\ status'.boardConnected = status.boardConnected
  /\ status'.loopMode = status.loopMode
  /\ status'.loopExciteChannel = status.loopExciteChannel
  /\ status'.loopReturnChannel = status.loopReturnChannel
  /\ status'.adcProtectEnabled = status.adcProtectEnabled
  /\ status'.adcSampleGain = status.adcSampleGain

\* What a step of the handler can be, seen from the excitation.
LEMMA StepShape ==
  ASSUME TypeOK, ReliableLink, [Next]_<<link, vars>>
  PROVE  \/ task.at # "points" /\ task'.at # "points"
         \/ task.at = "points" /\ task'.at # "points" /\ UNCHANGED board
         \/ /\ task.at = "points" /\ task'.at = "points"
            /\ UNCHANGED <<board, lastAmplitude>> /\ SettingsSame
         \/ /\ task.at # "points" /\ task'.at = "points"
            /\ lastAmplitude' \in Amplitudes /\ ~Refuses(lastAmplitude')
            /\ status.hardwareInitialized
            /\ UNCHANGED board /\ SettingsSame
<1>. DEFINE Shape ==
         \/ task.at # "points" /\ task'.at # "points"
         \/ task.at = "points" /\ task'.at # "points" /\ UNCHANGED board
         \/ /\ task.at = "points" /\ task'.at = "points"
            /\ UNCHANGED <<board, lastAmplitude>> /\ SettingsSame
         \/ /\ task.at # "points" /\ task'.at = "points"
            /\ lastAmplitude' \in Amplitudes /\ ~Refuses(lastAmplitude')
            /\ status.hardwareInitialized
            /\ UNCHANGED board /\ SettingsSame
<1>0. status \in Statuses /\ task \in Tasks /\ Idle.at = "idle"
  BY TypeOKParts DEF Idle
<1>1. Ready => task.at # "points"
  BY <1>0 DEF Ready
<1>2. CASE UNCHANGED <<link, vars>>
  BY <1>2 DEF vars, SettingsSame
<1>3. CASE Reject \/ Query \/ SystStatus
  BY <1>1, <1>3 DEF Reject, RejectArguments, RejectNotInitialized, RejectNoBoard,
     Query, SystStatus, ReplyOnly
<1>4. CASE Lifecycle
  <2>1. ASSUME NEW connected \in BOOLEAN, SystInitStart(connected)
        PROVE  Ready /\ task'.at # "points"
    BY <1>0, <2>1 DEF SystInitStart, Idle
  <2>. QED  BY <1>1, <1>4, <2>1 DEF Lifecycle, Rst, SystInitAlreadyDone,
       SystInitHardwareFails, SystDeinit, ReplyOnly
<1>5. CASE BoardCommand \/ AdcCommand
  BY <1>1, <1>5 DEF BoardCommand, BoardMuxRoute, BoardMuxDisconnect, BoardGain,
     BoardReset, BoardStatus, AdcCommand, BoardAdcLoopOff, BoardAdcLoopAuto,
     BoardAdcLoopManual, BoardAdcProtect, BoardAdcSampleGain, BoardReady, ReplyOnly
<1>6. CASE Measure
  <2>1. ASSUME NEW sweep, NEW points, NEW amplitude \in Amplitudes,
               NEW decimation \in Decimations,
               MeasureAdmitted(sweep, points, amplitude, decimation)
        PROVE  Shape
    <3>1. SettingsSame
      BY <1>0, <2>1 DEF MeasureAdmitted, SettingsSame, Statuses
    <3>. QED  BY <1>1, <2>1, <3>1 DEF MeasureAdmitted
  <2>. QED  BY <1>1, <1>6, <2>1 DEF Measure, MeasureRefused,
       MeasureDecimationFails, ReplyOnly
<1>7. CASE Continue
  <2>1. CASE SystInitGains \/ SystInitRouting
    BY <1>0, <2>1 DEF SystInitGains, SystInitRouting, Tasks
  <2>2. ASSUME NEW st, NEW kind, EndMeasure(st, kind), UNCHANGED board
        PROVE  Shape
    BY <1>0, <2>2 DEF EndMeasure
  <2>3. ASSUME NEW saturated \in BOOLEAN, MeasurePointDone(saturated)
        PROVE  Shape
    <3>1. CASE task.left = 1
      BY <2>2, <2>3, <3>1 DEF MeasurePointDone
    <3>2. CASE task.left # 1
      <4>1. /\ status' = [status EXCEPT !.adcSaturated = saturated \/ (task.sweep /\ @)]
            /\ task' = [task EXCEPT !.left = @ - 1]
            /\ task.at = "points"
            /\ UNCHANGED <<lastAmplitude, board>>
        BY <2>3, <3>2 DEF MeasurePointDone
      <4>2. task'.at = "points"
        BY <1>0, <4>1 DEF Tasks
      <4>3. SettingsSame
        BY <1>0, <4>1 DEF SettingsSame, Statuses
      <4>. QED  BY <4>1, <4>2, <4>3
    <3>. QED  BY <3>1, <3>2
  <2>. QED  BY <1>7, <2>1, <2>2, <2>3 DEF Continue, MeasurePointFails, SweepCancelled
<1>8. CASE Environment
  BY <1>0, <1>8 DEF Environment, BoardRestart, ServerRestart, ReliableLink
<1>. QED  BY <1>2, <1>3, <1>4, <1>5, <1>6, <1>7, <1>8 DEF Next

\* The settings and the board of the handler are those of the promise.
LEMMA GuardTypes ==
  ASSUME TypeOK
  PROVE  /\ board \in Guard!Boards
         /\ [monitored |-> status.boardConnected, loopMode |-> status.loopMode,
             excite |-> status.loopExciteChannel,
             return |-> status.loopReturnChannel,
             protect |-> status.adcProtectEnabled,
             sampleGain |-> status.adcSampleGain] \in Guard!Settings
         /\ lastAmplitude \in Amplitudes /\ lastAmplitude # 0
<1>1. 0 \notin Amplitudes
  BY CommandHandlerAssumption DEF CommandHandlerAssumption, AmplitudeRange
<1>2. status \in Statuses /\ lastAmplitude \in Amplitudes
  BY TypeOKParts
<1>3. board \in Guard!Boards
  BY DEF TypeOK, Guard!Boards, Routes
<1>. QED  BY <1>1, <1>2, <1>3 DEF Statuses, Guard!Settings

LEMMA GuardStep ==
  ASSUME TypeOK, TypeOK', CacheCoversBoard, ReliableLink, [Next]_<<link, vars>>
  PROVE  [Guard!Next]_(Guard!vars)
<1>1. /\ board' \in Guard!Boards
      /\ [monitored |-> status'.boardConnected, loopMode |-> status'.loopMode,
          excite |-> status'.loopExciteChannel,
          return |-> status'.loopReturnChannel,
          protect |-> status'.adcProtectEnabled,
          sampleGain |-> status'.adcSampleGain] \in Guard!Settings
      /\ lastAmplitude' \in Amplitudes /\ lastAmplitude' # 0
  <2>1. 0 \notin Amplitudes
    BY CommandHandlerAssumption DEF CommandHandlerAssumption, AmplitudeRange
  <2>2. status' \in Statuses /\ lastAmplitude' \in Amplitudes
    BY DEF TypeOK
  <2>3. board' \in Guard!Boards
    BY DEF TypeOK, Guard!Boards, Routes
  <2>. QED  BY <2>1, <2>2, <2>3 DEF Statuses, Guard!Settings
<1>2. lastAmplitude # 0
  BY GuardTypes
<1>3. CASE task.at # "points" /\ task'.at # "points"
  BY <1>1, <1>3 DEF Guard!Next, Guard!Configure, Guard!Silent
<1>4. CASE task.at = "points" /\ task'.at # "points" /\ UNCHANGED board
  BY <1>1, <1>2, <1>4 DEF Guard!Next, Guard!Stop, Guard!Silent
<1>5. CASE /\ task.at = "points" /\ task'.at = "points"
           /\ UNCHANGED <<board, lastAmplitude>> /\ SettingsSame
  BY <1>5 DEF Guard!vars, SettingsSame
<1>6. CASE /\ task.at # "points" /\ task'.at = "points"
           /\ lastAmplitude' \in Amplitudes /\ ~Refuses(lastAmplitude')
           /\ status.hardwareInitialized
           /\ UNCHANGED board /\ SettingsSame
  <2>1. Guard!Guarded => ~Guard!Overdrives(lastAmplitude')
    <3>. SUFFICES ASSUME Guard!Guarded, Guard!Overdrives(lastAmplitude')
                  PROVE  FALSE
      OBVIOUS
    <3>1. /\ status.adcProtectEnabled /\ status.boardConnected
          /\ status.loopMode # "OFF"
      BY DEF Guard!Guarded
    <3>2. \A amplitude \in Amplitudes :
            Guard!Overdrives(amplitude)
              => PredictedOverdrive(status, cache, amplitude)
      BY <1>6, <3>1, CoveredPrediction
    <3>. QED  BY <1>6, <3>1, <3>2 DEF Refuses
  <2>2. Guard!Start(lastAmplitude')
    BY <1>6, <2>1 DEF Guard!Start, Guard!Silent, SettingsSame
  <2>. QED  BY <1>6, <2>2 DEF Guard!Next
<1>. QED  BY <1>3, <1>4, <1>5, <1>6, StepShape

\* Every behaviour of the handler on a link that hides nothing is one the
\* promise of README section 5 allows, step by step.
THEOREM HandlerImplementsGuard == ReliableLink /\ Spec => ImplementsGuard
<1>. DEFINE IInv == TypeOK /\ RoutingUnread /\ CacheCoversBoard
<1>1. Init => IInv
  BY InitType, InitCover
<1>2. ReliableLink /\ IInv /\ [Next]_<<link, vars>> => (ReliableLink /\ IInv)'
  BY LinkKept, StepType, RoutingUnreadStep, CoverStep DEF UnheardChange
<1>3. Init => Guard!Init
  BY InitType, GuardTypes DEF Guard!Init, Guard!Silent, Init, Idle
<1>4. ReliableLink /\ IInv /\ IInv' /\ [Next]_<<link, vars>> => [Guard!Next]_(Guard!vars)
  BY GuardStep
<1>. QED  BY <1>1, <1>2, <1>3, <1>4, PTL DEF Spec, ImplementsGuard, Guard!Spec

-----------------------------------------------------------------------------
(***************************************************************************)
(* The objects are there when the status says so.  What the statement      *)
(* leaves out, and the handlers rely on: a board only counts as connected  *)
(* while the hardware is initialised or being initialised, so SYSTEM:INIT  *)
(* never replaces the hardware under an open board.                        *)
(***************************************************************************)
BoardOnlyWithHardware ==
  /\ status.boardConnected => status.hardwareInitialized \/ task.at # "idle"
  /\ task.at \in {"initGains", "initRouting"} =>
       objects.board = "open" /\ ~status.hardwareInitialized

ObjectsInv == ObjectsMatchStatus /\ BoardOnlyWithHardware

LEMMA ObjectsStep ==
  ASSUME TypeOK, ObjectsInv, [Next]_<<link, vars>>
  PROVE  ObjectsInv'
<1>0. /\ status \in Statuses /\ task \in Tasks /\ Idle.at = "idle"
      /\ objects \in [hardware : BOOLEAN, board : {"null", "open", "closed"},
                      signalGen : BOOLEAN, fftProcessor : BOOLEAN]
  BY TypeOKParts DEF Idle
<1>. USE <1>0 DEF ObjectsInv, ObjectsMatchStatus, BoardOnlyWithHardware
<1>1. ASSUME UNCHANGED <<objects, task>>,
             status'.hardwareInitialized = status.hardwareInitialized,
             status'.boardConnected = status.boardConnected,
             status'.measurementInProgress = status.measurementInProgress
      PROVE  ObjectsInv'
  BY <1>1
<1>2. CASE UNCHANGED <<link, vars>>
  BY <1>1, <1>2 DEF vars
<1>3. CASE Reject \/ Query \/ SystStatus
  <2>1. CASE SystStatus
    BY <1>1, <2>1 DEF SystStatus, Statuses
  <2>. QED  BY <1>1, <1>3, <2>1 DEF Reject, RejectArguments, RejectNotInitialized,
       RejectNoBoard, Query, ReplyOnly
<1>4. CASE Lifecycle
  <2>1. CASE Rst
    BY <2>1 DEF Rst, Ready, FreshStatus, NoObjects
  <2>2. CASE SystInitAlreadyDone
    BY <1>1, <2>2 DEF SystInitAlreadyDone, ReplyOnly
  <2>3. CASE SystInitHardwareFails
    BY <2>3 DEF SystInitHardwareFails, Ready
  <2>4. ASSUME NEW connected \in BOOLEAN, SystInitStart(connected)
        PROVE  ObjectsInv'
    <3>1. /\ status'.hardwareInitialized = ~connected
          /\ status'.boardConnected = connected
          /\ status'.measurementInProgress = FALSE
      BY <2>4 DEF SystInitStart, Statuses, Ready
    <3>2. /\ objects'.hardware /\ objects'.signalGen
          /\ connected => objects'.board = "open"
      BY <2>4 DEF SystInitStart
    <3>3. task'.at = IF connected THEN "initGains" ELSE "idle"
      BY <2>4 DEF SystInitStart, Idle
    <3>. QED  BY <3>1, <3>2, <3>3
  <2>5. CASE SystDeinit
    BY <2>5 DEF SystDeinit, Statuses, Ready
  <2>. QED  BY <1>4, <2>1, <2>2, <2>3, <2>4, <2>5 DEF Lifecycle
<1>5. ASSUME NEW st \in Statuses, NEW c, ReplyWithWarning(st, c),
             UNCHANGED <<objects, lastAmplitude, task>>,
             st.hardwareInitialized = status.hardwareInitialized,
             st.boardConnected = status.boardConnected,
             st.measurementInProgress = status.measurementInProgress
      PROVE  ObjectsInv'
  BY <1>1, <1>5 DEF ReplyWithWarning, Statuses
<1>6. CASE BoardCommand
  BY <1>1, <1>5, <1>6 DEF BoardCommand, BoardMuxRoute, BoardMuxDisconnect, BoardGain,
     BoardReset, BoardStatus, ReplyOnly
<1>7. CASE AdcCommand
  <2>1. CASE BoardAdcLoopOff
    BY <1>1, <2>1 DEF BoardAdcLoopOff, Statuses
  <2>2. CASE BoardAdcLoopAuto
    BY <1>5, <2>2 DEF BoardAdcLoopAuto, Statuses
  <2>3. ASSUME NEW excite \in Inputs, NEW ret \in Inputs,
               BoardAdcLoopManual(excite, ret)
        PROVE  ObjectsInv'
    BY <1>5, <2>3 DEF BoardAdcLoopManual, Statuses
  <2>4. ASSUME NEW on \in BOOLEAN, BoardAdcProtect(on)
        PROVE  ObjectsInv'
    BY <1>5, <2>4 DEF BoardAdcProtect, Statuses
  <2>5. ASSUME NEW factor \in SampleGains, BoardAdcSampleGain(factor)
        PROVE  ObjectsInv'
    BY <1>5, <2>5 DEF BoardAdcSampleGain, Statuses
  <2>. QED  BY <1>7, <2>1, <2>2, <2>3, <2>4, <2>5 DEF AdcCommand
<1>8. CASE Measure
  <2>1. ASSUME NEW sweep, NEW points, NEW amplitude \in Amplitudes,
               NEW decimation \in Decimations,
               MeasureAdmitted(sweep, points, amplitude, decimation)
        PROVE  ObjectsInv'
    BY <2>1 DEF MeasureAdmitted, Statuses, Ready
  <2>. QED  BY <1>1, <1>8, <2>1 DEF Measure, MeasureRefused,
       MeasureDecimationFails, ReplyOnly
<1>9. CASE Continue
  <2>1. CASE SystInitGains
    BY <2>1 DEF SystInitGains, Tasks
  <2>2. CASE SystInitRouting
    BY <2>2 DEF SystInitRouting, Statuses
  <2>3. ASSUME NEW st \in Statuses, NEW kind, EndMeasure(st, kind), UNCHANGED objects,
               task.at = "points",
               st.hardwareInitialized = status.hardwareInitialized,
               st.boardConnected = status.boardConnected
        PROVE  ObjectsInv'
    BY <2>3 DEF EndMeasure, Statuses
  <2>4. ASSUME NEW saturated \in BOOLEAN, MeasurePointDone(saturated)
        PROVE  ObjectsInv'
    <3>. DEFINE st == [status EXCEPT !.adcSaturated = saturated \/ (task.sweep /\ @)]
    <3>1. /\ st \in Statuses
          /\ st.hardwareInitialized = status.hardwareInitialized
          /\ st.boardConnected = status.boardConnected
          /\ st.measurementInProgress = status.measurementInProgress
      BY DEF Statuses
    <3>2. task.at = "points" /\ UNCHANGED objects
      BY <2>4 DEF MeasurePointDone
    <3>3. CASE task.left = 1
      <4>1. PICK kind : EndMeasure(st, kind)
        BY <2>4, <3>3 DEF MeasurePointDone
      <4>. HIDE DEF st
      <4>. QED  BY <2>3, <3>1, <3>2, <4>1
    <3>4. CASE task.left # 1
      <4>1. status' = st /\ task' = [task EXCEPT !.left = @ - 1]
        BY <2>4, <3>4 DEF MeasurePointDone
      <4>2. task'.at = "points"
        BY <3>2, <4>1 DEF Tasks
      <4>. HIDE DEF st
      <4>. QED  BY <3>1, <3>2, <4>1, <4>2
    <3>. QED  BY <3>3, <3>4
  <2>. QED  BY <1>9, <2>1, <2>2, <2>3, <2>4
       DEF Continue, MeasurePointFails, SweepCancelled
<1>10. CASE Environment
  <2>1. CASE BoardRestart
    BY <1>1, <2>1 DEF BoardRestart, server
  <2>2. CASE ServerRestart
    BY <2>2 DEF ServerRestart, FreshStatus, NoObjects
  <2>. QED  BY <1>10, <2>1, <2>2 DEF Environment
<1>. QED  BY <1>2, <1>3, <1>4, <1>6, <1>7, <1>8, <1>9, <1>10 DEF Next

LEMMA InitObjects == Init => ObjectsInv
<1>1. ASSUME Init
      PROVE  /\ ~status.hardwareInitialized /\ ~status.boardConnected
             /\ ~status.measurementInProgress /\ task.at = "idle"
  BY <1>1 DEF Init, FreshStatus, Idle
<1>. QED  BY <1>1 DEF ObjectsInv, ObjectsMatchStatus, BoardOnlyWithHardware

\* No handler, on any path and after any fault, dereferences a pointer that is
\* null, talks to a board that is closed, or leaves measurementInProgress behind.
THEOREM ObjectsAlwaysMatch == Spec => []ObjectsMatchStatus
<1>1. Init => TypeOK /\ ObjectsInv
  BY InitType, InitObjects
<1>2. TypeOK /\ ObjectsInv /\ [Next]_<<link, vars>> => (TypeOK /\ ObjectsInv)'
  BY StepType, ObjectsStep
<1>3. ObjectsInv => ObjectsMatchStatus
  BY DEF ObjectsInv
<1>. QED  BY <1>1, <1>2, <1>3, PTL DEF Spec

-----------------------------------------------------------------------------
(***************************************************************************)
(* A link without faults.  The cache is then more than a cover: it is the  *)
(* board, so that the worst cases it may assume never show.                *)
(***************************************************************************)
CacheIsBoard ==
  /\ GainsRead => \A i \in Inputs : cache.gain[i] = board.gain[i]
  /\ RoutingRead => \A o \in Outputs : cache.known[o] /\ cache.route[o] = board.route[o]

\* What an exchange can be: the board obeys and answers, in full.
LEMMA UndisturbedExchange ==
  ASSUME Undisturbed
  PROVE  /\ \A new : ~Unacknowledged(new)
         /\ ~StatusLost
         /\ \A all : Readable(all) = {all}
         /\ ~BoardRestart
BY DEF Undisturbed, Unacknowledged, StatusLost, Readable, BoardRestart

LEMMA ExactKept ==
  ASSUME CacheIsBoard, ReadsKept
  PROVE  CacheIsBoard'
BY DEF CacheIsBoard, ReadsKept

LEMMA ExactBoardCommand ==
  ASSUME TypeOK, Undisturbed, CacheIsBoard, BoardCommand
  PROVE  CacheIsBoard'
<1>0. cache \in Caches /\ board \in Boards
  BY TypeOKParts
<1>1. GainsRead /\ RoutingRead
  BY DEF BoardCommand, BoardMuxRoute, BoardMuxDisconnect, BoardGain, BoardReset,
     BoardStatus, BoardReady, GainsRead, RoutingRead
<1>2. /\ \A i \in Inputs : cache.gain[i] = board.gain[i]
      /\ \A o \in Outputs : cache.known[o] /\ cache.route[o] = board.route[o]
  BY <1>1 DEF CacheIsBoard
<1>3. ASSUME NEW o \in Outputs, NEW r \in Routes,
             board' = [board EXCEPT !.route[o] = r],
             cache' = [cache EXCEPT !.route[o] = r, !.known[o] = TRUE]
      PROVE  CacheIsBoard'
  <2>1. \A i \in Inputs : cache'.gain[i] = board'.gain[i]
    BY <1>0, <1>2, <1>3 DEF Caches, Boards
  <2>2. \A p \in Outputs : cache'.known[p] /\ cache'.route[p] = board'.route[p]
    BY <1>0, <1>2, <1>3 DEF Caches, Boards
  <2>. QED  BY <2>1, <2>2 DEF CacheIsBoard
<1>4. ASSUME NEW o \in Outputs, NEW i \in Inputs, BoardMuxRoute(o, i)
      PROVE  CacheIsBoard'
  BY <1>3, <1>4, UndisturbedExchange
  DEF BoardMuxRoute, Acknowledged, RouteTo, ReplyWithWarning, Routes
<1>5. ASSUME NEW o \in Outputs, BoardMuxDisconnect(o)
      PROVE  CacheIsBoard'
  BY <1>3, <1>5, UndisturbedExchange
  DEF BoardMuxDisconnect, Acknowledged, RouteTo, ReplyWithWarning, Routes
<1>6. ASSUME NEW i \in Inputs, NEW g \in Gains, BoardGain(i, g)
      PROVE  CacheIsBoard'
  <2>1. /\ board' = [board EXCEPT !.gain[i] = g]
        /\ cache' = [cache EXCEPT !.gain[i] = g]
    BY <1>6, UndisturbedExchange DEF BoardGain, Acknowledged, GainTo, ReplyWithWarning
  <2>2. \A j \in Inputs : cache'.gain[j] = board'.gain[j]
    BY <1>0, <1>2, <2>1 DEF Caches, Boards
  <2>3. \A o \in Outputs : cache'.known[o] /\ cache'.route[o] = board'.route[o]
    BY <1>0, <1>2, <2>1 DEF Caches, Boards
  <2>. QED  BY <2>2, <2>3 DEF CacheIsBoard
<1>7. CASE BoardReset
  <2>1. board' = DefaultBoard /\ cache' = ResetCache
    BY <1>7, UndisturbedExchange DEF BoardReset, Acknowledged, ReplyWithWarning
  <2>. QED  BY <2>1 DEF CacheIsBoard, DefaultBoard, ResetCache
<1>8. CASE BoardStatus
  <2>1. /\ UNCHANGED board
        /\ cache' = [gain  |-> [i \in Inputs |-> IF i \in Inputs THEN board.gain[i]
                                                 ELSE cache.gain[i]],
                     route |-> [o \in Outputs |-> IF o \in Outputs THEN board.route[o]
                                                  ELSE cache.route[o]],
                     known |-> [o \in Outputs |-> o \in Outputs \/ cache.known[o]]]
    BY <1>8, UndisturbedExchange DEF BoardStatus
  <2>. QED  BY <2>1 DEF CacheIsBoard
<1>. QED  BY <1>4, <1>5, <1>6, <1>7, <1>8 DEF BoardCommand

LEMMA ExactInit ==
  ASSUME TypeOK, Undisturbed, ObjectsInv, CacheIsBoard, SystInitGains \/ SystInitRouting
  PROVE  CacheIsBoard'
<1>0. cache \in Caches /\ board \in Boards /\ status \in Statuses
  BY TypeOKParts
<1>1. CASE SystInitGains
  <2>0. /\ Readable(Inputs) \cup (IF StatusLost THEN {{}} ELSE {}) = {Inputs}
        /\ task.at = "initGains"
    BY <1>1, UndisturbedExchange DEF SystInitGains
  <2>1. PICK read \in Readable(Inputs) \cup (IF StatusLost THEN {{}} ELSE {}) :
          cache' = [cache EXCEPT
             !.gain = [i \in Inputs |-> IF i \in read THEN board.gain[i] ELSE Gain16],
             !.known = [o \in Outputs |-> FALSE]]
    BY <1>1 DEF SystInitGains
  <2>4. read = Inputs
    BY <2>0
  <2>5. UNCHANGED <<status, board>>
    BY <1>1 DEF SystInitGains
  <2>2. \A i \in Inputs : cache'.gain[i] = board'.gain[i]
    BY <1>0, <2>1, <2>4, <2>5 DEF Caches
  <2>3. ~RoutingRead'
    BY <2>0, <2>5 DEF ObjectsInv, BoardOnlyWithHardware, RoutingRead
  <2>. QED  BY <2>2, <2>3 DEF CacheIsBoard, RoutingRead
<1>2. CASE SystInitRouting
  <2>0. Readable(Outputs) = {Outputs} /\ ~StatusLost
    BY UndisturbedExchange
  <2>1. /\ task.at = "initRouting" /\ UNCHANGED board
        /\ status' = [status EXCEPT !.hardwareInitialized = TRUE]
        /\ cache' = [cache EXCEPT
             !.route = [o \in Outputs |-> IF o \in Outputs THEN board.route[o]
                                          ELSE Disconnected],
             !.known = [o \in Outputs |-> o \in Outputs]]
    BY <1>2, <2>0 DEF SystInitRouting
  <2>2. \A o \in Outputs : cache'.known[o] /\ cache'.route[o] = board'.route[o]
    BY <1>0, <2>1 DEF Caches
  <2>3. cache'.gain = cache.gain
    BY <1>0, <2>1 DEF Caches
  <2>4. GainsRead' => \A i \in Inputs : cache.gain[i] = board.gain[i]
    BY <1>0, <2>1 DEF CacheIsBoard, GainsRead, Statuses
  <2>. QED  BY <2>1, <2>2, <2>3, <2>4 DEF CacheIsBoard
<1>. QED  BY <1>1, <1>2

LEMMA ExactStep ==
  ASSUME TypeOK, Undisturbed, ObjectsInv, CacheIsBoard, [Next]_<<link, vars>>
  PROVE  CacheIsBoard'
<1>1. CASE UNCHANGED <<link, vars>>
  BY <1>1, ReadsSame, ExactKept DEF vars
<1>2. CASE Environment
  <2>1. ServerRestart
    BY <1>2, UndisturbedExchange DEF Environment
  <2>. QED  BY <2>1, NothingRead, ExactKept DEF ServerRestart, FreshStatus
<1>. QED
  BY <1>1, <1>2, ExactKept, RepliesKeepReads, LifecycleKeepsReads, MeasureKeepsReads,
     AcquireKeepsReads, ExactBoardCommand, ExactInit
  DEF Next, Continue, Acquire

\* What the server then refuses, the board overdrives.
LEMMA RefusalIsJustified ==
  ASSUME TypeOK, CacheIsBoard, NEW amplitude \in Amplitudes, MeasureRefused(amplitude)
  PROVE  Guard!Overdrives(amplitude)
<1>0. cache \in Caches /\ board \in Boards /\ status \in Statuses
  BY TypeOKParts
<1>1. /\ status.hardwareInitialized /\ status.boardConnected
      /\ PredictedOverdrive(status, cache, amplitude)
  BY DEF MeasureRefused, Refuses, PredictedOverdrive, MonitorActive
<1>2. /\ \A i \in Inputs : cache.gain[i] = board.gain[i]
      /\ \A o \in Outputs : cache.known[o] /\ cache.route[o] = board.route[o]
  BY <1>1 DEF CacheIsBoard, GainsRead, RoutingRead
<1>3. cache.gain = board.gain
  BY <1>0, <1>2 DEF Caches, Boards
<1>4. PossibleReturns(status, cache) = Guard!Returns
  BY <1>2, CommandHandlerAssumption
  DEF PossibleReturns, Guard!Returns, CommandHandlerAssumption
<1>5. PICK r \in PossibleReturns(status, cache) :
        LoopPeak(cache.gain, amplitude, ExciteChannel(status), r, status.adcSampleGain)
          > AdcFullScale
  BY <1>1 DEF PredictedOverdrive
<1>. QED  BY <1>3, <1>4, <1>5, GuardLoopPeak
     DEF Guard!Overdrives, Guard!Excite, ExciteChannel, Guard!AdcFullScale, AdcFullScale

\* While every exchange with the board goes well, no measurement is refused
\* that the board, with the gains and the routing it has, would not overdrive:
\* for any sequence of commands, DEINIT, *RST and restart of the server.
THEOREM RefusalsAreJustified == Spec => RefusedOnlyIfOverdriven
<1>. DEFINE IInv == TypeOK /\ ObjectsInv /\ (Undisturbed => CacheIsBoard)
<1>1. Init => IInv
  <2>1. Init => ~status.boardConnected
    BY DEF Init, FreshStatus
  <2>. QED  BY <2>1, InitType, InitObjects DEF CacheIsBoard, GainsRead, RoutingRead
<1>2. IInv /\ [Next]_<<link, vars>> => IInv'
  <2>. SUFFICES ASSUME IInv, [Next]_<<link, vars>> PROVE IInv'
    OBVIOUS
  <2>1. Undisturbed' => Undisturbed
    BY LinkKept DEF Undisturbed, Faults
  <2>. QED  BY <2>1, StepType, ObjectsStep, ExactStep
<1>3. IInv /\ [Next]_<<link, vars>>
        => [Undisturbed => \A amplitude \in Amplitudes :
              MeasureRefused(amplitude) => Guard!Overdrives(amplitude)]_vars
  BY RefusalIsJustified
<1>. QED  BY <1>1, <1>2, <1>3, PTL DEF Spec, RefusedOnlyIfOverdriven


-----------------------------------------------------------------------------
(***************************************************************************)
(* No silent overdrive.  SYSTEM:INIT leaves its reply as it is when it     *)
(* comes back, after it changed the cache: it must not be a plain OK.      *)
(***************************************************************************)
InitNotOk == task.at \in {"initGains", "initRouting"} => reply # "ok"

\* A reply without a warning was given on an estimate below the limit.
LEMMA WarningTold ==
  ASSUME NEW st \in Statuses, NEW c, ReplyWithWarning(st, c), UNCHANGED lastAmplitude
  PROVE  NoSilentOverdrive'
<1>. DEFINE over == PredictedOverdrive(st, c, lastAmplitude)
<1>1. over \in BOOLEAN
  BY OverdriveBoolean
<1>2. /\ status' = [st EXCEPT !.adcOverdrive = over]
      /\ cache' = c
      /\ reply' = IF over THEN "warn" ELSE "ok"
  BY DEF ReplyWithWarning
<1>. HIDE DEF over
<1>3. /\ status' \in Statuses
      /\ status'.loopMode = st.loopMode
      /\ status'.boardConnected = st.boardConnected
      /\ status'.loopExciteChannel = st.loopExciteChannel
      /\ status'.loopReturnChannel = st.loopReturnChannel
      /\ status'.adcSampleGain = st.adcSampleGain
  BY <1>1, <1>2 DEF Statuses
<1>4. PredictedOverdrive(status', c, lastAmplitude) <=> over
  BY <1>3, PredictionSame DEF over
<1>5. reply' = "ok" => ~PredictedOverdrive(status', c, lastAmplitude)
  BY <1>2, <1>4
<1>. QED  BY <1>2, <1>5 DEF NoSilentOverdrive

LEMMA SilentStep ==
  ASSUME TypeOK, NoSilentOverdrive, InitNotOk, [Next]_<<link, vars>>
  PROVE  NoSilentOverdrive' /\ InitNotOk'
<1>0. status \in Statuses /\ task \in Tasks /\ Idle.at = "idle"
  BY TypeOKParts DEF Idle
<1>1. CASE UNCHANGED <<status, cache, lastAmplitude, task, reply>>
  BY <1>1 DEF NoSilentOverdrive, InitNotOk, Ready
<1>2. CASE reply' # "ok"
  BY <1>2 DEF NoSilentOverdrive, InitNotOk
<1>3. Ready /\ UNCHANGED task => InitNotOk'
  BY <1>0 DEF Ready, InitNotOk
<1>4. CASE UNCHANGED <<link, vars>>
  BY <1>1, <1>4 DEF vars
<1>5. CASE Reject \/ Query \/ SystStatus
  BY <1>2, <1>5 DEF Reject, RejectArguments, RejectNotInitialized,
     RejectNoBoard, Query, SystStatus, ReplyOnly
<1>6. CASE Lifecycle
  <2>1. reply' # "ok"
    BY <1>6 DEF Lifecycle, Rst, SystInitAlreadyDone, SystInitHardwareFails,
       SystInitStart, SystDeinit, ReplyOnly
  <2>. QED  BY <1>2, <2>1
<1>7. CASE BoardCommand
  <2>1. ASSUME NEW c, ReplyWithWarning(status, c), Ready, UNCHANGED <<lastAmplitude, task>>
        PROVE  NoSilentOverdrive' /\ InitNotOk'
    BY <1>0, <1>3, <2>1, WarningTold
  <2>2. CASE ReplyOnly("hardware")
    BY <1>2, <2>2 DEF ReplyOnly
  <2>3. ASSUME NEW o \in Outputs, NEW i \in Inputs, BoardMuxRoute(o, i)
        PROVE  NoSilentOverdrive' /\ InitNotOk'
    BY <2>1, <2>2, <2>3 DEF BoardMuxRoute, BoardReady
  <2>4. ASSUME NEW o \in Outputs, BoardMuxDisconnect(o)
        PROVE  NoSilentOverdrive' /\ InitNotOk'
    BY <2>1, <2>2, <2>4 DEF BoardMuxDisconnect, BoardReady
  <2>5. ASSUME NEW i \in Inputs, NEW g \in Gains, BoardGain(i, g)
        PROVE  NoSilentOverdrive' /\ InitNotOk'
    BY <2>1, <2>2, <2>5 DEF BoardGain, BoardReady
  <2>6. CASE BoardReset
    BY <2>1, <2>2, <2>6 DEF BoardReset, BoardReady
  <2>7. CASE BoardStatus
    BY <1>2, <2>7 DEF BoardStatus, ReplyOnly
  <2>. QED  BY <1>7, <2>3, <2>4, <2>5, <2>6, <2>7 DEF BoardCommand
<1>8. CASE AdcCommand
  <2>1. ASSUME NEW st \in Statuses, ReplyWithWarning(st, cache), BoardReady,
               UNCHANGED <<lastAmplitude, task>>
        PROVE  NoSilentOverdrive' /\ InitNotOk'
    BY <1>3, <2>1, WarningTold DEF BoardReady
  <2>2. CASE BoardAdcLoopOff
    <3>1. /\ status' = [status EXCEPT !.loopMode = "OFF", !.adcOverdrive = FALSE]
          /\ Ready /\ UNCHANGED task
      BY <2>2 DEF BoardAdcLoopOff, BoardReady
    <3>2. status'.loopMode = "OFF"
      BY <1>0, <3>1 DEF Statuses
    <3>3. NoSilentOverdrive'
      BY <3>2 DEF NoSilentOverdrive, PredictedOverdrive, MonitorActive
    <3>. QED  BY <1>3, <3>1, <3>3
  <2>3. CASE BoardAdcLoopAuto
    <3>1. [status EXCEPT !.loopMode = "AUTO"] \in Statuses
      BY <1>0 DEF Statuses
    <3>. QED  BY <2>1, <2>3, <3>1 DEF BoardAdcLoopAuto
  <2>4. ASSUME NEW excite \in Inputs, NEW ret \in Inputs, BoardAdcLoopManual(excite, ret)
        PROVE  NoSilentOverdrive' /\ InitNotOk'
    <3>1. [status EXCEPT !.loopMode = "MANUAL", !.loopExciteChannel = excite,
                         !.loopReturnChannel = ret] \in Statuses
      BY <1>0 DEF Statuses
    <3>. QED  BY <2>1, <2>4, <3>1 DEF BoardAdcLoopManual
  <2>5. ASSUME NEW on \in BOOLEAN, BoardAdcProtect(on)
        PROVE  NoSilentOverdrive' /\ InitNotOk'
    <3>1. [status EXCEPT !.adcProtectEnabled = on] \in Statuses
      BY <1>0 DEF Statuses
    <3>. QED  BY <2>1, <2>5, <3>1 DEF BoardAdcProtect
  <2>6. ASSUME NEW factor \in SampleGains, BoardAdcSampleGain(factor)
        PROVE  NoSilentOverdrive' /\ InitNotOk'
    <3>1. [status EXCEPT !.adcSampleGain = factor] \in Statuses
      BY <1>0 DEF Statuses
    <3>. QED  BY <2>1, <2>6, <3>1 DEF BoardAdcSampleGain
  <2>. QED  BY <1>8, <2>2, <2>3, <2>4, <2>5, <2>6 DEF AdcCommand
<1>9. CASE Measure
  <2>1. reply' # "ok"
    BY <1>9 DEF Measure, MeasureRefused, MeasureDecimationFails, MeasureAdmitted,
       ReplyOnly
  <2>. QED  BY <1>2, <2>1
<1>10. CASE Continue
  <2>1. CASE SystInitGains
    BY <1>2, <2>1 DEF SystInitGains, InitNotOk
  <2>2. CASE SystInitRouting
    <3>1. task.at = "initRouting" /\ UNCHANGED reply
      BY <2>2 DEF SystInitRouting
    <3>. QED  BY <1>2, <3>1 DEF InitNotOk
  <2>3. CASE MeasurePointFails \/ SweepCancelled
    BY <1>2, <2>3 DEF MeasurePointFails, SweepCancelled, EndMeasure
  <2>4. ASSUME NEW saturated \in BOOLEAN, MeasurePointDone(saturated)
        PROVE  NoSilentOverdrive' /\ InitNotOk'
    <3>1. CASE task.left = 1
      BY <1>2, <2>4, <3>1 DEF MeasurePointDone, EndMeasure
    <3>2. CASE task.left # 1
      <4>1. task.at = "points" /\ task' = [task EXCEPT !.left = @ - 1]
        BY <2>4, <3>2 DEF MeasurePointDone
      <4>2. task'.at = "points"
        BY <1>0, <4>1 DEF Tasks
      <4>. QED  BY <1>0, <4>2 DEF NoSilentOverdrive, InitNotOk, Ready
    <3>. QED  BY <3>1, <3>2
  <2>. QED  BY <1>10, <2>1, <2>2, <2>3, <2>4 DEF Continue
<1>11. CASE Environment
  BY <1>1, <1>2, <1>11 DEF Environment, BoardRestart, ServerRestart, server
<1>. QED  BY <1>4, <1>5, <1>6, <1>7, <1>8, <1>9, <1>10, <1>11 DEF Next

\* Whatever becomes of the exchanges with the board: a plain OK to a BOARD
\* command means that the last excitation, sent again, is within the limit by
\* all the server knows.
THEOREM NeverSilentOverdrive == Spec => []NoSilentOverdrive
<1>1. Init => TypeOK /\ NoSilentOverdrive /\ InitNotOk
  BY InitType DEF Init, Idle, NoSilentOverdrive, InitNotOk
<1>2. TypeOK /\ NoSilentOverdrive /\ InitNotOk /\ [Next]_<<link, vars>>
        => (TypeOK /\ NoSilentOverdrive /\ InitNotOk)'
  BY StepType, SilentStep
<1>. QED  BY <1>1, <1>2, PTL DEF Spec

-----------------------------------------------------------------------------
(***************************************************************************)
(* The evidence of saturation.                                             *)
(***************************************************************************)

\* A sinc has one point, and the flag was cleared when it was admitted: that
\* its reading replaces the flag, where that of a sweep adds to it, loses
\* nothing.
SincStartsClean ==
  task.at = "points" /\ ~task.sweep => task.left = 1 /\ ~status.adcSaturated

LEMMA EvidenceSame ==
  ASSUME NEW st, NEW c, st.adcSaturated = status.adcSaturated, status \in Statuses,
         st \in Statuses, ReplyWithWarning(st, c)
  PROVE  status'.adcSaturated = status.adcSaturated
BY DEF ReplyWithWarning, Statuses

\* A BOARD command neither clears the flag nor runs a task.
LEMMA EvidenceBoard ==
  ASSUME TypeOK, BoardCommand \/ AdcCommand
  PROVE  status'.adcSaturated = status.adcSaturated /\ UNCHANGED task
<1>. status \in Statuses
  BY DEF TypeOK
<1>1. CASE BoardCommand
  <2>1. (\E c : ReplyWithWarning(status, c)) \/ UNCHANGED status
    BY <1>1 DEF BoardCommand, BoardMuxRoute, BoardMuxDisconnect, BoardGain, BoardReset,
       BoardStatus, ReplyOnly
  <2>2. UNCHANGED task
    BY <1>1 DEF BoardCommand, BoardMuxRoute, BoardMuxDisconnect, BoardGain, BoardReset,
       BoardStatus, ReplyOnly
  <2>. QED  BY <2>1, <2>2, EvidenceSame
<1>2. CASE AdcCommand
  <2>1. UNCHANGED task
    BY <1>2 DEF AdcCommand, BoardAdcLoopOff, BoardAdcLoopAuto, BoardAdcLoopManual,
       BoardAdcProtect, BoardAdcSampleGain
  <2>2. CASE BoardAdcLoopOff
    BY <2>1, <2>2 DEF BoardAdcLoopOff, Statuses
  <2>3. CASE BoardAdcLoopAuto
    BY <2>1, <2>3 DEF BoardAdcLoopAuto, ReplyWithWarning, Statuses
  <2>4. ASSUME NEW excite \in Inputs, NEW ret \in Inputs, BoardAdcLoopManual(excite, ret)
        PROVE  status'.adcSaturated = status.adcSaturated
    BY <2>4 DEF BoardAdcLoopManual, ReplyWithWarning, Statuses
  <2>5. ASSUME NEW on \in BOOLEAN, BoardAdcProtect(on)
        PROVE  status'.adcSaturated = status.adcSaturated
    BY <2>5 DEF BoardAdcProtect, ReplyWithWarning, Statuses
  <2>6. ASSUME NEW factor \in SampleGains, BoardAdcSampleGain(factor)
        PROVE  status'.adcSaturated = status.adcSaturated
    BY <2>6 DEF BoardAdcSampleGain, ReplyWithWarning, Statuses
  <2>. QED  BY <1>2, <2>1, <2>2, <2>3, <2>4, <2>5, <2>6 DEF AdcCommand
<1>. QED  BY <1>1, <1>2

LEMMA EvidenceStep ==
  ASSUME TypeOK, SincStartsClean, Next
  PROVE  /\ SincStartsClean'
         /\ status.adcSaturated /\ ~status'.adcSaturated
              => \/ Ready /\ task'.at = "points"
                 \/ ~status'.hardwareInitialized
<1>. /\ status \in Statuses
     /\ Idle.at = "idle"
  BY DEF TypeOK, Idle
<1>1. CASE Reject \/ Query \/ SystStatus
  BY <1>1 DEF Reject, RejectArguments, RejectNotInitialized, RejectNoBoard, Query,
     SystStatus, ReplyOnly, SincStartsClean, Statuses
<1>2. CASE Lifecycle
  <2>1. CASE Rst
    BY <2>1 DEF Rst, Ready, FreshStatus, SincStartsClean
  <2>2. CASE SystInitAlreadyDone \/ SystInitHardwareFails
    BY <2>2 DEF SystInitAlreadyDone, SystInitHardwareFails, ReplyOnly, SincStartsClean
  <2>3. ASSUME NEW connected \in BOOLEAN, SystInitStart(connected)
        PROVE  status'.adcSaturated = status.adcSaturated /\ task'.at # "points"
    BY <2>3 DEF SystInitStart, Statuses, Idle
  <2>4. CASE SystDeinit
    BY <2>4 DEF SystDeinit, Ready, SincStartsClean, Statuses
  <2>. QED  BY <1>2, <2>1, <2>2, <2>3, <2>4 DEF Lifecycle, SincStartsClean
<1>3. CASE BoardCommand \/ AdcCommand
  BY <1>3, EvidenceBoard DEF SincStartsClean
<1>4. CASE Measure
  <2>1. ASSUME NEW amplitude \in Amplitudes, NEW sweep \in BOOLEAN,
               NEW points \in 1 .. MaxPoints, NEW decimation \in Decimations,
               MeasureAdmitted(sweep, points, amplitude, decimation)
        PROVE  Ready /\ task'.at = "points" /\ SincStartsClean'
    BY <2>1 DEF MeasureAdmitted, SincStartsClean, Statuses
  <2>2. ASSUME NEW amplitude \in Amplitudes,
               MeasureRefused(amplitude) \/ MeasureDecimationFails(amplitude)
        PROVE  UNCHANGED <<status, task>>
    BY <2>2 DEF MeasureRefused, MeasureDecimationFails, ReplyOnly
  <2>. QED  BY <1>4, <2>1, <2>2 DEF Measure, SincStartsClean
<1>5. CASE Continue
  <2>1. CASE SystInitGains
    BY <2>1, TypeOKParts DEF SystInitGains, SincStartsClean, Tasks
  <2>2. CASE SystInitRouting
    BY <2>2 DEF SystInitRouting, SincStartsClean, Statuses
  <2>3. CASE MeasurePointFails \/ SweepCancelled
    BY <2>3 DEF MeasurePointFails, SweepCancelled, EndMeasure, SincStartsClean, Statuses
  <2>4. ASSUME NEW saturated \in BOOLEAN, MeasurePointDone(saturated)
        PROVE  SincStartsClean' /\ (status.adcSaturated => status'.adcSaturated)
    <3>1. task \in Tasks /\ task.at = "points"
      BY <2>4 DEF MeasurePointDone, TypeOK
    <3>2. task.sweep \in BOOLEAN /\ (~task.sweep => task.left = 1 /\ ~status.adcSaturated)
      BY <3>1 DEF Tasks, SincStartsClean
    <3>3. status'.adcSaturated = (saturated \/ (task.sweep /\ status.adcSaturated))
      BY <2>4 DEF MeasurePointDone, EndMeasure, Statuses
    <3>4. task'.at = "points" => task'.sweep
      BY <2>4, <3>1, <3>2 DEF MeasurePointDone, EndMeasure, Tasks
    <3>. QED  BY <3>2, <3>3, <3>4 DEF SincStartsClean
  <2>. QED  BY <1>5, <2>1, <2>2, <2>3, <2>4 DEF Continue, SincStartsClean
<1>6. CASE Environment
  BY <1>6 DEF Environment, BoardRestart, ServerRestart, server, FreshStatus, SincStartsClean
<1>. QED  BY <1>1, <1>2, <1>3, <1>4, <1>5, <1>6 DEF Next

\* With every fault and whatever the sequence of commands: what an earlier
\* point saw of saturation is there until a measurement is admitted or the
\* hardware is given up.
THEOREM EvidenceAlwaysKept == Spec => SaturationEvidenceKept
<1>1. Init => TypeOK /\ SincStartsClean
  BY InitType DEF Init, Idle, SincStartsClean
<1>2. TypeOK /\ SincStartsClean /\ [Next]_<<link, vars>> => (TypeOK /\ SincStartsClean)'
  BY StepType, EvidenceStep DEF vars, server, SincStartsClean
<1>3. TypeOK /\ SincStartsClean /\ [Next]_<<link, vars>>
        => [status.adcSaturated /\ ~status'.adcSaturated
              => \/ Ready /\ task'.at = "points"
                 \/ ~status'.hardwareInitialized]_vars
  BY EvidenceStep DEF vars
<1>. QED  BY <1>1, <1>2, <1>3, PTL DEF Spec, SaturationEvidenceKept

-----------------------------------------------------------------------------
(***************************************************************************)
(* The advice of a refusal (OverdriveAdvice), over state of its own: the   *)
(* user who follows it, and the gains as the server takes them to be.      *)
(***************************************************************************)
AdviceTypes ==
  /\ gains \in [BoardInputs -> GainTable]
  /\ asked \in AskedAmplitudes
  /\ routeKnown => excited \in BoardInputs /\ routedTo \in BoardInputs

\* A search that finds a setting returns one of those it may return.
LEMMA HighestFound ==
  ASSUME NEW settings \in SUBSET GainTable, settings # {}
  PROVE  Highest(settings) \in settings
<1>. DEFINE Top == \E g \in settings : \A h \in settings : h <= g
<1>1. settings \subseteq {1, 2, 4, 8, 16, 32, 64, 128}
  BY DEF GainTable
<1>2. ASSUME 128 \in settings \/ 64 \in settings
      PROVE  Top
  BY <1>1, <1>2
<1>3. ASSUME settings \subseteq {1, 2, 4, 8, 16, 32}, 32 \in settings \/ 16 \in settings
      PROVE  Top
  BY <1>3
<1>4. ASSUME settings \subseteq {1, 2, 4, 8}, 8 \in settings \/ 4 \in settings
      PROVE  Top
  BY <1>4
<1>5. ASSUME settings \subseteq {1, 2}
      PROVE  Top
  <2>1. CASE 2 \in settings
    BY <1>5, <2>1
  <2>2. CASE 2 \notin settings
    <3>1. settings = {1}
      BY <1>5, <2>2
    <3>. QED  BY <3>1
  <2>. QED  BY <2>1, <2>2
<1>6. Top
  <2>1. CASE 128 \notin settings /\ 64 \notin settings
    <3>1. settings \subseteq {1, 2, 4, 8, 16, 32}
      BY <1>1, <2>1
    <3>2. CASE 32 \notin settings /\ 16 \notin settings
      <4>1. settings \subseteq {1, 2, 4, 8}
        BY <3>1, <3>2
      <4>2. CASE 8 \notin settings /\ 4 \notin settings
        <5>1. settings \subseteq {1, 2}
          BY <4>1, <4>2
        <5>. QED  BY <1>5, <5>1
      <4>. QED  BY <1>4, <4>1, <4>2
    <3>. QED  BY <1>3, <3>1, <3>2
  <2>. QED  BY <1>2, <2>1
<1>. QED  BY <1>6 DEF Highest

\* What a search returns does not overdrive, and is below all that does.
LEMMA SafeSetting ==
  ASSUME NEW over \in SUBSET GainTable, SafePrefix(over) # {}
  PROVE  LET g == Highest(SafePrefix(over))
         IN  g \in GainTable /\ g \notin over /\ \A h \in over : g < h
<1>1. SafePrefix(over) \in SUBSET GainTable
  BY DEF SafePrefix
<1>2. Highest(SafePrefix(over)) \in SafePrefix(over)
  BY <1>1, HighestFound
<1>3. \A g \in GainTable : ~(g < g)
  BY DEF GainTable
<1>. QED  BY <1>2, <1>3 DEF SafePrefix

\* The gain a refusal suggests is of the table and below the one in force; and
\* the peak it gives is within the full scale.
LEMMA SuggestedGain ==
  ASSUME AdviceTypes, FollowGainAdvice
  PROVE  LET c == Advice.channel
             g == Advice.gain
         IN  /\ c \in {excited, Return} /\ g \in GainTable
             /\ c \in BoardInputs => g < gains[c]
             /\ excited = Return => ~IsDirectOverdrive(asked, g)
             /\ excited # Return /\ c = Return
                  => ~IsOverdrive(asked, gains[excited], g, declared)
             /\ excited # Return /\ c = excited
                  => ~IsOverdrive(asked, g, gains[Return], declared)
<1>. DEFINE ret == Return
            direct == {g \in GainTable : IsDirectOverdrive(asked, g)}
            byReturn == {g \in GainTable :
                           IsOverdrive(asked, gains[excited], g, declared)}
            byExcite == {g \in GainTable :
                           IsOverdrive(asked, g, gains[ret], declared)}
<1>1. Peak(ret) > AdcFullScale /\ Advice.gain # 0
  BY DEF FollowGainAdvice, Refused, NoGain
<1>2. \A c \in BoardInputs : gains[c] \in GainTable
  BY DEF AdviceTypes
<1>3. CASE excited = ret
  <2>1. /\ SafePrefix(direct) # {}
        /\ Advice.channel = excited
        /\ Advice.gain = Highest(SafePrefix(direct))
    BY <1>1, <1>3 DEF Advice, SafeDirectGains, NoGain
  <2>2. excited \in BoardInputs => gains[excited] \in direct
    <3>. SUFFICES ASSUME excited \in BoardInputs
                  PROVE  IsDirectOverdrive(asked, gains[excited])
      BY <1>2
    <3>1. 64 * BoardDrivePeak(asked, gains[excited]) > 4096
      BY <1>1, <1>3 DEF Peak, LoopPeak, AdcFullScale,
         DriveFullScale
    <3>2. asked \in 1 .. 8 /\ gains[excited] \in Nat
      BY <1>2, AdviceAssumption DEF AdviceTypes, AdviceAssumption, AmplitudeRange,
         Unit, GainTable
    <3>3. asked * gains[excited] \in Nat
      BY <3>2, ProductNatural
    <3>4. BoardDrivePeak(asked, gains[excited]) \in Nat
      BY <3>3 DEF BoardDrivePeak, Clip, DriveRail
    <3>. QED  BY <3>1, <3>4 DEF IsDirectOverdrive, DriveFullScale
  <2>. QED  BY <1>3, <2>1, <2>2, SafeSetting
<1>4. CASE excited # ret
  <2>1. \/ /\ SafePrefix(byReturn) # {}
           /\ Advice.channel = ret
           /\ Advice.gain = Highest(SafePrefix(byReturn))
        \/ /\ SafePrefix(byExcite) # {}
           /\ Advice.channel = excited
           /\ Advice.gain = Highest(SafePrefix(byExcite))
    BY <1>1, <1>4 DEF Advice, SafeReturnGains, SafeExciteGains,
       NoGain
  <2>2. IsOverdrive(asked, gains[excited], gains[ret], declared)
    BY <1>1, <1>4 DEF Peak, LoopPeak, IsOverdrive
  <2>3. /\ ret \in BoardInputs => gains[ret] \in byReturn
        /\ excited \in BoardInputs => gains[excited] \in byExcite
    BY <1>2, <2>2
  <2>. QED  BY <1>4, <2>1, <2>3, SafeSetting
<1>. QED  BY <1>3, <1>4

\* A refusal that suggests a gain, for any gains, routing, amplitude and sample
\* gain: one BOARD:GAIN as told is enough when the routing is known, and never
\* is a gain suggested that is not below the one in force (_describeOverdrive).
THEOREM AdviceAlwaysHelps == AdviceSpec => AdviceHelps
<1>1. AdviceInit => AdviceTypes
  BY DEF AdviceInit, AdviceTypes
<1>2. AdviceTypes /\ [AdviceNext]_adviceVars => AdviceTypes'
  <2>. SUFFICES ASSUME AdviceTypes, [AdviceNext]_adviceVars
                PROVE  AdviceTypes'
    OBVIOUS
  <2>1. CASE UNCHANGED adviceVars
    BY <2>1 DEF adviceVars, AdviceTypes
  <2>2. CASE FollowGainAdvice
    BY <2>2, SuggestedGain DEF FollowGainAdvice, AdviceTypes
  <2>. QED  BY <2>1, <2>2 DEF AdviceNext
<1>3. AdviceTypes /\ [AdviceNext]_adviceVars
        => /\ [FollowGainAdvice /\ routeKnown => ~Refused']_adviceVars
           /\ [\A c \in BoardInputs : gains'[c] <= gains[c]]_gains
  <2>. SUFFICES ASSUME AdviceTypes, FollowGainAdvice
                PROVE  /\ routeKnown => ~Refused'
                       /\ \A c \in BoardInputs : gains'[c] <= gains[c]
    BY DEF AdviceNext, adviceVars
  <2>. DEFINE ret == Return
              channel == Advice.channel
              g == Advice.gain
  <2>1. /\ gains' = [gains EXCEPT ![channel] = g]
        /\ UNCHANGED <<asked, declared, excited, routeKnown, routedTo>>
    BY DEF FollowGainAdvice
  <2>2. /\ channel \in {excited, ret} /\ g \in GainTable
        /\ channel \in BoardInputs => g < gains[channel]
        /\ excited = ret => ~IsDirectOverdrive(asked, g)
        /\ excited # ret /\ channel = ret
             => ~IsOverdrive(asked, gains[excited], g, declared)
        /\ excited # ret /\ channel = excited
             => ~IsOverdrive(asked, g, gains[ret], declared)
    BY SuggestedGain
  <2>. HIDE DEF channel, g
  <2>3. \A c \in BoardInputs : gains'[c] <= gains[c]
    BY <2>1, <2>2 DEF AdviceTypes, GainTable
  <2>4. ASSUME routeKnown PROVE ~Refused'
    <3>1. ret = routedTo /\ ret \in BoardInputs /\ excited \in BoardInputs
      BY <2>4 DEF Return, AdviceTypes
    <3>2. Refused' <=>
            LoopPeak(gains', asked, excited, ret, declared) > AdcFullScale
      BY <2>1, <2>4, <3>1 DEF Refused, Return, Peak
    <3>3. gains' \in [BoardInputs -> GainTable] /\ gains'[channel] = g
          /\ \A c \in BoardInputs : c # channel => gains'[c] = gains[c]
      BY <2>1, <2>2, <3>1 DEF AdviceTypes
    <3>4. CASE excited # ret
      BY <2>2, <3>1, <3>2, <3>3, <3>4 DEF LoopPeak, IsOverdrive
    <3>5. CASE excited = ret
      <4>1. asked \in 1 .. 8 /\ g \in Nat
        BY <2>2, AdviceAssumption DEF AdviceTypes, AdviceAssumption, AmplitudeRange,
           Unit, GainTable
      <4>2. asked * g \in Nat
        BY <4>1, ProductNatural
      <4>3. BoardDrivePeak(asked, g) \in Nat
        BY <4>2 DEF BoardDrivePeak, Clip, DriveRail
      <4>4. BoardDrivePeak(asked, g) <= 64
        BY <2>2, <3>5, <4>3 DEF IsDirectOverdrive, DriveFullScale
      <4>5. LoopPeak(gains', asked, excited, ret, declared)
              = 64 * BoardDrivePeak(asked, g)
        BY <2>2, <3>3, <3>5 DEF LoopPeak, AdcFullScale,
           DriveFullScale
      <4>. QED  BY <3>2, <4>3, <4>4, <4>5 DEF AdcFullScale
    <3>. QED  BY <3>4, <3>5
  <2>. QED  BY <2>3, <2>4
<1>. QED  BY <1>1, <1>2, <1>3, PTL DEF AdviceSpec, AdviceHelps,
     OneGainIsEnough, AdviceLowersGain
=============================================================================
